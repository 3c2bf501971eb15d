------------------------------ MODULE MCEvents ------------------------------
(* A model-checking instance of Events. *)
EXTENDS Events, TLC

CONSTANTS s1, m1, claude, dir

\* A post of a session, which may name its runtime too, and one that names no
\* session: two keys.
MCForms ==
  {[session |-> s1, runtime |-> claude, minute |-> m1, cwd |-> dir],
   [session |-> None, runtime |-> claude, minute |-> m1, cwd |-> dir]}

\* Posts are interchangeable: sound for the safety run.
Symmetry == Permutations(Posts)
=============================================================================
