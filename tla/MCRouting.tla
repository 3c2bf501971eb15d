------------------------------ MODULE MCRouting ------------------------------
(* Model-checking instances of Routing. *)
EXTENDS Routing

\* Bases and ids are interchangeable: sound for the safety runs.
Symmetry == Permutations(Ids) \cup Permutations(Bases)
=============================================================================
