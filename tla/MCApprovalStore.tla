--------------------------- MODULE MCApprovalStore ---------------------------
(* Model-checking instances of ApprovalStore. *)
EXTENDS ApprovalStore, TLC

\* Ids and callers are interchangeable: sound for the safety runs.
Symmetry == Permutations(Ids) \cup Permutations(Callers)
=============================================================================
