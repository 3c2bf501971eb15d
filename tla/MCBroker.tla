------------------------------ MODULE MCBroker ------------------------------
(* Model-checking instances of Broker. *)
EXTENDS Broker, TLC

\* Requests are interchangeable: sound for the runs of an invariant.
Symmetry == Permutations(Requests)
=============================================================================
