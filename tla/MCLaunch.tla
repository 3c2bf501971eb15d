------------------------------ MODULE MCLaunch ------------------------------
(* Model-checking instances of Launch. *)
EXTENDS Launch, TLC

CONSTANTS u1, u2, port1, port2, host1, host2, local, named

\* One runtime that registers its upstream and one that does not.
MCLaunched == {Claude, Codex}

\* The providers' URLs have hosts of their own, those of the ports have one.
MCDeriveId == (u1 :> host1) @@ (u2 :> host2) @@ (port1 :> local) @@ (port2 :> local)

\* The text of the first port, 8765, begins with that of the second, 876.
MCLooksLike == (port1 :> {port1}) @@ (port2 :> {port1, port2})

\* A file with another port than the default, an upstream, and an entry by hand.
MCDrafts ==
  {[upstream |-> [name \in Names |-> IF name = "codex" THEN u1 ELSE None],
    registry |-> [id \in Ids |-> IF id = named THEN u1 ELSE None],
    port     |-> port2]}

\* The processes are interchangeable: sound for the safety runs.
Symmetry == Permutations(Procs)
=============================================================================
