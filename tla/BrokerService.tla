----------------------------- MODULE BrokerService -----------------------------
(***************************************************************************)
(* What starting and stopping brokers promises: one broker at a time       *)
(* serves the port, none before the audit database has the schema the code *)
(* writes to, and that schema is never taken away.                         *)
(***************************************************************************)
CONSTANT Brokers

VARIABLES
  upgraded,  \* the database has every table and column of this version
  server     \* the broker that serves the port, if any

vars == <<upgraded, server>>

Init == upgraded \in BOOLEAN /\ server = {}

Upgrade ==
  /\ ~upgraded /\ upgraded' = TRUE
  /\ UNCHANGED server

Serve(b) ==
  /\ upgraded
  /\ server = {} /\ server' = {b}
  /\ UNCHANGED upgraded

Leave ==
  /\ server # {} /\ server' = {}
  /\ UNCHANGED upgraded

Next == Upgrade \/ (\E b \in Brokers : Serve(b)) \/ Leave

Spec == Init /\ [][Next]_vars
=============================================================================
