------------------------------ MODULE AuditTrail ------------------------------
(***************************************************************************)
(* What the broker's audit trail promises about the requests it handles,   *)
(* whatever the code that keeps it: a blocked request never leaves, a row  *)
(* carries the verdict and is closed once, after the verdict was carried   *)
(* out, and evidence is only ever added to an open row.  Module Broker     *)
(* implements this specification, crashes and failing statements included: *)
(* a crash is a stutter here.                                              *)
(***************************************************************************)
CONSTANT Requests

VARIABLES
  blocked,   \* requests the scan decided to block
  sent,      \* requests an upstream has seen
  row,       \* the stage of each request's row, and the verdict it carries
  flagged,   \* requests with a violation on record
  asked      \* requests with an approval request on record

vars == <<blocked, sent, row, flagged, asked>>

TypeOK ==
  /\ blocked \subseteq Requests /\ sent \subseteq Requests
  /\ row \in [Requests -> [stage : {"absent", "open", "final"}, blocked : BOOLEAN]]
  /\ flagged \subseteq Requests /\ asked \subseteq Requests

Init ==
  /\ blocked = {} /\ sent = {} /\ flagged = {} /\ asked = {}
  /\ row = [r \in Requests |-> [stage |-> "absent", blocked |-> FALSE]]

\* The verdict comes before anything is sent or recorded.
Block(r) ==
  /\ r \notin blocked \cup sent /\ row[r].stage = "absent"
  /\ blocked' = blocked \cup {r}
  /\ UNCHANGED <<sent, row, flagged, asked>>

Open(r) ==
  /\ row[r].stage = "absent" /\ r \notin sent
  /\ row' = [row EXCEPT ![r] = [stage |-> "open", blocked |-> r \in blocked]]
  /\ UNCHANGED <<blocked, sent, flagged, asked>>

Flag(r) ==
  /\ row[r].stage = "open" /\ r \notin sent
  /\ flagged' = flagged \cup {r}
  /\ UNCHANGED <<blocked, sent, row, asked>>

Ask(r) ==
  /\ row[r].stage = "open" /\ r \in blocked
  /\ asked' = asked \cup {r}
  /\ UNCHANGED <<blocked, sent, row, flagged>>

Send(r) ==
  /\ r \notin blocked /\ row[r].stage # "final"
  /\ sent' = sent \cup {r}
  /\ UNCHANGED <<blocked, row, flagged, asked>>

Close(r) ==
  /\ row[r].stage = "open" /\ r \in blocked \cup sent
  /\ row' = [row EXCEPT ![r].stage = "final"]
  /\ UNCHANGED <<blocked, sent, flagged, asked>>

Next == \E r \in Requests :
  Block(r) \/ Open(r) \/ Flag(r) \/ Ask(r) \/ Send(r) \/ Close(r)

Spec == Init /\ [][Next]_vars
=============================================================================
