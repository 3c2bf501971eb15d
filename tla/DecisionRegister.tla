--------------------------- MODULE DecisionRegister ---------------------------
(***************************************************************************)
(* What whoever asks for an approval may count on: a request is asked for  *)
(* once, has one outcome that stands, the user's choice or that its time   *)
(* ran out, and the choice is written down once, as it was made.  Nothing  *)
(* is said of who chooses, how many may race for it, or how the register   *)
(* keeps them apart: ApprovalStore says that, and implements this.         *)
(***************************************************************************)
EXTENDS Integers, Sequences

CONSTANTS
  Ids,    \* ids of requests
  None,   \* no deadline
  Times   \* the times of its clock

VARIABLES
  outcome,   \* of each request: not asked for, pending, or how it came out
  deadline,  \* when its time runs out, or None
  choice,    \* what the user chose, or "none"
  record,    \* what is written of it
  now

vars == <<outcome, deadline, choice, record, now>>

Outcome(chosen) == IF chosen = "block" THEN "rejected" ELSE "approved"

Init ==
  /\ outcome = [id \in Ids |-> "absent"]
  /\ deadline = [id \in Ids |-> None]
  /\ choice = [id \in Ids |-> "none"]
  /\ record = [id \in Ids |-> <<>>]
  /\ now \in Times

Ask(id) ==
  /\ outcome[id] = "absent"
  /\ outcome' = [outcome EXCEPT ![id] = "pending"]
  /\ \E by \in Times \cup {None} : deadline' = [deadline EXCEPT ![id] = by]
  /\ UNCHANGED <<choice, record, now>>

\* The first choice is the only one.
Choose(id, chosen) ==
  /\ outcome[id] = "pending"
  /\ outcome' = [outcome EXCEPT ![id] = Outcome(chosen)]
  /\ choice' = [choice EXCEPT ![id] = chosen]
  /\ UNCHANGED <<deadline, record, now>>

\* It is written down some time after it was made, and once.
WriteDown(id) ==
  /\ record[id] = <<>> /\ choice[id] # "none"
  /\ record' = [record EXCEPT ![id] = <<choice[id]>>]
  /\ UNCHANGED <<outcome, deadline, choice, now>>

\* Pending, and its deadline is past.
Late(id) == outcome[id] = "pending" /\ deadline[id] # None /\ deadline[id] < now

\* All that is late runs out, and nothing else.
RunOut ==
  /\ \E id \in Ids : Late(id)
  /\ outcome' = [id \in Ids |-> IF Late(id) THEN "expired" ELSE outcome[id]]
  /\ UNCHANGED <<deadline, choice, record, now>>

Pass ==
  /\ now' \in Times /\ now' > now
  /\ UNCHANGED <<outcome, deadline, choice, record>>

Next ==
  \/ \E id \in Ids :
       \/ Ask(id)
       \/ \E chosen \in {"allow_once", "allow_session", "block"} : Choose(id, chosen)
       \/ WriteDown(id)
  \/ RunOut
  \/ Pass

Spec == Init /\ [][Next]_vars
===============================================================================
