---------------------------- MODULE ApprovalStore ----------------------------
(***************************************************************************)
(* The guard's approval store (apps/guard/src/approval.rs), called through *)
(* the MCP tools of apps/guard/src/mcp.rs.  Everything is in memory, behind *)
(* three mutexes; decide() works under the first, lets it go, and records  *)
(* its action under another, so a decision is two steps.                   *)
(*                                                                         *)
(* An approval request appears by what the store reads of it: its id, its  *)
(* session (or none), the rule that matched, and expires_at (or none).     *)
(***************************************************************************)
EXTENDS Integers, Sequences

CONSTANTS
  Ids,        \* ids of approval requests
  Sessions,   \* session ids
  Rules,      \* rule ids
  None,       \* Option::None
  Callers,    \* threads that use the store
  FirstClock, LastClock   \* bound: the seconds now_iso8601() may return

ASSUME NoneAssumption == None \notin Ids \cup Sessions \cup Rules \cup Nat
\* The texts of the times have the same number of digits, as those of Unix
\* seconds have until the year 2286.
ASSUME ClockAssumption == FirstClock \in 10 .. 99 /\ LastClock \in FirstClock .. 99

VARIABLES
  store,              \* requests: HashMap<id, ApprovalRequest>
  actions,            \* actions: Vec<ApprovalActionRecord>, the records of each id
  session_approvals,  \* HashMap<session_id, rule_id>
  deciding,           \* the record a caller of decide() has yet to push
  clock               \* the system clock, in seconds

vars == <<store, actions, session_approvals, deciding, clock>>

Action == {"allow_once", "allow_session", "block"}
Clocks == FirstClock .. LastClock

\* An entry of the map; status is "absent" where there is none.
ApprovalRequest ==
  [status : {"absent", "pending", "approved", "rejected", "expired"},
   session : Sessions \cup {None}, rule : Rules \cup {None},
   expires_at : Clocks \cup {None}]
Absent == [status |-> "absent", session |-> None, rule |-> None, expires_at |-> None]
Idle   == [id |-> None, action |-> "none"]

Status(id) == store[id].status

\* now_iso8601() and expires_at are decimal texts, and compared as such.  This
\* is the order of the texts of numbers below 100.
TextLess(a, b) ==
  LET tens(n) == IF n < 10 THEN n ELSE n \div 10
      unit(n) == IF n < 10 THEN -1 ELSE n % 10
  IN  tens(a) < tens(b) \/ (tens(a) = tens(b) /\ unit(a) < unit(b))

Init ==
  /\ store = [id \in Ids |-> Absent]
  /\ actions = [id \in Ids |-> <<>>]
  /\ session_approvals = [s \in Sessions |-> None]
  /\ deciding = [c \in Callers |-> Idle]
  /\ clock = FirstClock

\* create_request: pending, under a new id.  The insert would replace a request of
\* the same id, but whoever makes one gives it a UUID.
CreateRequest(id, session, rule, expires_at) ==
  /\ Status(id) = "absent"
  /\ store' = [store EXCEPT ![id] = [status |-> "pending", session |-> session,
                                     rule |-> rule, expires_at |-> expires_at]]
  /\ UNCHANGED <<actions, session_approvals, deciding, clock>>

\* Mutant: the status is not looked at.
DecidableAgain(id) == Status(id) # "absent"
\* decide() fails on an id it does not know and on a status that is final.
Decidable(id) == Status(id) = "pending"

NewStatus(action) ==
  IF action = "block" THEN "rejected" ELSE "approved"

\* Mutant: any approval is registered for the session.
ForSessionAlways(action) == action # "block"
ForSession(action) == action = "allow_session"

\* decide(), while it holds the requests lock (session_approvals nests in it).
Decide(c, id, action) ==
  /\ deciding[c] = Idle
  /\ Decidable(id)
  /\ store' = [store EXCEPT ![id].status = NewStatus(action)]
  /\ deciding' = [deciding EXCEPT ![c] = [id |-> id, action |-> action]]
  /\ session_approvals' =
       IF ForSession(action) /\ store[id].session # None
       THEN [session_approvals EXCEPT ![store[id].session] = store[id].rule]
       ELSE session_approvals
  /\ UNCHANGED <<actions, clock>>

\* decide(), after drop(requests).
RecordAction(c) ==
  /\ deciding[c] # Idle
  /\ actions' = [actions EXCEPT ![deciding[c].id] = Append(@, deciding[c].action)]
  /\ deciding' = [deciding EXCEPT ![c] = Idle]
  /\ UNCHANGED <<store, session_approvals, clock>>

\* Mutant: whatever has an expiry that passed, decided or not.
OverdueEvenDecided(id) ==
  Status(id) # "absent" /\ store[id].expires_at # None /\ TextLess(store[id].expires_at, clock)
Overdue(id) ==
  /\ Status(id) = "pending"
  /\ store[id].expires_at # None /\ TextLess(store[id].expires_at, clock)

\* Mutant: the sweep takes what is overdue out of the map.
SweepDeletes ==
  /\ \E id \in Ids : Overdue(id)
  /\ store' = [id \in Ids |-> IF Overdue(id) THEN Absent ELSE store[id]]
  /\ UNCHANGED <<actions, session_approvals, deciding, clock>>
\* expire_timed_out: one sweep under the requests lock.
ExpireTimedOut ==
  /\ \E id \in Ids : Overdue(id)
  /\ store' = [id \in Ids |-> IF Overdue(id) THEN [store[id] EXCEPT !.status = "expired"]
                              ELSE store[id]]
  /\ UNCHANGED <<actions, session_approvals, deciding, clock>>

Tick ==
  /\ clock < LastClock
  /\ clock' = clock + 1
  /\ UNCHANGED <<store, actions, session_approvals, deciding>>

\* list_pending and is_session_approved.
ListPending == {id \in Ids : Status(id) = "pending"}
IsSessionApproved(session, rule) == session_approvals[session] = rule

Next ==
  \/ \E id \in Ids, session \in Sessions \cup {None}, rule \in Rules,
        expires_at \in Clocks \cup {None} : CreateRequest(id, session, rule, expires_at)
  \/ \E c \in Callers, id \in Ids, action \in Action : Decide(c, id, action)
  \/ \E c \in Callers : RecordAction(c)
  \/ ExpireTimedOut
  \/ Tick

Spec == Init /\ [][Next]_vars

-----------------------------------------------------------------------------
(* Properties. *)

TypeOK ==
  /\ store \in [Ids -> ApprovalRequest]
  /\ actions \in [Ids -> Seq(Action)]
  /\ session_approvals \in [Sessions -> Rules \cup {None}]
  /\ deciding \in [Callers -> [id : Ids, action : Action] \cup {Idle}]
  /\ clock \in Clocks

\* The records of id, those not pushed yet included.
InFlight(id) == {c \in Callers : deciding[c].id = id}

\* A request is decided once, by one caller, whatever callers race for it: the
\* one record of a decided request is in the log or with the caller about to
\* push it, and says what the status says; nothing else has a record
\* (approval.rs 113-159).
OneRecordPerDecision ==
  \A id \in Ids :
    IF Status(id) \in {"approved", "rejected"}
    THEN \/ /\ InFlight(id) = {} /\ Len(actions[id]) = 1
            /\ NewStatus(actions[id][1]) = Status(id)
         \/ /\ actions[id] = <<>>
            /\ \E c \in Callers : /\ InFlight(id) = {c}
                                  /\ NewStatus(deciding[c].action) = Status(id)
    ELSE InFlight(id) = {} /\ actions[id] = <<>>

AllowedForSession(id) ==
  \/ actions[id] = <<"allow_session">>
  \/ \E c \in InFlight(id) : deciding[c].action = "allow_session"

\* A session is approved for a rule only because the user allowed a request of
\* that session, for that rule, for the session: neither "allow once" nor a
\* request without a session opens one (145-151, 162-168).
SessionApprovalHasSource ==
  \A s \in Sessions, rule \in Rules : IsSessionApproved(s, rule) =>
    \E id \in Ids : /\ Status(id) = "approved" /\ AllowedForSession(id)
                    /\ store[id].session = s /\ store[id].rule = rule

\* An outcome is final, and expiry is the outcome of overdue requests alone,
\* however decisions and sweeps interleave (119-125, 177-186).
OutcomesAreFinal ==
  [][\A id \in Ids :
       /\ Status(id) \in {"approved", "rejected", "expired"} => store'[id] = store[id]
       /\ Status(id) # "expired" /\ Status(id)' = "expired" =>
            Status(id) = "pending" /\ store[id].expires_at < clock]_vars

\* What was chosen for id: in the log, or with the caller about to push it.
ChosenFor(id) ==
  IF actions[id] # <<>> THEN actions[id][1]
  ELSE IF InFlight(id) # {} THEN deciding[CHOOSE c \in InFlight(id) : TRUE].action
  ELSE "none"

Register == INSTANCE DecisionRegister WITH
  Times <- Clocks, now <- clock, record <- actions,
  outcome  <- [id \in Ids |-> Status(id)],
  deadline <- [id \in Ids |-> store[id].expires_at],
  choice   <- [id \in Ids |-> ChosenFor(id)]

\* However many callers decide, whatever the sweep comes between, and though a
\* decision and its record are taken under two locks, every request has one
\* outcome that stands, the expired ones were overdue, and one record, of the
\* choice that decided it (94-186).
KeepsTheRegister == Register!Spec

-----------------------------------------------------------------------------
(* What the documents and comments say and the code does not do.           *)

\* docs/broker代理功能技术方案-v1.3.2.md:534: an expired request may not be
\* activated by "allow once" or "allow for this session".  decide() does not
\* look at expires_at, and nothing runs the sweep before it.
NoLateApproval ==
  [][\A id \in Ids : Status(id) = "pending" /\ Status(id)' = "approved" =>
       store[id].expires_at = None \/ clock <= store[id].expires_at]_vars
=============================================================================
