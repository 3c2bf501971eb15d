----------------------------- MODULE EventService -----------------------------
(***************************************************************************)
(* What POST /api/v1/events promises the tools that post: a key is let in  *)
(* exactly when fewer than Limit of its events were let in within the last *)
(* Window, and told so otherwise; what is accepted is stored, and what is  *)
(* stored was let in.  There is no queue here, no lock and no statement:   *)
(* who is let in depends on what was let in before, and on the time.       *)
(* Module Events implements this specification.                            *)
(***************************************************************************)
EXTENDS Integers, Sequences, FiniteSets

CONSTANTS Posts, Keys, Window, Limit

VARIABLES
  key,         \* what each post is counted under
  state,       \* how far each post is, or what it was answered
  table,       \* the posts that are stored
  admissions,  \* when each key was let in since the last restart
  now

vars == <<key, state, table, admissions, now>>

Init ==
  /\ key \in [Posts -> Keys]
  /\ state = [p \in Posts |-> "waiting"]
  /\ table = {}
  /\ admissions = [k \in Keys |-> <<>>]
  /\ now = 0

Move(p, from, to) == state[p] = from /\ state' = [state EXCEPT ![p] = to]

\* How many events of a key were let in within the window that ends now.
InWindow(k) ==
  Cardinality({i \in DOMAIN admissions[k] : now - admissions[k][i] < Window})

TurnAway(p) ==
  /\ Move(p, "waiting", "unauthorized")
  /\ UNCHANGED <<key, table, admissions, now>>

Admit(p) ==
  /\ InWindow(key[p]) < Limit
  /\ Move(p, "waiting", "admitted")
  /\ admissions' = [admissions EXCEPT ![key[p]] = Append(@, now)]
  /\ UNCHANGED <<key, table, now>>

Refuse(p) ==
  /\ InWindow(key[p]) >= Limit
  /\ Move(p, "waiting", "rate_limited")
  /\ UNCHANGED <<key, table, admissions, now>>

Store(p) ==
  /\ Move(p, "admitted", "stored")
  /\ table' = table \cup {p}
  /\ UNCHANGED <<key, admissions, now>>

Apologise(p) ==
  /\ Move(p, "admitted", "persistence_failed")
  /\ UNCHANGED <<key, table, admissions, now>>

Confirm(p) ==
  /\ Move(p, "stored", "accepted")
  /\ UNCHANGED <<key, table, admissions, now>>

Tick == now' = now + 1 /\ UNCHANGED <<key, state, table, admissions>>

\* Posts under way are lost, those that still wait perhaps; the table stays.
Restart ==
  /\ \E unheard \in SUBSET {p \in Posts : state[p] = "waiting"} :
       state' = [p \in Posts |->
                   IF p \in unheard \/ state[p] \in {"admitted", "stored"}
                   THEN "lost" ELSE state[p]]
  /\ admissions' = [k \in Keys |-> <<>>]
  /\ UNCHANGED <<key, table, now>>

Next ==
  \/ \E p \in Posts : TurnAway(p) \/ Admit(p) \/ Refuse(p) \/ Store(p) \/ Apologise(p) \/ Confirm(p)
  \/ Tick \/ Restart

Spec == Init /\ [][Next]_vars
=============================================================================
