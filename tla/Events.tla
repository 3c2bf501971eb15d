-------------------------------- MODULE Events --------------------------------
(***************************************************************************)
(* POST /api/v1/events (apps/broker/src/events.rs): local tools report     *)
(* events with a bearer token; each correlation key has a sliding window   *)
(* of recent events, and what the window lets through is stored.           *)
(*                                                                         *)
(* post_events never awaits: once the body is parsed a post runs to its    *)
(* end, and only other threads, at the two mutexes, or a crash come in     *)
(* between.  Each locked block is one action.                              *)
(***************************************************************************)
EXTENDS Integers, Sequences, FiniteSets

CONSTANTS
  Posts,       \* the posts tools make; a retry is another post
  Forms,       \* what a post says of its sender
  None,        \* a header or field that is not there
  Window,      \* RATE_LIMIT_WINDOW, in ticks
  Limit,       \* RATE_LIMIT_MAX_EVENTS
  LastClock,   \* bound: where the clock stops
  MaxCrashes   \* bound: crashes of the broker process

\* correlation_id_for_event: the session header; without it the runtime, the
\* minute of the timestamp and the last part of the working directory.
CorrelationId(form) ==
  IF form.session # None THEN <<form.session>> ELSE <<form.runtime, form.minute, form.cwd>>
Keys == {CorrelationId(form) : form \in Forms}

ASSUME EventsAssumption ==
  /\ Window \in Nat \ {0} /\ Limit \in Nat \ {0}
  /\ LastClock \in Nat /\ MaxCrashes \in Nat

VARIABLES
  pc,             \* where each post is
  form,           \* what each post says
  answer,         \* the status each post was answered with
  recent_events,  \* LocalRateLimiter: the deque of each key
  events,         \* table events: the posts that have a row
  clock,          \* Instant::now()
  arrived,        \* history: when each post that waits for allow() arrived
  admissions,     \* history: when each key was let through, in this process
  crashes

vars == <<pc, form, answer, recent_events, events, clock, arrived, admissions, crashes>>

Init ==
  /\ pc = [p \in Posts |-> "idle"]
  /\ form \in [Posts -> Forms]
  /\ answer = [p \in Posts |-> "none"]
  /\ recent_events = [k \in Keys |-> <<>>]
  /\ events = {}
  /\ clock = 0
  /\ arrived = [p \in Posts |-> 0]
  /\ admissions = [k \in Keys |-> <<>>]
  /\ crashes = 0

Key(p) == CorrelationId(form[p])

Answer(p, status) ==
  /\ pc' = [pc EXCEPT ![p] = "done"]
  /\ answer' = [answer EXCEPT ![p] = status]

\* is_authorized: the header is there and its token is the configured one.
Authorize(p, authorized) ==
  /\ pc[p] = "idle"
  /\ IF authorized
     THEN /\ pc' = [pc EXCEPT ![p] = "limit"] /\ UNCHANGED answer
          /\ arrived' = [arrived EXCEPT ![p] = clock]
     ELSE Answer(p, "unauthorized") /\ UNCHANGED arrived
  /\ UNCHANGED <<form, recent_events, events, clock, admissions, crashes>>

-----------------------------------------------------------------------------
(* LocalRateLimiter. *)

\* Mutant: the time is taken before the lock.
NowBeforeLock(p) == arrived[p]
\* The guard of the mutex is evaluated first, Instant::now() under it.
Now(p) == clock

\* Mutant: an entry stays for one tick too long.
GoneLate(t, now) == now - t > Window
Gone(t, now) == now - t >= Window

\* How many entries at the front of the deque have left the window.
Popped(times, now) ==
  CHOOSE n \in 0 .. Len(times) :
    /\ \A i \in 1 .. n : Gone(times[i], now)
    /\ n < Len(times) => ~Gone(times[n + 1], now)
Recent(times, now) == SubSeq(times, Popped(times, now) + 1, Len(times))

\* Mutant: one entry too many.
FullLate(times) == Len(times) > Limit
Full(times) == Len(times) >= Limit

\* allow(), under the limiter's mutex.
Allow(p) ==
  LET recent == Recent(recent_events[Key(p)], Now(p))
  IN  /\ pc[p] = "limit"
      /\ IF Full(recent)
         THEN /\ recent_events' = [recent_events EXCEPT ![Key(p)] = recent]
              /\ Answer(p, "rate_limited") /\ UNCHANGED admissions
         ELSE /\ recent_events' = [recent_events EXCEPT ![Key(p)] = Append(recent, Now(p))]
              /\ pc' = [pc EXCEPT ![p] = "persist"] /\ UNCHANGED answer
              /\ admissions' = [admissions EXCEPT ![Key(p)] = Append(@, clock)]
      /\ arrived' = [arrived EXCEPT ![p] = 0]
      /\ UNCHANGED <<form, events, clock, crashes>>

-----------------------------------------------------------------------------
\* insert_event: one statement.
InsertEvent(p) == events' = events \cup {p}

\* persist_event, under the storage mutex.  The response is sent later, and a
\* crash may come first.
Persist(p) ==
  /\ pc[p] = "persist"
  /\ InsertEvent(p)
  /\ pc' = [pc EXCEPT ![p] = "stored"]
  /\ UNCHANGED <<form, answer, recent_events, clock, arrived, admissions, crashes>>

\* Mutant: the error of the statement is not looked at.
PersistFailsSilently(p) ==
  /\ pc[p] = "persist"
  /\ Answer(p, "accepted")
  /\ UNCHANGED <<form, recent_events, events, clock, arrived, admissions, crashes>>

\* The statement fails; the place in the window stays taken.
PersistFails(p) ==
  /\ pc[p] = "persist"
  /\ Answer(p, "persistence_failed")
  /\ UNCHANGED <<form, recent_events, events, clock, arrived, admissions, crashes>>

Accepted(p) ==
  /\ pc[p] = "stored"
  /\ Answer(p, "accepted")
  /\ UNCHANGED <<form, recent_events, events, clock, arrived, admissions, crashes>>

-----------------------------------------------------------------------------
Tick ==
  /\ clock < LastClock
  /\ clock' = clock + 1
  /\ UNCHANGED <<pc, form, answer, recent_events, events, arrived, admissions, crashes>>

\* The process dies and is started again, with an empty limiter.
CrashAndRestart ==
  /\ crashes < MaxCrashes
  /\ crashes' = crashes + 1
  /\ pc' = [p \in Posts |-> IF pc[p] \in {"limit", "persist", "stored"} THEN "crashed" ELSE pc[p]]
  /\ recent_events' = [k \in Keys |-> <<>>]
  /\ admissions' = [k \in Keys |-> <<>>]
  /\ arrived' = [p \in Posts |-> 0]
  /\ UNCHANGED <<form, answer, events, clock>>

Post(p) ==
  \/ \E authorized \in BOOLEAN : Authorize(p, authorized)
  \/ Allow(p) \/ Persist(p) \/ PersistFails(p) \/ Accepted(p)

Next == (\E p \in Posts : Post(p)) \/ Tick \/ CrashAndRestart

Spec == Init /\ [][Next]_vars

-----------------------------------------------------------------------------
(* Properties. *)

TypeOK ==
  /\ pc \in [Posts -> {"idle", "limit", "persist", "stored", "done", "crashed"}]
  /\ form \in [Posts -> Forms]
  /\ answer \in [Posts -> {"none", "unauthorized", "rate_limited", "accepted",
                           "persistence_failed"}]
  /\ recent_events \in [Keys -> Seq(0 .. LastClock)]
  /\ \A k \in Keys : Len(recent_events[k]) <= Limit
  /\ events \subseteq Posts
  /\ clock \in 0 .. LastClock
  /\ arrived \in [Posts -> 0 .. LastClock]
  /\ admissions \in [Keys -> Seq(0 .. LastClock)]
  /\ crashes \in 0 .. MaxCrashes

\* No window of any length-Window stretch of time lets more than Limit events
\* of one key through, whichever threads race for the last place and however
\* long they waited for the mutex (events.rs 139-158).
RateIsBounded ==
  \A k \in Keys : \A i \in DOMAIN admissions[k] :
    i + Limit \in DOMAIN admissions[k] =>
      admissions[k][i + Limit] - admissions[k][i] >= Window

\* Why: the deque is what is left of the admissions, and what it has forgotten
\* lies outside the window for good.
DequeIsTheWindow ==
  \A k \in Keys :
    LET forgotten == Len(admissions[k]) - Len(recent_events[k])
    IN  /\ forgotten >= 0
        /\ recent_events[k] = SubSeq(admissions[k], forgotten + 1, Len(admissions[k]))
        /\ \A i \in 1 .. forgotten : clock - admissions[k][i] >= Window

\* What a tool is told is what the table holds: accepted posts have a row, and
\* a refused or failed one has none; only a crash leaves a row nobody heard of
\* (events.rs 76-111).
AnswersMatchTheTable ==
  /\ \A p \in Posts : answer[p] = "accepted" => p \in events
  /\ \A p \in events : answer[p] = "accepted" \/ pc[p] \in {"stored", "crashed"}

-----------------------------------------------------------------------------
(* The abstract specification. *)

\* Where a sender sees its post: the answer, once there is one.
StateOf(p) ==
  CASE pc[p] \in {"idle", "limit"} -> "waiting"
    [] pc[p] = "persist"           -> "admitted"
    [] pc[p] = "stored"            -> "stored"
    [] pc[p] = "crashed"           -> "lost"
    [] pc[p] = "done"              -> answer[p]

Service == INSTANCE EventService WITH
  key <- [p \in Posts |-> Key(p)], state <- [p \in Posts |-> StateOf(p)],
  table <- events, now <- clock

\* The deque, its pruning and the two locks decide as a window over all that was
\* let in would: nobody is refused below the limit, nobody is let in at it,
\* refusals do not push the window on, and only what was let in is stored and
\* accepted (events.rs 74-158).
KeepsTheWindow == Service!Spec
=============================================================================
