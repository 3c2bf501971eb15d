----------------------------- MODULE ProxyStream -----------------------------
(***************************************************************************)
(* One forwarded exchange (apps/broker/src/proxy.rs): forward_upstream     *)
(* waits for the upstream's response head under a timeout; the body then   *)
(* lives in ProxyBodyStream, which the server polls as fast as the client  *)
(* reads, and which gives up when the upstream stays silent too long.      *)
(*                                                                         *)
(* Time is a Tick that lets every timer that is set run down by one and    *)
(* does not hurry anybody: a client that reads slowly is a Poll that comes *)
(* late.  Chunks are counted, never told apart: hyper delivers them in     *)
(* order.                                                                  *)
(***************************************************************************)
EXTENDS Naturals

CONSTANTS
  UpstreamTimeout,  \* ProxyTimeouts.upstream, in ticks
  IdleTimeout,      \* ProxyTimeouts.idle, in ticks
  MaxChunks         \* bound: chunks the upstream sends

ASSUME TimeoutsAssumption ==
  UpstreamTimeout \in Nat /\ IdleTimeout \in Nat /\ MaxChunks \in Nat

VARIABLES
  phase,           \* forward_upstream waiting, its outcome, or everything dropped
  head,            \* the response head: not there, there, or a failed connection
  upstream_sleep,  \* ticks left of time::timeout
  produced,        \* chunks the upstream has sent
  delivered,       \* chunks the client's connection has taken
  source,          \* what follows the chunks sent so far
  idle_armed, idle_sleep, finished,   \* ProxyBodyStream
  completion,      \* the oneshot behind CompletionHandle
  quiet            \* history: ticks since the upstream was last heard of

vars == <<phase, head, upstream_sleep, produced, delivered, source,
          idle_armed, idle_sleep, finished, completion, quiet>>
stream == <<idle_armed, idle_sleep, finished>>

TerminalReason ==
  {"ok", "client_cancelled", "upstream_timeout", "idle_timeout", "network_error"}

Init ==
  /\ phase = "connecting" /\ head = "silent" /\ upstream_sleep = UpstreamTimeout
  /\ produced = 0 /\ delivered = 0 /\ source = "open"
  /\ idle_armed = FALSE /\ idle_sleep = 0 /\ finished = FALSE
  /\ completion = "none" /\ quiet = 0

-----------------------------------------------------------------------------
(* forward_upstream. *)

HeadArrives(state) ==
  /\ phase = "connecting" /\ head = "silent"
  /\ head' = state
  /\ quiet' = 0
  /\ UNCHANGED <<phase, upstream_sleep, produced, delivered, source, stream, completion>>

\* Ok(Ok(upstream)): the body moves into a ProxyBodyStream::new, unarmed.
ForwardHead ==
  /\ phase = "connecting" /\ head = "answered"
  /\ phase' = "streaming"
  /\ UNCHANGED <<head, upstream_sleep, produced, delivered, source, stream, completion, quiet>>

\* Ok(Err(err)): 502.
ForwardError ==
  /\ phase = "connecting" /\ head = "failed"
  /\ phase' = "bad_gateway"
  /\ completion' = "network_error"
  /\ UNCHANGED <<head, upstream_sleep, produced, delivered, source, stream, quiet>>

\* Mutants: the timer is asked before the exchange; only once it has resolved.
TimedOutFirst == upstream_sleep = 0
TimedOutTooLate == upstream_sleep = 0 /\ head # "silent"
\* time::timeout asks its timer only when the exchange is still pending.
TimedOut == upstream_sleep = 0 /\ head = "silent"

\* Err(elapsed): 504, and the exchange is dropped.
ForwardTimeout ==
  /\ phase = "connecting" /\ TimedOut
  /\ phase' = "gateway_timeout"
  /\ completion' = "upstream_timeout"
  /\ UNCHANGED <<head, upstream_sleep, produced, delivered, source, stream, quiet>>

-----------------------------------------------------------------------------
(* The upstream's body.  It may go on after the stream has finished, until *)
(* the server drops the stream.                                            *)

ChunkArrives ==
  /\ phase = "streaming" /\ source = "open"
  /\ produced < MaxChunks
  /\ produced' = produced + 1
  /\ quiet' = 0
  /\ UNCHANGED <<phase, head, upstream_sleep, delivered, source, stream, completion>>

SourceEnds(how) ==
  /\ phase = "streaming" /\ source = "open"
  /\ source' = how
  /\ quiet' = 0
  /\ UNCHANGED <<phase, head, upstream_sleep, produced, delivered, stream, completion>>

-----------------------------------------------------------------------------
(* ProxyBodyStream::poll_next. *)

Polled == phase = "streaming" /\ ~finished

\* Mutants: every poll starts the timer again; the two timeouts are swapped.
IdleSleepRestarted == IdleTimeout
IdleSleepSwapped == IF idle_armed THEN idle_sleep ELSE UpstreamTimeout
\* The timer after the poll's first step, which sets it unless it is running.
IdleSleep == IF idle_armed THEN idle_sleep ELSE IdleTimeout

\* Mutant: the stream ends without a word.
FinishSilently(reason) == finished' = TRUE /\ UNCHANGED completion
\* CompletionSignal::finish sends once.
Finish(reason) ==
  /\ finished' = TRUE
  /\ completion' = IF completion = "none" THEN reason ELSE completion

\* Mutant: a chunk does not disarm the timer.
PollChunkArmed ==
  /\ Polled /\ delivered < produced
  /\ delivered' = delivered + 1
  /\ idle_armed' = TRUE
  /\ idle_sleep' = IdleSleep
  /\ UNCHANGED <<phase, head, upstream_sleep, produced, source, finished, completion, quiet>>

PollChunk ==
  /\ Polled /\ delivered < produced
  /\ delivered' = delivered + 1
  /\ idle_armed' = FALSE
  /\ idle_sleep' = IdleSleep
  /\ UNCHANGED <<phase, head, upstream_sleep, produced, source, finished, completion, quiet>>

PollEnd(how, reason) ==
  /\ Polled /\ delivered = produced /\ source = how
  /\ idle_armed' = TRUE
  /\ idle_sleep' = IdleSleep
  /\ Finish(reason)
  /\ UNCHANGED <<phase, head, upstream_sleep, produced, delivered, source, quiet>>

PollPending ==
  /\ Polled /\ delivered = produced /\ source = "open" /\ IdleSleep > 0
  /\ idle_armed' = TRUE
  /\ idle_sleep' = IdleSleep
  /\ UNCHANGED <<phase, head, upstream_sleep, produced, delivered, source, finished,
                 completion, quiet>>

\* Mutant: the timer is asked whatever the upstream has.
NothingThereUnasked == TRUE
\* Poll::Pending from the upstream.
NothingThere == delivered = produced /\ source = "open"

PollTimeout ==
  /\ Polled /\ NothingThere /\ IdleSleep = 0
  /\ idle_armed' = TRUE
  /\ idle_sleep' = 0
  /\ Finish("idle_timeout")
  /\ UNCHANGED <<phase, head, upstream_sleep, produced, delivered, source, quiet>>

Poll ==
  \/ PollChunk \/ PollEnd("eof", "ok") \/ PollEnd("error", "network_error")
  \/ PollPending \/ PollTimeout

-----------------------------------------------------------------------------
\* The client's connection closes.  While the handler waits its future is
\* dropped, the sender with it; afterwards ProxyBodyStream::drop finishes a
\* stream that had not finished.
Drop ==
  /\ phase \in {"connecting", "streaming"}
  /\ phase' = "dropped"
  /\ IF phase = "streaming" /\ ~finished
     THEN Finish("client_cancelled")
     ELSE UNCHANGED <<finished, completion>>
  /\ UNCHANGED <<head, upstream_sleep, produced, delivered, source, idle_armed, idle_sleep, quiet>>

Less(n) == IF n = 0 THEN 0 ELSE n - 1

Tick ==
  /\ \/ phase = "connecting"
     \/ phase = "streaming" /\ ~finished
  /\ upstream_sleep' = IF phase = "connecting" THEN Less(upstream_sleep) ELSE upstream_sleep
  /\ idle_sleep' = IF idle_armed THEN Less(idle_sleep) ELSE idle_sleep
  /\ quiet' = IF quiet < IdleTimeout THEN quiet + 1 ELSE quiet
  /\ UNCHANGED <<phase, head, produced, delivered, source, idle_armed, finished, completion>>

Over == phase \notin {"connecting", "streaming"} /\ UNCHANGED vars

Forward == ForwardHead \/ ForwardError \/ ForwardTimeout

Next ==
  \/ Forward \/ Poll \/ Drop \/ Tick \/ Over
  \/ \E state \in {"answered", "failed"} : HeadArrives(state)
  \/ ChunkArrives
  \/ \E how \in {"eof", "error"} : SourceEnds(how)

Spec == Init /\ [][Next]_vars

\* Time passes, a woken handler is polled, and the client reads on; nothing is
\* asked of the upstream.
Fairness == WF_vars(Tick) /\ WF_vars(Forward) /\ WF_vars(Poll)
FairSpec == Spec /\ Fairness

-----------------------------------------------------------------------------
(* Properties. *)

TypeOK ==
  /\ phase \in {"connecting", "streaming", "bad_gateway", "gateway_timeout", "dropped"}
  /\ head \in {"silent", "answered", "failed"}
  /\ source \in {"open", "eof", "error"}
  /\ upstream_sleep \in 0 .. UpstreamTimeout
  /\ produced \in 0 .. MaxChunks /\ delivered \in 0 .. produced
  /\ idle_armed \in BOOLEAN /\ finished \in BOOLEAN
  /\ idle_sleep \in 0 .. IdleTimeout /\ quiet \in 0 .. IdleTimeout
  /\ completion \in TerminalReason \cup {"none"}

\* The reason is what really happened when it was given: "ok" only once the
\* upstream ended and all it sent was delivered, "idle_timeout" only when it
\* was silent for the whole timeout and nothing it sent was waiting, however
\* late the client polls; a timer never beats an answer that is there
\* (proxy.rs 163-206, 223).
ReasonIsTrue ==
  [][completion = "none" =>
       /\ completion' = "ok" => source = "eof" /\ delivered = produced
       /\ completion' = "idle_timeout" =>
            source = "open" /\ delivered = produced /\ quiet = IdleTimeout
       /\ completion' = "network_error" =>
            head = "failed" \/ (source = "error" /\ delivered = produced)
       /\ completion' = "upstream_timeout" => head = "silent" /\ upstream_sleep = 0
       /\ completion' = "client_cancelled" => phase' = "dropped"]_vars

\* Why the idle timeout is never early: while it runs and nothing is waiting,
\* what is left of it and the silence so far make up the whole timeout.
SilenceIsMeasured ==
  idle_armed /\ ~finished /\ delivered = produced /\ source = "open"
  => quiet + idle_sleep >= IdleTimeout

\* Every way the exchange can end is reported, and only an end is: by the
\* stream, by its Drop, or by forward_upstream (proxy.rs 155-160, 208-253).
EveryEndIsReported ==
  completion # "none" <=>
    finished \/ phase \in {"bad_gateway", "gateway_timeout"}

\* After the end the stream yields nothing, though the upstream may still
\* send, and the reason stands.
EndIsFinal ==
  [][completion # "none" => delivered' = delivered /\ completion' = completion]_vars

\* Time brings both timeouts nearer and nothing puts them off: not a poll that
\* finds nothing, however often the stream is woken; only a chunk that is
\* delivered stops the idle timer (proxy.rs 155-160, 181-206).  With time
\* passing, this is why ExchangeEnds.
NothingPutsOffTimeouts ==
  [][/\ upstream_sleep' <= upstream_sleep
     /\ idle_armed => /\ idle_sleep' <= idle_sleep
                      /\ ~idle_armed' => delivered' > delivered
     /\ Tick => /\ phase = "connecting" /\ upstream_sleep > 0 => upstream_sleep' < upstream_sleep
                /\ idle_armed /\ idle_sleep > 0 => idle_sleep' < idle_sleep]_vars

\* An exchange whose client reads comes to its end, even when the upstream never
\* answers, or falls silent for ever in the middle: waking up for nothing puts
\* neither timeout off.
ExchangeEnds ==
  phase = "connecting" ~> finished \/ phase \in {"bad_gateway", "gateway_timeout", "dropped"}

-----------------------------------------------------------------------------
(* The abstract specification. *)

\* Dropped before it had a head, the exchange ends without a report.
DroppedUnheard == phase = "dropped" /\ completion = "none"

Heard == CASE head = "silent" -> "nothing" [] head = "answered" -> "head" [] head = "failed" -> "failure"
Shown ==
  CASE phase = "connecting" \/ DroppedUnheard            -> "nothing"
    [] phase \in {"bad_gateway", "gateway_timeout"}      -> phase
    [] phase = "streaming"                               -> "upstream"
    [] phase = "dropped" /\ ~DroppedUnheard              -> "upstream"
Reason == IF DroppedUnheard THEN "client_cancelled" ELSE completion

Seen == INSTANCE Exchange WITH heard <- Heard, shown <- Shown, reason <- Reason

\* With timers that race answers, clients that read late and streams dropped at
\* any poll, this is one exchange with one end, whose reason fits what the client
\* was given (proxy.rs 155-160, 181-257).
IsOneExchange == Seen!Spec
=============================================================================
