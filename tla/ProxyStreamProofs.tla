-------------------------- MODULE ProxyStreamProofs --------------------------
(***************************************************************************)
(* Proofs about module ProxyStream, for all timeouts and any number of     *)
(* chunks.                                                                 *)
(***************************************************************************)
EXTENDS ProxyStream, TLAPS

\* The stream does not exist before the head has been forwarded.
NoStreamYet == phase = "connecting" => ~idle_armed /\ ~finished

IInv == TypeOK /\ NoStreamYet /\ SilenceIsMeasured /\ EveryEndIsReported

\* Every step keeps the types.
LEMMA TypeNext ==
  ASSUME TypeOK, [Next]_vars
  PROVE  TypeOK'
<1>. USE TimeoutsAssumption DEF TypeOK, stream, TerminalReason, IdleSleep, Finish
<1>1. CASE Forward
  BY <1>1 DEF Forward, ForwardHead, ForwardError, ForwardTimeout
<1>2. CASE Poll
  <2>1. CASE PollChunk
    <3>1. idle_sleep' \in 0 .. IdleTimeout
      BY <2>1 DEF PollChunk
    <3>2. delivered' \in 0 .. produced'
      BY <2>1 DEF PollChunk
    <3>. QED  BY <2>1, <3>1, <3>2 DEF PollChunk
  <2>2. ASSUME NEW how, NEW reason \in {"ok", "network_error"}, PollEnd(how, reason)
        PROVE  TypeOK'
    BY <2>2 DEF PollEnd
  <2>3. CASE PollPending  BY <2>3 DEF PollPending
  <2>4. CASE PollTimeout  BY <2>4 DEF PollTimeout
  <2>. QED  BY <1>2, <2>1, <2>2, <2>3, <2>4 DEF Poll
<1>3. CASE Drop
  BY <1>3 DEF Drop
<1>4. CASE Tick
  BY <1>4 DEF Tick, Less
<1>5. ASSUME NEW state \in {"answered", "failed"}, HeadArrives(state)
      PROVE  TypeOK'
  BY <1>5 DEF HeadArrives
<1>6. CASE ChunkArrives
  BY <1>6 DEF ChunkArrives
<1>7. ASSUME NEW how \in {"eof", "error"}, SourceEnds(how)
      PROVE  TypeOK'
  BY <1>7 DEF SourceEnds
<1>8. CASE UNCHANGED vars
  BY <1>8 DEF vars
<1>. QED  BY <1>1, <1>2, <1>3, <1>4, <1>5, <1>6, <1>7, <1>8 DEF Next, Over

\* Every step keeps the timer and the silence in balance.
LEMMA SilenceNext ==
  ASSUME TypeOK, NoStreamYet, SilenceIsMeasured, [Next]_vars
  PROVE  SilenceIsMeasured'
<1>. USE TimeoutsAssumption DEF TypeOK, SilenceIsMeasured, stream, IdleSleep, Finish
<1>1. CASE Forward
  BY <1>1 DEF Forward, ForwardHead, ForwardError, ForwardTimeout
<1>2. CASE Poll
  <2>1. CASE PollChunk  BY <2>1 DEF PollChunk
  <2>2. ASSUME NEW how, NEW reason, PollEnd(how, reason)
        PROVE  SilenceIsMeasured'
    BY <2>2 DEF PollEnd
  <2>3. CASE PollPending  BY <2>3 DEF PollPending
  <2>4. CASE PollTimeout  BY <2>4 DEF PollTimeout
  <2>. QED  BY <1>2, <2>1, <2>2, <2>3, <2>4 DEF Poll
<1>3. CASE Drop
  BY <1>3 DEF Drop
<1>4. CASE Tick
  BY <1>4 DEF Tick, Less
<1>5. ASSUME NEW state, HeadArrives(state)
      PROVE  SilenceIsMeasured'
  BY <1>5 DEF HeadArrives, NoStreamYet
<1>6. CASE ChunkArrives
  BY <1>6 DEF ChunkArrives
<1>7. ASSUME NEW how \in {"eof", "error"}, SourceEnds(how)
      PROVE  SilenceIsMeasured'
  BY <1>7 DEF SourceEnds
<1>8. CASE UNCHANGED vars
  BY <1>8 DEF vars
<1>. QED  BY <1>1, <1>2, <1>3, <1>4, <1>5, <1>6, <1>7, <1>8 DEF Next, Over

\* Every step keeps the ends and the reports of them together.
LEMMA EndNext ==
  ASSUME TypeOK, NoStreamYet, EveryEndIsReported, [Next]_vars
  PROVE  NoStreamYet' /\ EveryEndIsReported'
<1>. USE DEF TypeOK, NoStreamYet, EveryEndIsReported, stream, Finish, Polled
<1>1. CASE Forward
  BY <1>1 DEF Forward, ForwardHead, ForwardError, ForwardTimeout
<1>2. CASE Poll
  BY <1>2 DEF Poll, PollChunk, PollEnd, PollPending, PollTimeout
<1>3. CASE Drop
  BY <1>3 DEF Drop
<1>4. CASE Tick
  BY <1>4 DEF Tick
<1>5. ASSUME NEW state \in {"answered", "failed"}, HeadArrives(state)
      PROVE  NoStreamYet' /\ EveryEndIsReported'
  BY <1>5 DEF HeadArrives
<1>6. CASE ChunkArrives
  BY <1>6 DEF ChunkArrives
<1>7. ASSUME NEW how \in {"eof", "error"}, SourceEnds(how)
      PROVE  NoStreamYet' /\ EveryEndIsReported'
  BY <1>7 DEF SourceEnds
<1>8. CASE UNCHANGED vars
  BY <1>8 DEF vars
<1>. QED  BY <1>1, <1>2, <1>3, <1>4, <1>5, <1>6, <1>7, <1>8 DEF Next, Over

\* The inductive invariant.
THEOREM InvariantCorrect == Spec => []IInv
<1>1. Init => IInv
  <2>1. Init => TypeOK
    <3>. SUFFICES ASSUME Init  PROVE TypeOK
      OBVIOUS
    <3>1. /\ upstream_sleep \in 0 .. UpstreamTimeout /\ produced \in 0 .. MaxChunks
          /\ delivered \in 0 .. produced /\ idle_sleep \in 0 .. IdleTimeout
          /\ quiet \in 0 .. IdleTimeout
      BY TimeoutsAssumption DEF Init
    <3>. QED  BY <3>1 DEF Init, TypeOK
  <2>. QED  BY <2>1 DEF Init, IInv, NoStreamYet, SilenceIsMeasured, EveryEndIsReported
<1>2. IInv /\ [Next]_vars => IInv'
  BY TypeNext, SilenceNext, EndNext DEF IInv
<1>. QED  BY <1>1, <1>2, PTL DEF Spec

\* Every variable keeps its type: in particular no more is delivered than sent.
THEOREM TypeCorrect == Spec => []TypeOK
<1>1. IInv => TypeOK  BY DEF IInv
<1>. QED  BY <1>1, InvariantCorrect, PTL

\* The idle timer and the silence always add up to the timeout.
THEOREM SilenceIsMeasuredCorrect == Spec => []SilenceIsMeasured
<1>1. IInv => SilenceIsMeasured  BY DEF IInv
<1>. QED  BY <1>1, InvariantCorrect, PTL

\* An exchange is over exactly when its end has been reported.
THEOREM EveryEndIsReportedCorrect == Spec => []EveryEndIsReported
<1>1. IInv => EveryEndIsReported  BY DEF IInv
<1>. QED  BY <1>1, InvariantCorrect, PTL

\* Nothing is delivered after the end, and its reason is not revised.
THEOREM EndIsFinalCorrect == Spec => EndIsFinal
<1>1. ASSUME IInv, [Next]_vars, completion # "none"
      PROVE  delivered' = delivered /\ completion' = completion
  <2>. USE <1>1 DEF IInv, TypeOK, EveryEndIsReported, NoStreamYet, stream, Finish, Polled
  <2>1. CASE Forward
    BY <2>1 DEF Forward, ForwardHead, ForwardError, ForwardTimeout
  <2>2. CASE Poll
    BY <2>2 DEF Poll, PollChunk, PollEnd, PollPending, PollTimeout
  <2>3. CASE Drop \/ Tick
    BY <2>3 DEF Drop, Tick
  <2>4. CASE UNCHANGED <<delivered, completion>>
    BY <2>4
  <2>. QED  BY <2>1, <2>2, <2>3, <2>4 DEF Next, Over, vars, HeadArrives, ChunkArrives, SourceEnds
<1>. QED  BY <1>1, InvariantCorrect, PTL DEF Spec, EndIsFinal

\* The reason given is what happened.
THEOREM ReasonIsTrueCorrect == Spec => ReasonIsTrue
<1>. DEFINE Truth ==
       /\ completion' = "ok" => source = "eof" /\ delivered = produced
       /\ completion' = "idle_timeout" =>
            source = "open" /\ delivered = produced /\ quiet = IdleTimeout
       /\ completion' = "network_error" =>
            head = "failed" \/ (source = "error" /\ delivered = produced)
       /\ completion' = "upstream_timeout" => head = "silent" /\ upstream_sleep = 0
       /\ completion' = "client_cancelled" => phase' = "dropped"
<1>1. ASSUME IInv, [Next]_vars, completion = "none"
      PROVE  Truth
  <2>. USE <1>1 DEF IInv, TypeOK, stream, Finish
  <2>1. CASE Forward
    BY <2>1 DEF Forward, ForwardHead, ForwardError, ForwardTimeout, TimedOut
  <2>2. CASE PollTimeout
    <3>1. (idle_armed /\ idle_sleep = 0) \/ IdleTimeout = 0
      BY <2>2 DEF PollTimeout, IdleSleep
    <3>2. quiet = IdleTimeout
      BY <2>2, <3>1, TimeoutsAssumption DEF PollTimeout, Polled, NothingThere, SilenceIsMeasured
    <3>. QED  BY <2>2, <3>2 DEF PollTimeout, NothingThere
  <2>3. CASE PollChunk \/ PollPending \/ Drop \/ Tick
    BY <2>3 DEF PollChunk, PollPending, Drop, Tick
  <2>4. CASE PollEnd("eof", "ok") \/ PollEnd("error", "network_error")
    BY <2>4 DEF PollEnd
  <2>5. CASE UNCHANGED completion
    BY <2>5
  <2>. QED  BY <2>1, <2>2, <2>3, <2>4, <2>5
            DEF Next, Poll, Over, vars, HeadArrives, ChunkArrives, SourceEnds
<1>. QED  BY <1>1, InvariantCorrect, PTL DEF Spec, ReasonIsTrue

-----------------------------------------------------------------------------
(* ProxyStream implements Exchange. *)

\* The mapping reads the phase, the head and the report only.
LEMMA SeenStays == UNCHANGED <<phase, head, completion>> => UNCHANGED Seen!vars
BY DEF Heard, Shown, Reason, DroppedUnheard, Seen!vars

\* While the handler waits or the stream is polled nothing has been reported.
LEMMA NothingReported ==
  ASSUME IInv
  PROVE  /\ phase = "connecting" => completion = "none"
         /\ phase = "streaming" /\ ~finished => completion = "none"
         /\ phase = "streaming" /\ finished => completion # "none"
BY DEF IInv, TypeOK, NoStreamYet, EveryEndIsReported

\* The end of a stream, by whatever finishes it, is an end of the exchange.
LEMMA FinishSeen ==
  ASSUME IInv, Polled, UNCHANGED <<phase, head>>,
         NEW why \in {"ok", "network_error", "idle_timeout"}, Finish(why)
  PROVE  Seen!Finish(why)
<1>1. phase = "streaming" /\ completion = "none" /\ completion' = why
  BY NothingReported DEF Polled, Finish
<1>. QED  BY <1>1 DEF Heard, Shown, Reason, DroppedUnheard, Seen!Finish

LEMMA StepSeen ==
  ASSUME IInv, [Next]_vars
  PROVE  [Seen!Next]_(Seen!vars)
<1>. USE DEF Heard, Shown, Reason, DroppedUnheard
<1>1. CASE ForwardHead
  <2>1. Seen!PassOn
    BY <1>1, NothingReported DEF ForwardHead, Seen!PassOn, Seen!Waiting
  <2>. QED  BY <2>1 DEF Seen!Next
<1>2. CASE ForwardError
  <2>1. Seen!GiveUp("failure", "bad_gateway", "network_error")
    BY <1>2, NothingReported DEF ForwardError, Seen!GiveUp, Seen!Waiting
  <2>. QED  BY <2>1 DEF Seen!Next
<1>3. CASE ForwardTimeout
  <2>1. Seen!GiveUp("nothing", "gateway_timeout", "upstream_timeout")
    BY <1>3, NothingReported DEF ForwardTimeout, TimedOut, Seen!GiveUp, Seen!Waiting
  <2>. QED  BY <2>1 DEF Seen!Next
<1>4. CASE PollEnd("eof", "ok") \/ PollEnd("error", "network_error")
  <2>1. \E why \in {"ok", "network_error"} : Seen!Finish(why)
    BY <1>4, FinishSeen DEF PollEnd
  <2>. QED  BY <2>1 DEF Seen!Next
<1>5. CASE PollTimeout
  <2>1. Seen!Finish("idle_timeout")
    BY <1>5, FinishSeen DEF PollTimeout
  <2>. QED  BY <2>1 DEF Seen!Next
<1>6. CASE Drop
  <2>1. CASE phase = "connecting"
    <3>1. Seen!Leave
      BY <1>6, <2>1, NothingReported DEF Drop, Seen!Leave, Seen!Waiting
    <3>. QED  BY <3>1 DEF Seen!Next
  <2>2. CASE phase = "streaming" /\ ~finished
    <3>1. completion = "none" /\ completion' = "client_cancelled"
      BY <1>6, <2>2, NothingReported DEF Drop, Finish
    <3>2. Seen!Finish("client_cancelled")
      BY <1>6, <2>2, <3>1 DEF Drop, Seen!Finish
    <3>. QED  BY <3>2 DEF Seen!Next
  <2>3. CASE phase = "streaming" /\ finished
    BY <1>6, <2>3, NothingReported DEF Drop, Seen!vars
  <2>. QED  BY <1>6, <2>1, <2>2, <2>3 DEF Drop, IInv, TypeOK
<1>7. ASSUME NEW state \in {"answered", "failed"}, HeadArrives(state)
      PROVE  [Seen!Next]_(Seen!vars)
  <2>1. \E what \in {"head", "failure"} : Seen!Hear(what)
    BY <1>7, NothingReported DEF HeadArrives, Seen!Hear, Seen!Waiting
  <2>. QED  BY <2>1 DEF Seen!Next
<1>8. CASE UNCHANGED <<phase, head, completion>>
  BY <1>8, SeenStays
<1>. QED  BY <1>1, <1>2, <1>3, <1>4, <1>5, <1>6, <1>7, <1>8
          DEF Next, Forward, Poll, PollChunk, PollPending, Tick, Over, ChunkArrives,
              SourceEnds, vars

\* The handler and the stream together are one exchange with one end.
THEOREM IsOneExchangeCorrect == Spec => IsOneExchange
<1>1. Init => Seen!Init
  BY DEF Init, Heard, Shown, Reason, DroppedUnheard, Seen!Init
<1>. QED  BY <1>1, StepSeen, InvariantCorrect, PTL DEF Spec, Seen!Spec, IsOneExchange

\* So what the client was given and the reason reported never disagree: a
\* gateway timeout is an upstream timeout, an idle timeout or a good end comes
\* after an answer, a bad gateway after a failure.
THEOREM ExchangeTellsOneStory == Spec => []Seen!OneStory
<1>1. Seen!Init => Seen!OneStory
  BY DEF Seen!Init, Seen!OneStory
<1>2. Seen!OneStory /\ [Seen!Next]_(Seen!vars) => Seen!OneStory'
  BY DEF Seen!OneStory, Seen!Next, Seen!vars, Seen!Hear, Seen!PassOn, Seen!GiveUp,
         Seen!Finish, Seen!Leave, Seen!Lose, Seen!Waiting
<1>. QED  BY <1>1, <1>2, IsOneExchangeCorrect, PTL DEF IsOneExchange, Seen!Spec

-----------------------------------------------------------------------------
(* The timeouts. *)

\* No step puts a timeout off.
THEOREM NothingPutsOffTimeoutsCorrect == Spec => NothingPutsOffTimeouts
<1>. DEFINE Nearer ==
       /\ upstream_sleep' <= upstream_sleep
       /\ idle_armed => /\ idle_sleep' <= idle_sleep
                        /\ ~idle_armed' => delivered' > delivered
       /\ Tick => /\ phase = "connecting" /\ upstream_sleep > 0 => upstream_sleep' < upstream_sleep
                  /\ idle_armed /\ idle_sleep > 0 => idle_sleep' < idle_sleep
<1>1. ASSUME IInv, [Next]_vars
      PROVE  Nearer
  <2>. USE DEF IInv, TypeOK, stream, IdleSleep
  <2>1. CASE Tick
    BY <1>1, <2>1 DEF Tick, Less
  <2>2. ASSUME UNCHANGED <<upstream_sleep, idle_armed, idle_sleep>>, ~Tick
        PROVE  Nearer
    BY <1>1, <2>2
  <2>3. ASSUME Poll, ~Tick
        PROVE  Nearer
    BY <1>1, <2>3 DEF Poll, PollChunk, PollEnd, PollPending, PollTimeout
  <2>4. ASSUME Forward, ~Tick
        PROVE  Nearer
    BY <1>1, <2>4 DEF Forward, ForwardHead, ForwardError, ForwardTimeout, NoStreamYet
  <2>. QED  BY <1>1, <2>1, <2>2, <2>3, <2>4
            DEF Next, Drop, Over, HeadArrives, ChunkArrives, SourceEnds, vars
<1>2. IInv /\ [Next]_vars =>
        [/\ upstream_sleep' <= upstream_sleep
         /\ idle_armed => /\ idle_sleep' <= idle_sleep
                          /\ ~idle_armed' => delivered' > delivered
         /\ Tick => /\ phase = "connecting" /\ upstream_sleep > 0
                         => upstream_sleep' < upstream_sleep
                    /\ idle_armed /\ idle_sleep > 0 => idle_sleep' < idle_sleep]_vars
  BY <1>1
<1>. QED  BY <1>2, InvariantCorrect, PTL DEF Spec, NothingPutsOffTimeouts
=============================================================================
