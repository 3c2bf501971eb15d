------------------------------- MODULE Exchange -------------------------------
(***************************************************************************)
(* What one exchange with an upstream looks like to its client: silence, an *)
(* answer that is passed on, or a gateway error; and one end, for a reason *)
(* that agrees with what the client was shown.  Two modules implement this *)
(* specification: ProxyStream, which has the timers, the chunks and the    *)
(* completion signal of one exchange, and Broker, which has many at once   *)
(* and knows of each what its handler needs.  It is the common ground that *)
(* lets Broker leave the inside of a stream to ProxyStream.                *)
(***************************************************************************)

VARIABLES
  heard,   \* what the upstream has said: nothing, its head, or a failure
  shown,   \* what the client has been given of it
  reason   \* why the exchange is over, or "none"

vars == <<heard, shown, reason>>

Init == heard = "nothing" /\ shown = "nothing" /\ reason = "none"

\* Nobody has ended the exchange and the client has nothing of it yet.
Waiting == shown = "nothing" /\ reason = "none"

Hear(what) ==
  /\ Waiting /\ heard = "nothing"
  /\ heard' = what
  /\ UNCHANGED <<shown, reason>>

PassOn ==
  /\ Waiting /\ heard = "head"
  /\ shown' = "upstream"
  /\ UNCHANGED <<heard, reason>>

\* A gateway error takes the place of the answer and is the end.
GiveUp(seen, error, why) ==
  /\ Waiting /\ heard = seen
  /\ shown' = error /\ reason' = why
  /\ UNCHANGED heard

\* An answer that is passed on ends by itself, by its silence, or by its client.
Finish(why) ==
  /\ shown = "upstream" /\ reason = "none"
  /\ reason' = why
  /\ UNCHANGED <<heard, shown>>

\* The client leaves before it has anything.
Leave ==
  /\ Waiting
  /\ reason' = "client_cancelled"
  /\ UNCHANGED <<heard, shown>>

\* The process that made the exchange dies.
Lose ==
  /\ reason = "none" /\ reason' = "lost"
  /\ UNCHANGED <<heard, shown>>

Next ==
  \/ \E what \in {"head", "failure"} : Hear(what)
  \/ PassOn
  \/ GiveUp("failure", "bad_gateway", "network_error")
  \/ GiveUp("nothing", "gateway_timeout", "upstream_timeout")
  \/ \E why \in {"ok", "network_error", "idle_timeout", "client_cancelled"} : Finish(why)
  \/ Leave \/ Lose

Spec == Init /\ [][Next]_vars

\* What follows: the reason and what the client was shown tell the same story.
OneStory ==
  /\ shown = "gateway_timeout" <=> reason = "upstream_timeout"
  /\ shown = "gateway_timeout" => heard = "nothing"
  /\ shown = "bad_gateway" => reason = "network_error" /\ heard = "failure"
  /\ shown = "upstream" => heard = "head"
  /\ reason \in {"ok", "idle_timeout"} => shown = "upstream"
=============================================================================
