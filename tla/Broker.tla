-------------------------------- MODULE Broker --------------------------------
(***************************************************************************)
(* proxy_request of the broker (apps/broker/src/router.rs): the handler    *)
(* that reads a request, scans it against the rules, blocks it or forwards *)
(* it upstream, and leaves an audit trail in SQLite.  Many handlers run at *)
(* once on a multi-threaded runtime and share one database connection      *)
(* behind a mutex.                                                         *)
(*                                                                         *)
(* One action is the code between two points at which another actor can be *)
(* heard of: an .await, a SQL statement (which commits on its own, and is  *)
(* what a crash finds), or the return of the handler.  The mutex is taken  *)
(* by the first statement of a locked block and released by the last.      *)
(*                                                                         *)
(* The rule set, the path and the upstream resolution appear by what they  *)
(* decide: where the handler goes next, and the severity of the first      *)
(* matching rule.                                                          *)
(***************************************************************************)
EXTENDS AuditStorage, Naturals

CONSTANTS
  StoreRequestPayloads,  \* settings.audit.store_request_payloads
  MaxFaults,             \* bound: SQL statements that fail
  MaxCrashes             \* bound: crashes of the broker process

ASSUME SettingsAssumption == StoreRequestPayloads \in BOOLEAN
ASSUME BoundsAssumption == MaxFaults \in Nat /\ MaxCrashes \in Nat

VARIABLES
  stream_passthrough,  \* settings.broker.stream_passthrough, read at start
  pc,              \* where each request's handler is
  matched,         \* severity of the first rule that matched, or "none"
  requests,        \* table requests
  violations,      \* table violations
  approvals,       \* table approval_requests
  payloads,        \* table request_payloads
  storage_lock,    \* the handler that holds Arc<Mutex<AuditStorage>>, if any
  upstream,        \* the exchange with the upstream, as the upstream sees it
  response,        \* the response the handler has built
  outcome,         \* history: how the exchange really ended
  failed,          \* history: the statements that failed, per request
  faults, crashes  \* counters, for the bounds

tables == <<requests, violations, approvals, payloads>>
vars == <<stream_passthrough, pc, matched, tables, storage_lock, upstream, response, outcome,
          failed, faults, crashes>>

Statements == {"request_start", "violation", "approval", "payload", "finalize"}

\* The points at which the handler future awaits, and is dropped when the
\* client's connection goes away.
Awaiting == {"read_body", "await", "buffering", "streaming"}
\* The points inside a block that holds the mutex.
Locked == {"low_violation", "block_violation", "block_approval",
           "block_finalize", "allow_payload"}
Running == Awaiting \cup Locked \cup
           {"low_start", "block_start", "allow_start", "forward", "finalize", "reply"}
Ended == {"done", "dropped", "panicked", "crashed"}

\* risk_level_from_severity: a severity it does not know counts as low.
RiskLevel(severity) == IF severity = "unrecognised" THEN "low" ELSE severity

\* Mutant: the first arm also takes medium matches.
AfterScanMediumAllowed(severity) ==
  CASE severity = "none"                       -> "allow_start"
    [] RiskLevel(severity) \in {"low", "medium"} -> "low_start"
    [] OTHER                                   -> "block_start"

\* The match arms after the scan.
AfterScan(severity) ==
  CASE severity = "none"           -> "allow_start"
    [] RiskLevel(severity) = "low" -> "low_start"
    [] OTHER                       -> "block_start"

\* Mutants: every block asks for approval; only a high match does.
NeedsApprovalAlways(severity) == RiskLevel(severity) # "low"
NeedsApprovalHighOnly(severity) == RiskLevel(severity) = "high"

NeedsApproval(severity) == RiskLevel(severity) \in {"high", "medium"}

Init ==
  /\ stream_passthrough \in BOOLEAN
  /\ pc           = [r \in Requests |-> "idle"]
  /\ matched      = [r \in Requests |-> "none"]
  /\ requests     = EmptyRequests
  /\ violations   = {}
  /\ approvals    = EmptyApprovals
  /\ payloads     = {}
  /\ storage_lock = {}
  /\ upstream     = [r \in Requests |-> "idle"]
  /\ response     = [r \in Requests |-> "none"]
  /\ outcome      = [r \in Requests |-> "none"]
  /\ failed       = [r \in Requests |-> {}]
  /\ faults       = 0
  /\ crashes      = 0

GoTo(r, label) == pc' = [pc EXCEPT ![r] = label]

-----------------------------------------------------------------------------
(* The mutex. *)

Free == storage_lock = {}
Holds(r) == storage_lock = {r}
\* Mutant: the mutex is not waited for.
LockAtOnce(r) == storage_lock' = storage_lock \cup {r}
Lock(r) == Free /\ storage_lock' = {r}
\* Mutant: each statement locks for itself.
KeepNothing(r) == storage_lock' = {}
Keep(r) == Holds(r) /\ UNCHANGED storage_lock
Unlock(r) == Holds(r) /\ storage_lock' = {}
LockAndUnlock == Free /\ UNCHANGED storage_lock

-----------------------------------------------------------------------------
(* One SQL statement of request r: it takes effect, or fails (a full disk,  *)
(* another process that keeps the database busy) and its error is ignored.  *)

Succeeds == UNCHANGED <<failed, faults>>

Fails(r, statement) ==
  /\ faults < MaxFaults
  /\ faults' = faults + 1
  /\ failed' = [failed EXCEPT ![r] = @ \cup {statement}]
  /\ UNCHANGED tables

InsertsStart(r, blocked, severity) ==
  \/ /\ Succeeds
     /\ requests' = InsertRequestStart(requests, r, blocked, severity)
     /\ UNCHANGED <<violations, approvals, payloads>>
  \/ Fails(r, "request_start")

InsertsViolation(r, action) ==
  \/ /\ Succeeds
     /\ violations' = InsertViolation(requests, violations, r, matched[r], action)
     /\ UNCHANGED <<requests, approvals, payloads>>
  \/ Fails(r, "violation")

InsertsApproval(r) ==
  \/ /\ Succeeds
     /\ approvals' = InsertApprovalRequest(requests, approvals, r, RiskLevel(matched[r]))
     /\ UNCHANGED <<requests, violations, payloads>>
  \/ Fails(r, "approval")

InsertsPayload(r) ==
  \/ /\ Succeeds
     /\ payloads' = InsertRequestPayload(requests, payloads, r)
     /\ UNCHANGED <<requests, violations, approvals>>
  \/ Fails(r, "payload")

Finalizes(r, reason, status) ==
  \/ /\ Succeeds
     /\ requests' = FinalizeRequest(requests, r, reason, status)
     /\ UNCHANGED <<violations, approvals, payloads>>
  \/ Fails(r, "finalize")

-----------------------------------------------------------------------------
(* Steps 1 to 7: path, upstream, body, scan. *)

\* The path is not one of the proxy's, or no upstream is configured for it:
\* the handler returns at once, and writes no row.
Reject(r, status) ==
  /\ pc[r] = "idle"
  /\ GoTo(r, "done")
  /\ response' = [response EXCEPT ![r] = status]
  /\ UNCHANGED <<matched, tables, storage_lock, upstream, outcome, failed, faults, crashes>>

Accept(r) ==
  /\ pc[r] = "idle"
  /\ GoTo(r, "read_body")
  /\ UNCHANGED <<matched, tables, storage_lock, upstream, response, outcome, failed, faults, crashes>>

ReadBodyAndScan(r, severity) ==
  /\ pc[r] = "read_body"
  /\ matched' = [matched EXCEPT ![r] = severity]
  /\ GoTo(r, AfterScan(severity))
  /\ UNCHANGED <<tables, storage_lock, upstream, response, outcome, failed, faults, crashes>>

\* collect().await.unwrap() on a body that breaks off, or from_utf8().unwrap()
\* on one that is not UTF-8.
ReadBodyPanics(r) ==
  /\ pc[r] = "read_body"
  /\ GoTo(r, "panicked")
  /\ UNCHANGED <<matched, tables, storage_lock, upstream, response, outcome, failed, faults, crashes>>

-----------------------------------------------------------------------------
(* A low-risk match: audited as allowed, logged, and forwarded. *)

LowInsertStart(r) ==
  /\ pc[r] = "low_start" /\ Lock(r)
  /\ InsertsStart(r, FALSE, "null")
  /\ GoTo(r, "low_violation")
  /\ UNCHANGED <<matched, upstream, response, outcome, crashes>>

LowInsertViolation(r) ==
  /\ pc[r] = "low_violation" /\ Unlock(r)
  /\ InsertsViolation(r, "logged")
  /\ GoTo(r, "allow_start")
  /\ UNCHANGED <<matched, upstream, response, outcome, crashes>>

-----------------------------------------------------------------------------
(* A critical, high or medium match: one locked block records the request, *)
(* the violation, the approval request (not for critical) and the end.     *)

BlockInsertStart(r) ==
  /\ pc[r] = "block_start" /\ Lock(r)
  /\ InsertsStart(r, TRUE, matched[r])
  /\ GoTo(r, "block_violation")
  /\ UNCHANGED <<matched, upstream, response, outcome, crashes>>

BlockInsertViolation(r) ==
  /\ pc[r] = "block_violation" /\ Keep(r)
  /\ InsertsViolation(r, "blocked")
  /\ GoTo(r, IF NeedsApproval(matched[r]) THEN "block_approval" ELSE "block_finalize")
  /\ UNCHANGED <<matched, upstream, response, outcome, crashes>>

BlockInsertApproval(r) ==
  /\ pc[r] = "block_approval" /\ Keep(r)
  /\ InsertsApproval(r)
  /\ GoTo(r, "block_finalize")
  /\ UNCHANGED <<matched, upstream, response, outcome, crashes>>

BlockFinalize(r) ==
  /\ pc[r] = "block_finalize" /\ Unlock(r)
  /\ Finalizes(r, "ok", "block")
  /\ GoTo(r, "reply")
  /\ response' = [response EXCEPT ![r] = "block"]
  /\ UNCHANGED <<matched, upstream, outcome, crashes>>

-----------------------------------------------------------------------------
(* Step 8: the audit of an allowed request.  After a low-risk match the    *)
(* row exists already and SQLite refuses the second insert.                *)

AllowInsertStart(r) ==
  /\ pc[r] = "allow_start"
  /\ IF StoreRequestPayloads
     THEN Lock(r) /\ GoTo(r, "allow_payload")
     ELSE LockAndUnlock /\ GoTo(r, "forward")
  /\ InsertsStart(r, FALSE, "null")
  /\ UNCHANGED <<matched, upstream, response, outcome, crashes>>

AllowInsertPayload(r) ==
  /\ pc[r] = "allow_payload" /\ Unlock(r)
  /\ InsertsPayload(r)
  /\ GoTo(r, "forward")
  /\ UNCHANGED <<matched, upstream, response, outcome, crashes>>

-----------------------------------------------------------------------------
(* Step 9: forward. *)

Send(r) ==
  /\ pc[r] = "forward"
  /\ GoTo(r, "await")
  /\ upstream' = [upstream EXCEPT ![r] = "sent"]
  /\ UNCHANGED <<matched, tables, storage_lock, response, outcome, failed, faults, crashes>>

\* build_upstream_request panics on a URI the configured base makes invalid.
SendPanics(r) ==
  /\ pc[r] = "forward"
  /\ GoTo(r, "panicked")
  /\ UNCHANGED <<matched, tables, storage_lock, upstream, response, outcome, failed, faults, crashes>>

\* The upstream: answers with a status line and headers, or its connection
\* fails.  It may also stay silent.
UpstreamMoves(r, state) ==
  /\ upstream[r] = "sent"
  /\ upstream' = [upstream EXCEPT ![r] = state]
  /\ UNCHANGED <<pc, matched, tables, storage_lock, response, outcome, failed, faults, crashes>>

\* Mutant: the success path returns without finalising.
ReceiveAnswerUnaudited(r) ==
  /\ pc[r] = "await" /\ upstream[r] = "answered"
  /\ GoTo(r, "reply")
  /\ response' = [response EXCEPT ![r] = "upstream"]
  /\ UNCHANGED <<matched, tables, storage_lock, upstream, outcome, failed, faults, crashes>>

ReceiveAnswer(r) ==
  /\ pc[r] = "await" /\ upstream[r] = "answered"
  /\ GoTo(r, "finalize")
  /\ response' = [response EXCEPT ![r] = "upstream"]
  /\ UNCHANGED <<matched, tables, storage_lock, upstream, outcome, failed, faults, crashes>>

ReceiveError(r) ==
  /\ pc[r] = "await" /\ upstream[r] = "failed"
  /\ GoTo(r, "finalize")
  /\ response' = [response EXCEPT ![r] = "bad_gateway"]
  /\ outcome'  = [outcome EXCEPT ![r] = "network_error"]
  /\ UNCHANGED <<matched, tables, storage_lock, upstream, failed, faults, crashes>>

\* Mutant: the timer is polled only once the exchange has resolved.
UpstreamTimesOutTooLate(r) ==
  /\ pc[r] = "await" /\ upstream[r] = "failed"
  /\ GoTo(r, "finalize")
  /\ response' = [response EXCEPT ![r] = "gateway_timeout"]
  /\ outcome'  = [outcome EXCEPT ![r] = "upstream_timeout"]
  /\ UNCHANGED <<matched, tables, storage_lock, upstream, failed, faults, crashes>>

\* time::timeout polls the exchange before its timer, and drops the exchange
\* when the timer wins.  Only the streaming path has one.
UpstreamTimesOut(r) ==
  /\ stream_passthrough
  /\ pc[r] = "await" /\ upstream[r] = "sent"
  /\ GoTo(r, "finalize")
  /\ upstream' = [upstream EXCEPT ![r] = "dropped"]
  /\ response' = [response EXCEPT ![r] = "gateway_timeout"]
  /\ outcome'  = [outcome EXCEPT ![r] = "upstream_timeout"]
  /\ UNCHANGED <<matched, tables, storage_lock, failed, faults, crashes>>

\* The streaming path finalises every exchange as Ok, with the status of the
\* response it is about to return; the buffered path tells an error apart.
FinalReason(r) ==
  IF stream_passthrough \/ response[r] = "upstream" THEN "ok" ELSE "network_error"
FinalStatus(r) ==
  IF stream_passthrough \/ response[r] = "upstream" THEN response[r] ELSE "null"

FinalizeForwarded(r) ==
  /\ pc[r] = "finalize" /\ LockAndUnlock
  /\ Finalizes(r, FinalReason(r), FinalStatus(r))
  /\ GoTo(r, IF ~stream_passthrough /\ response[r] = "upstream" THEN "buffering" ELSE "reply")
  /\ UNCHANGED <<matched, upstream, response, outcome, crashes>>

\* buffered_response: a body that breaks off becomes an empty one.
CollectBody(r, reason) ==
  /\ pc[r] = "buffering"
  /\ GoTo(r, "reply")
  /\ outcome' = [outcome EXCEPT ![r] = reason]
  /\ UNCHANGED <<matched, tables, storage_lock, upstream, response, failed, faults, crashes>>

\* The handler returns.  A streamed body lives on in the connection.
Reply(r) ==
  /\ pc[r] = "reply"
  /\ GoTo(r, IF stream_passthrough /\ response[r] = "upstream" THEN "streaming" ELSE "done")
  /\ UNCHANGED <<matched, tables, storage_lock, upstream, response, outcome, failed, faults, crashes>>

\* What ProxyBodyStream ends with (module ProxyStream); nobody reads the
\* completion handle, so the audit does not hear of it.
StreamEnds(r, reason) ==
  /\ pc[r] = "streaming"
  /\ GoTo(r, "done")
  /\ outcome' = [outcome EXCEPT ![r] = reason]
  /\ UNCHANGED <<matched, tables, storage_lock, upstream, response, failed, faults, crashes>>

-----------------------------------------------------------------------------
(* The client and the process. *)

\* The client's connection closes: hyper drops the future, or the stream.
ClientGone(r) ==
  /\ pc[r] \in Awaiting
  /\ GoTo(r, "dropped")
  /\ upstream' = [upstream EXCEPT ![r] = IF @ = "sent" THEN "dropped" ELSE @]
  /\ outcome'  = [outcome EXCEPT ![r] = IF pc[r] = "read_body" THEN @ ELSE "client_cancelled"]
  /\ UNCHANGED <<matched, tables, storage_lock, response, failed, faults, crashes>>

\* The process dies and is started again.  The database is what it was: a
\* restart opens it and touches no row.  The settings file may have changed.
CrashAndRestart ==
  /\ crashes < MaxCrashes
  /\ crashes' = crashes + 1
  /\ stream_passthrough' \in BOOLEAN
  /\ pc' = [r \in Requests |-> IF pc[r] \in Running THEN "crashed" ELSE pc[r]]
  /\ upstream' = [r \in Requests |-> IF upstream[r] = "sent" THEN "dropped" ELSE upstream[r]]
  /\ storage_lock' = {}
  /\ UNCHANGED <<matched, tables, response, outcome, failed, faults>>

-----------------------------------------------------------------------------
\* The steps of a handler that wait for nothing but the mutex or a timer.
HandlerStep(r) ==
  /\ UNCHANGED stream_passthrough
  /\ \/ LowInsertStart(r)   \/ LowInsertViolation(r)
     \/ BlockInsertStart(r) \/ BlockInsertViolation(r)
     \/ BlockInsertApproval(r) \/ BlockFinalize(r)
     \/ AllowInsertStart(r) \/ AllowInsertPayload(r)
     \/ Send(r) \/ SendPanics(r)
     \/ ReceiveAnswer(r) \/ ReceiveError(r) \/ UpstreamTimesOut(r)
     \/ FinalizeForwarded(r) \/ Reply(r)

\* The steps that wait for the client or the upstream.
PeerStep(r) ==
  /\ UNCHANGED stream_passthrough
  /\ \/ \E status \in {"not_found", "bad_gateway"} : Reject(r, status)
     \/ Accept(r)
     \/ \E severity \in Severity \cup {"none"} : ReadBodyAndScan(r, severity)
     \/ ReadBodyPanics(r)
     \/ \E state \in {"answered", "failed"} : UpstreamMoves(r, state)
     \/ \E reason \in {"ok", "network_error"} : CollectBody(r, reason)
     \/ \E reason \in {"ok", "network_error", "idle_timeout"} : StreamEnds(r, reason)
     \/ ClientGone(r)

\* Every request has been handled: the broker waits for more.
Quiescent == (\A r \in Requests : pc[r] \in Ended) /\ UNCHANGED vars

Next == (\E r \in Requests : HandlerStep(r) \/ PeerStep(r))
        \/ CrashAndRestart \/ Quiescent

Spec == Init /\ [][Next]_vars

\* The runtime polls a ready task again and a timer fires; nothing is asked of
\* the client or the upstream.
Fairness == \A r \in Requests : WF_vars(HandlerStep(r))
FairSpec == Spec /\ Fairness

-----------------------------------------------------------------------------
(* Properties. *)

StorageTypeOK ==
  /\ requests \in [Requests -> RequestRow]
  /\ violations \subseteq Violation
  /\ approvals \in [Requests -> ApprovalRisk]
  /\ payloads \subseteq Requests
  /\ failed \in [Requests -> SUBSET Statements]
  /\ faults \in 0 .. MaxFaults

\* The types of the variables; at most one handler holds the mutex (the
\* MutexGuard discipline of every `storage.lock()` block).
TypeOK ==
  /\ StorageTypeOK
  /\ stream_passthrough \in BOOLEAN
  /\ pc \in [Requests -> Running \cup Ended \cup {"idle"}]
  /\ matched \in [Requests -> Severity \cup {"none"}]
  /\ storage_lock \in {{}} \cup {{r} : r \in Requests}
  /\ upstream \in [Requests -> {"idle", "sent", "answered", "failed", "dropped"}]
  /\ response \in [Requests -> {"none", "not_found", "block", "upstream",
                                "bad_gateway", "gateway_timeout"}]
  /\ outcome \in [Requests -> TerminalReason \cup {"none"}]
  /\ crashes \in 0 .. MaxCrashes

\* The severities the design calls for blocking.
Dangerous(r) == matched[r] \in {"critical", "high", "medium"}

\* The audit tables tell one story about a request, in whatever order the
\* handlers' statements interleave, fail or are cut short by a crash: a row
\* says "blocked" exactly when the scan found a dangerous match; a violation
\* hangs on a row and its action agrees with it; an approval waits only on
\* the blocked row of a high or medium match (router.rs 246-341).
AuditTellsOneStory ==
  /\ \A r \in Requests : HasRow(requests, r) => (requests[r].blocked <=> Dangerous(r))
  /\ \A v \in violations :
       /\ HasRow(requests, v.request)
       /\ v.severity = matched[v.request]
       /\ v.action = "blocked" <=> requests[v.request].blocked
  /\ \A r \in Requests : approvals[r] # "none" =>
       /\ requests[r].blocked
       /\ approvals[r] = matched[r] /\ matched[r] \in {"high", "medium"}

\* Nothing reaches an upstream that was blocked, and nothing reaches it
\* unaudited: what was sent has a row that says so, unless the insert itself
\* failed; after a low match it also has its "logged" violation, unless one of
\* the statements failed (router.rs 246-276, 347-365 before 370-399).
EgressIsAudited ==
  \A r \in Requests : upstream[r] # "idle" =>
    /\ ~Dangerous(r)
    /\ \/ HasRow(requests, r) /\ ~requests[r].blocked
       \/ "request_start" \in failed[r]
    /\ \/ matched[r] = "none"
       \/ \E v \in violations : v.request = r /\ v.action = "logged"
       \/ failed[r] # {}

\* What the mutex is for: whoever takes it next (another handler, the events
\* handler) finds every blocked request whole: row closed, violation there,
\* and the approval request if the match calls for one.  Only a failed
\* statement or a crash leaves less (router.rs 288-341, one lock).
BlockedRecordsWhole ==
  storage_lock = {} /\ crashes = 0 =>
    \A r \in Requests : requests[r].blocked /\ failed[r] = {} =>
      /\ requests[r].stage = "final"
      /\ \E v \in violations : v.request = r
      /\ matched[r] # "critical" => approvals[r] # "none"

\* What a crash may cut off is only ever the end of the record: a closed
\* blocked row has its violation and its approval, and an approval has its
\* violation, whenever the process died (the statement order of 289-340).
RecordsArePrefixes ==
  \A r \in Requests : failed[r] = {} =>
    /\ requests[r].blocked /\ requests[r].stage = "final" /\ matched[r] # "critical"
         => approvals[r] # "none"
    /\ approvals[r] # "none" \/ (requests[r].blocked /\ requests[r].stage = "final")
         => \E v \in violations : v.request = r

\* A client that has its response has a closed row behind it, with the status
\* it was given (or NULL, when the buffered path failed), unless a statement
\* failed: no path returns before it finalises (router.rs 335-343, 381-430).
AnsweredIsClosed ==
  \A r \in Requests :
    /\ pc[r] \in {"reply", "buffering", "streaming", "done"}
    /\ response[r] = "block" \/ upstream[r] # "idle"
    /\ failed[r] = {}
    => requests[r].stage = "final" /\ requests[r].status \in {response[r], "null"}

-----------------------------------------------------------------------------
(* The invariant those properties rest on, inductive with them: where a     *)
(* handler is says what it has decided, recorded and sent.                  *)

BlockPoints == {"block_start", "block_violation", "block_approval", "block_finalize"}
LowPoints   == {"low_start", "low_violation"}
AllowPoints == {"allow_start", "allow_payload", "forward"}
Logged(r)   == \E v \in violations : v.request = r /\ v.action = "logged"
Evidence(r) == \E v \in violations : v.request = r

LockInv == \A r \in Requests : pc[r] \in Locked <=> storage_lock = {r}

\* The verdict, and the response that carrying it out ends in.
VerdictInv(r) ==
  /\ pc[r] \in {"idle", "read_body"} => matched[r] = "none"
  /\ pc[r] \in BlockPoints => Dangerous(r)
  /\ pc[r] \in LowPoints => matched[r] \in {"low", "unrecognised"}
  /\ pc[r] = "block_approval" => matched[r] \in {"high", "medium"}
  /\ pc[r] \in AllowPoints \cup {"await", "finalize"} => ~Dangerous(r)
  /\ pc[r] = "finalize" => response[r] \in {"upstream", "bad_gateway", "gateway_timeout"}

\* The exchange with the upstream.
ExchangeInv(r) ==
  /\ upstream[r] # "idle" => ~Dangerous(r)
  /\ pc[r] \in {"idle", "read_body"} \cup BlockPoints \cup LowPoints \cup AllowPoints
       => upstream[r] = "idle"
  /\ pc[r] \in {"await", "finalize"} => upstream[r] # "idle"

\* The row.
RowInv(r) ==
  /\ pc[r] \in {"idle", "read_body", "block_start", "low_start"} => ~HasRow(requests, r)
  /\ ~HasRow(requests, r) => ~requests[r].blocked
  /\ requests[r].stage = "final" =>
       pc[r] \in {"reply", "buffering", "streaming"} \cup Ended
  /\ pc[r] \in (Locked \cup {"forward", "await", "finalize"})
       => HasRow(requests, r) \/ "request_start" \in failed[r]
  /\ pc[r] = "allow_start" /\ matched[r] # "none" /\ failed[r] = {} => HasRow(requests, r)

\* What goes with the row while no statement has failed.
EvidenceInv(r) ==
  failed[r] = {} =>
    /\ pc[r] \in AllowPoints /\ matched[r] # "none" => Logged(r)
    /\ pc[r] \in {"block_approval", "block_finalize"} => Evidence(r)
    /\ pc[r] = "block_finalize" /\ matched[r] # "critical" => approvals[r] # "none"
    /\ requests[r].blocked /\ crashes = 0 /\ requests[r].stage = "open"
         => pc[r] \in BlockPoints \cap Locked

HandlerInv ==
  /\ LockInv
  /\ \A r \in Requests :
       VerdictInv(r) /\ ExchangeInv(r) /\ RowInv(r) /\ EvidenceInv(r)

-----------------------------------------------------------------------------
(* The abstract specification, and liveness.                               *)

BlockedRequests == {r \in Requests : Dangerous(r)}
SentRequests    == {r \in Requests : upstream[r] # "idle"}
Rows            == [r \in Requests |-> [stage   |-> requests[r].stage,
                                       blocked |-> requests[r].blocked]]
FlaggedRequests == {r \in Requests : Evidence(r)}
AskedRequests   == {r \in Requests : approvals[r] # "none"}

Trail == INSTANCE AuditTrail WITH
  blocked <- BlockedRequests, sent <- SentRequests, row <- Rows,
  flagged <- FlaggedRequests, asked <- AskedRequests

\* What the audit trail promises, kept by every step of every handler and by a
\* crash (the order of statements and sends in router.rs 246-430).
KeepsTheTrail == Trail!Spec

\* The exchange of request r, which begins when the handler sends it.
HeardOf(r) ==
  CASE upstream[r] = "answered" -> "head"
    [] upstream[r] = "failed"   -> "failure"
    [] OTHER                    -> "nothing"
ShownOf(r) ==
  IF upstream[r] = "idle" \/ response[r] = "none" THEN "nothing" ELSE response[r]
ReasonOf(r) ==
  IF upstream[r] # "idle" /\ outcome[r] = "none" /\ pc[r] = "crashed" THEN "lost" ELSE outcome[r]

Seen(r) == INSTANCE Exchange WITH
  heard <- HeardOf(r), shown <- ShownOf(r), reason <- ReasonOf(r)

\* Each request's exchange, whoever else is served, in either mode and through
\* crashes, is one that module ProxyStream has too: a gateway error and an answer
\* exclude each other, and it ends once, for the reason its client saw
\* (router.rs 370-446).
ExchangesAreProper ==
  /\ \A r \in Requests : Seen(r)!Init
  /\ [][\A r \in Requests : [Seen(r)!Next]_(Seen(r)!vars)]_vars

\* The places a handler may still come to.
PlacesLeft(place) ==
  CASE place = "idle"                             -> 12
    [] place = "read_body"                        -> 11
    [] place = "low_start"                        -> 10
    [] place = "low_violation"                    -> 9
    [] place = "allow_start"                      -> 8
    [] place = "allow_payload"                    -> 7
    [] place \in {"forward", "block_start"}       -> 6
    [] place \in {"await", "block_violation"}     -> 5
    [] place \in {"finalize", "block_approval"}   -> 4
    [] place \in {"buffering", "block_finalize"}  -> 3
    [] place = "reply"                            -> 2
    [] place = "streaming"                        -> 1
    [] OTHER                                      -> 0

\* Nobody goes back: no step of anyone, a crash and restart included, takes a
\* handler to a place it has been at, and every step of its own takes it on.
\* So the fairness of Responds has a bounded number of steps to grant, and what
\* can keep a handler is the mutex or the upstream alone (router.rs 122-458).
NobodyGoesBack ==
  [][\A r \in Requests :
       /\ pc'[r] # pc[r] => PlacesLeft(pc'[r]) < PlacesLeft(pc[r])
       /\ HandlerStep(r) => pc'[r] # pc[r]]_vars

\* Past the scan a handler does not wait for ever, whatever the upstream does
\* and however the handlers compete for the mutex: it answers, unless it is
\* dropped, panics or dies (the upstream timeout of the streaming path).
Responds ==
  \A r \in Requests :
    stream_passthrough /\ pc[r] \in Running \ {"read_body"}
      ~> pc[r] \in Ended \cup {"streaming"}

-----------------------------------------------------------------------------
(* What the audit design asks (docs/superpowers/specs/                     *)
(* 2026-04-06-broker-audit-intercept-design.md) and the code does not do.  *)

\* The streaming path finalises every exchange as ok.
ReasonIsTruthful(r) ==
  pc[r] = "done" /\ requests[r].stage = "final" /\ outcome[r] # "none"
  => requests[r].reason = outcome[r]

\* A handler dropped with its client leaves the row open.
CancelledIsFinal(r) ==
  pc[r] = "dropped" /\ HasRow(requests, r) /\ failed[r] = {}
  => requests[r].stage = "final"

\* Line 452: "Audit writes must happen on both success and early termination
\* (timeout/cancel/network reset), with explicit terminal reason."
EveryEndIsAudited == \A r \in Requests : ReasonIsTruthful(r) /\ CancelledIsFinal(r)
=============================================================================
