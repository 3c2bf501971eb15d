----------------------------- MODULE BrokerProofs -----------------------------
(***************************************************************************)
(* Proofs about module Broker, for any set of requests, any number of      *)
(* failing statements and crashes, and both settings of the handler.       *)
(***************************************************************************)
EXTENDS Broker, TLAPS

-----------------------------------------------------------------------------
(* The storage operators keep a table a table. *)

\* The insert of a row keeps the table a table.
LEMMA InsertRequestStartType ==
  ASSUME NEW table \in [Requests -> RequestRow], NEW r \in Requests,
         NEW blocked \in BOOLEAN, NEW severity \in Severity \cup {"null"}
  PROVE  InsertRequestStart(table, r, blocked, severity) \in [Requests -> RequestRow]
<1>1. OpenRow(blocked, severity) \in RequestRow
  BY DEF RequestRow, OpenRow, TerminalReason, ResponseStatus, Severity
<1>. QED  BY <1>1 DEF InsertRequestStart

\* So does completing one.
LEMMA FinalizeRequestType ==
  ASSUME NEW table \in [Requests -> RequestRow], NEW r \in Requests,
         NEW reason \in TerminalReason, NEW status \in ResponseStatus
  PROVE  FinalizeRequest(table, r, reason, status) \in [Requests -> RequestRow]
<1>1. FinalRow(table[r], reason, status) \in RequestRow
  BY DEF RequestRow, FinalRow, TerminalReason, ResponseStatus, Severity
<1>. QED  BY <1>1 DEF FinalizeRequest

\* A statement, whether it succeeds or fails, leaves the tables well typed.
LEMMA StatementType ==
  ASSUME StorageTypeOK, matched \in [Requests -> Severity \cup {"none"}],
         NEW r \in Requests, NEW blocked \in BOOLEAN,
         NEW severity \in Severity \cup {"null"}, NEW action \in {"logged", "blocked"},
         NEW reason \in TerminalReason, NEW status \in ResponseStatus,
         \/ InsertsStart(r, blocked, severity)
         \/ matched[r] # "none" /\ InsertsViolation(r, action)
         \/ matched[r] # "none" /\ InsertsApproval(r)
         \/ InsertsPayload(r)
         \/ Finalizes(r, reason, status)
  PROVE  StorageTypeOK'
<1>1. ASSUME NEW s \in Statements, Fails(r, s)
      PROVE  StorageTypeOK'
  BY <1>1, BoundsAssumption DEF Fails, tables, StorageTypeOK
<1>2. CASE InsertsStart(r, blocked, severity)
  BY <1>1, <1>2, InsertRequestStartType DEF InsertsStart, Succeeds, StorageTypeOK, Statements
<1>3. CASE matched[r] # "none" /\ InsertsViolation(r, action)
  BY <1>1, <1>3 DEF InsertsViolation, InsertViolation, Violation, Succeeds,
     StorageTypeOK, Statements
<1>4. CASE matched[r] # "none" /\ InsertsApproval(r)
  BY <1>1, <1>4 DEF InsertsApproval, InsertApprovalRequest, ApprovalRisk, RiskLevel,
     Severity, Succeeds, StorageTypeOK, Statements
<1>5. CASE InsertsPayload(r)
  BY <1>1, <1>5 DEF InsertsPayload, InsertRequestPayload, Succeeds, StorageTypeOK, Statements
<1>6. CASE Finalizes(r, reason, status)
  BY <1>1, <1>6, FinalizeRequestType DEF Finalizes, Succeeds, StorageTypeOK, Statements
<1>. QED  BY <1>2, <1>3, <1>4, <1>5, <1>6

-----------------------------------------------------------------------------
(* Types, and the verdict the handler's place stands for.                  *)

Verdicts == \A r \in Requests : VerdictInv(r)

\* Variables start with their types, and no request is past a verdict it has not.
LEMMA TypeInit == Init => TypeOK /\ Verdicts
  BY BoundsAssumption DEF Init, TypeOK, StorageTypeOK, Running, EmptyRequests, EmptyApprovals,
     NoRow, RequestRow, ApprovalRisk, Severity, TerminalReason, ResponseStatus,
     Verdicts, VerdictInv, BlockPoints, LowPoints, AllowPoints

\* Every step keeps the types; it is the scan alone that gives a verdict.
LEMMA TypeNext ==
  ASSUME TypeOK, Verdicts, [Next]_vars
  PROVE  TypeOK' /\ Verdicts'
<1>0. stream_passthrough' \in BOOLEAN
  BY Zenon DEF TypeOK, Next, HandlerStep, PeerStep, CrashAndRestart, Quiescent, vars
<1>. USE <1>0 DEF TypeOK, Verdicts, VerdictInv, Dangerous, BlockPoints, LowPoints, AllowPoints,
         Running, Awaiting, Locked, Ended, GoTo
<1>1. ASSUME NEW r \in Requests, LowInsertStart(r)
      PROVE  TypeOK' /\ Verdicts'
  <2>1. StorageTypeOK'
    BY <1>1, StatementType DEF LowInsertStart, Severity, TerminalReason, ResponseStatus
  <2>. QED  BY <1>1, <2>1 DEF LowInsertStart, Lock
<1>2. ASSUME NEW r \in Requests, LowInsertViolation(r)
      PROVE  TypeOK' /\ Verdicts'
  <2>1. StorageTypeOK'
    BY <1>2, StatementType DEF LowInsertViolation, Severity, TerminalReason, ResponseStatus
  <2>. QED  BY <1>2, <2>1 DEF LowInsertViolation, Unlock
<1>3. ASSUME NEW r \in Requests, BlockInsertStart(r)
      PROVE  TypeOK' /\ Verdicts'
  <2>1. StorageTypeOK'
    BY <1>3, StatementType DEF BlockInsertStart, Severity, TerminalReason, ResponseStatus
  <2>. QED  BY <1>3, <2>1 DEF BlockInsertStart, Lock
<1>4. ASSUME NEW r \in Requests, BlockInsertViolation(r)
      PROVE  TypeOK' /\ Verdicts'
  <2>1. StorageTypeOK'
    BY <1>4, StatementType DEF BlockInsertViolation, Severity, TerminalReason, ResponseStatus
  <2>. QED  BY <1>4, <2>1 DEF BlockInsertViolation, Keep, NeedsApproval, RiskLevel
<1>5. ASSUME NEW r \in Requests, BlockInsertApproval(r)
      PROVE  TypeOK' /\ Verdicts'
  <2>1. StorageTypeOK'
    BY <1>5, StatementType DEF BlockInsertApproval, Severity, TerminalReason, ResponseStatus
  <2>. QED  BY <1>5, <2>1 DEF BlockInsertApproval, Keep
<1>6. ASSUME NEW r \in Requests, BlockFinalize(r)
      PROVE  TypeOK' /\ Verdicts'
  <2>1. StorageTypeOK'
    BY <1>6, StatementType DEF BlockFinalize, Severity, TerminalReason, ResponseStatus
  <2>. QED  BY <1>6, <2>1 DEF BlockFinalize, Unlock
<1>7. ASSUME NEW r \in Requests, AllowInsertStart(r)
      PROVE  TypeOK' /\ Verdicts'
  <2>1. StorageTypeOK'
    BY <1>7, StatementType DEF AllowInsertStart, Severity, TerminalReason, ResponseStatus
  <2>. QED  BY <1>7, <2>1 DEF AllowInsertStart, Lock, LockAndUnlock
<1>8. ASSUME NEW r \in Requests, AllowInsertPayload(r)
      PROVE  TypeOK' /\ Verdicts'
  <2>1. StorageTypeOK'
    BY <1>8, StatementType DEF AllowInsertPayload, Severity, TerminalReason, ResponseStatus
  <2>. QED  BY <1>8, <2>1 DEF AllowInsertPayload, Unlock
<1>9. ASSUME NEW r \in Requests, FinalizeForwarded(r)
      PROVE  TypeOK' /\ Verdicts'
  <2>0. FinalReason(r) \in TerminalReason /\ FinalStatus(r) \in ResponseStatus
    BY <1>9 DEF FinalizeForwarded, FinalReason, FinalStatus, TerminalReason, ResponseStatus
  <2>1. StorageTypeOK'
    BY <1>9, <2>0, StatementType DEF FinalizeForwarded, Severity, TerminalReason, ResponseStatus
  <2>. QED  BY <1>9, <2>1 DEF FinalizeForwarded, LockAndUnlock
<1>. DEFINE Quiet(r) ==
       \/ \E status \in {"not_found", "bad_gateway"} : Reject(r, status)
       \/ Accept(r) \/ ReadBodyPanics(r)
       \/ Send(r) \/ SendPanics(r)
       \/ \E state \in {"answered", "failed"} : UpstreamMoves(r, state)
       \/ ReceiveAnswer(r) \/ ReceiveError(r) \/ UpstreamTimesOut(r) \/ Reply(r)
       \/ \E reason \in {"ok", "network_error"} : CollectBody(r, reason)
       \/ \E reason \in {"ok", "network_error", "idle_timeout"} : StreamEnds(r, reason)
       \/ ClientGone(r)
<1>10. ASSUME NEW r \in Requests, Quiet(r)
      PROVE  TypeOK' /\ Verdicts'
  BY <1>10 DEF Reject, Accept, ReadBodyPanics, Send, SendPanics, UpstreamMoves, ReceiveAnswer,
     ReceiveError, UpstreamTimesOut, Reply, CollectBody, StreamEnds, ClientGone,
     tables, StorageTypeOK, TerminalReason
<1>11. ASSUME NEW r \in Requests, NEW severity \in Severity \cup {"none"},
              ReadBodyAndScan(r, severity)
      PROVE  TypeOK' /\ Verdicts'
  BY <1>11 DEF ReadBodyAndScan, AfterScan, RiskLevel, tables, StorageTypeOK, Severity
<1>12. CASE CrashAndRestart
  BY <1>12, BoundsAssumption DEF CrashAndRestart, tables, StorageTypeOK
<1>13. CASE UNCHANGED vars
  BY <1>13 DEF vars, tables, StorageTypeOK
<1>. QED
  BY <1>1, <1>2, <1>3, <1>4, <1>5, <1>6, <1>7, <1>8, <1>9, <1>10, <1>11, <1>12, <1>13
  DEF Next, HandlerStep, PeerStep, Quiescent

\* Every variable keeps its type and at most one handler holds the mutex, and
\* a handler is only where its verdict sends it.
THEOREM TypeCorrect == Spec => [](TypeOK /\ Verdicts)
BY TypeInit, TypeNext, PTL DEF Spec

-----------------------------------------------------------------------------
(* The mutex: its holder is the one handler inside a locked block.         *)

\* Every step keeps the mutex with the one handler inside a locked block.
LEMMA LockNext ==
  ASSUME TypeOK, LockInv, [Next]_vars
  PROVE  LockInv'
<1>. USE DEF TypeOK, LockInv, Running, Awaiting, Locked, Ended, GoTo, Free, Holds,
         Lock, Keep, Unlock, LockAndUnlock
<1>1. ASSUME NEW r \in Requests, LowInsertStart(r) \/ BlockInsertStart(r) \/ AllowInsertStart(r)
      PROVE  LockInv'
  <2>1. \A q \in Requests : pc[q] \notin Locked
    BY <1>1 DEF LowInsertStart, BlockInsertStart, AllowInsertStart
  <2>2. CASE pc'[r] \in Locked /\ storage_lock' = {r}
    BY <1>1, <2>1, <2>2 DEF LowInsertStart, BlockInsertStart, AllowInsertStart
  <2>3. CASE pc'[r] \notin Locked /\ storage_lock' = {}
    BY <1>1, <2>1, <2>3 DEF LowInsertStart, BlockInsertStart, AllowInsertStart
  <2>. QED  BY <1>1, <2>2, <2>3 DEF LowInsertStart, BlockInsertStart, AllowInsertStart
<1>2. ASSUME NEW r \in Requests,
             LowInsertViolation(r) \/ BlockFinalize(r) \/ AllowInsertPayload(r)
      PROVE  LockInv'
  BY <1>2 DEF LowInsertViolation, BlockFinalize, AllowInsertPayload
<1>3. ASSUME NEW r \in Requests, BlockInsertViolation(r) \/ BlockInsertApproval(r)
      PROVE  LockInv'
  BY <1>3 DEF BlockInsertViolation, BlockInsertApproval
<1>4. ASSUME NEW r \in Requests,
             \/ FinalizeForwarded(r) \/ Send(r) \/ SendPanics(r)
             \/ ReceiveAnswer(r) \/ ReceiveError(r) \/ UpstreamTimesOut(r) \/ Reply(r)
      PROVE  LockInv'
  BY <1>4 DEF FinalizeForwarded, Send, SendPanics, ReceiveAnswer, ReceiveError,
     UpstreamTimesOut, Reply
<1>5. ASSUME NEW r \in Requests, PeerStep(r)
      PROVE  LockInv'
  BY <1>5 DEF PeerStep, Reject, Accept, ReadBodyAndScan, AfterScan, ReadBodyPanics,
     UpstreamMoves, CollectBody, StreamEnds, ClientGone
<1>6. CASE CrashAndRestart
  BY <1>6 DEF CrashAndRestart
<1>7. CASE UNCHANGED vars
  BY <1>7 DEF vars
<1>. QED  BY <1>1, <1>2, <1>3, <1>4, <1>5, <1>6, <1>7 DEF Next, HandlerStep, Quiescent

\* The mutex is held by exactly the handler whose place is inside a block.
THEOREM LockCorrect == Spec => []LockInv
<1>1. Init => LockInv
  BY DEF Init, LockInv, Locked
<1>. QED  BY <1>1, TypeCorrect, LockNext, PTL DEF Spec

-----------------------------------------------------------------------------
(* The exchange: nothing is sent before its verdict, nor against it.       *)

Exchanges == \A r \in Requests : ExchangeInv(r)

\* Every step keeps what a handler's place says of its verdict and its exchange.
LEMMA ExchangeNext ==
  ASSUME TypeOK, Verdicts, Exchanges, [Next]_vars
  PROVE  Exchanges'
<1>. USE DEF TypeOK, Verdicts, VerdictInv, Exchanges, ExchangeInv, Dangerous, BlockPoints,
         LowPoints, AllowPoints, Running, Awaiting, Locked, Ended, GoTo
<1>1. ASSUME NEW r \in Requests,
             \/ LowInsertStart(r) \/ LowInsertViolation(r) \/ BlockInsertStart(r)
             \/ BlockInsertViolation(r) \/ BlockInsertApproval(r) \/ BlockFinalize(r)
             \/ AllowInsertStart(r) \/ AllowInsertPayload(r) \/ FinalizeForwarded(r)
      PROVE  Exchanges'
  <2>1. CASE LowInsertStart(r)  BY <2>1 DEF LowInsertStart
  <2>2. CASE LowInsertViolation(r)  BY <2>2 DEF LowInsertViolation
  <2>3. CASE BlockInsertStart(r)  BY <2>3 DEF BlockInsertStart
  <2>4. CASE BlockInsertViolation(r)  BY <2>4 DEF BlockInsertViolation
  <2>5. CASE BlockInsertApproval(r)  BY <2>5 DEF BlockInsertApproval
  <2>6. CASE BlockFinalize(r)  BY <2>6 DEF BlockFinalize
  <2>7. CASE AllowInsertStart(r)  BY <2>7 DEF AllowInsertStart
  <2>8. CASE AllowInsertPayload(r)  BY <2>8 DEF AllowInsertPayload
  <2>9. CASE FinalizeForwarded(r)  BY <2>9 DEF FinalizeForwarded
  <2>. QED  BY <1>1, <2>1, <2>2, <2>3, <2>4, <2>5, <2>6, <2>7, <2>8, <2>9
<1>2. ASSUME NEW r \in Requests,
             \/ Send(r) \/ SendPanics(r) \/ ReceiveAnswer(r) \/ ReceiveError(r)
             \/ UpstreamTimesOut(r) \/ Reply(r)
      PROVE  Exchanges'
  BY <1>2 DEF Send, SendPanics, ReceiveAnswer, ReceiveError, UpstreamTimesOut, Reply
<1>3. ASSUME NEW r \in Requests, PeerStep(r)
      PROVE  Exchanges'
  BY <1>3 DEF PeerStep, Reject, Accept, ReadBodyAndScan, AfterScan, RiskLevel, ReadBodyPanics,
     UpstreamMoves, CollectBody, StreamEnds, ClientGone
<1>4. CASE CrashAndRestart
  BY <1>4 DEF CrashAndRestart
<1>5. CASE UNCHANGED vars
  BY <1>5 DEF vars
<1>. QED  BY <1>1, <1>2, <1>3, <1>4, <1>5 DEF Next, HandlerStep, Quiescent

\* No dangerous request is ever seen by an upstream.
THEOREM BlockedNeverSent ==
  Spec => [](\A r \in Requests : Dangerous(r) => upstream[r] = "idle")
<1>1. Init => Exchanges
  BY DEF Init, Exchanges, ExchangeInv
<1>2. Spec => []Exchanges
  BY <1>1, TypeCorrect, ExchangeNext, PTL DEF Spec
<1>3. Exchanges => \A r \in Requests : Dangerous(r) => upstream[r] = "idle"
  BY DEF Exchanges, ExchangeInv
<1>. QED  BY <1>2, <1>3, PTL

-----------------------------------------------------------------------------
(* The tables.  AuditInv(r) is what they say of request r: the parts of    *)
(* HandlerInv about the row, and the properties read one request at a time.*)

StoryInv(r) ==
  /\ HasRow(requests, r) => (requests[r].blocked <=> Dangerous(r))
  /\ \A v \in violations : v.request = r =>
       /\ HasRow(requests, r)
       /\ v.severity = matched[r]
       /\ v.action = "blocked" <=> requests[r].blocked
  /\ approvals[r] # "none" =>
       /\ requests[r].blocked
       /\ approvals[r] = matched[r] /\ matched[r] \in {"high", "medium"}

EgressInv(r) == upstream[r] # "idle" =>
  /\ HasRow(requests, r) \/ "request_start" \in failed[r]
  /\ matched[r] = "none" \/ Logged(r) \/ failed[r] # {}

PrefixInv(r) == failed[r] = {} =>
  /\ requests[r].blocked /\ requests[r].stage = "final" /\ matched[r] # "critical"
       => approvals[r] # "none"
  /\ approvals[r] # "none" \/ (requests[r].blocked /\ requests[r].stage = "final")
       => Evidence(r)

AnsweredInv(r) ==
  /\ pc[r] \in {"reply", "buffering", "streaming", "done"}
  /\ response[r] = "block" \/ upstream[r] # "idle"
  /\ failed[r] = {}
  => requests[r].stage = "final" /\ requests[r].status \in {response[r], "null"}

AuditInv(r) == RowInv(r) /\ EvidenceInv(r) /\ StoryInv(r) /\ EgressInv(r)
               /\ PrefixInv(r) /\ AnsweredInv(r)
Audits == \A r \in Requests : AuditInv(r)

\* AuditInv(q) reads q's part of the state only.
LEMMA AuditFrame ==
  ASSUME NEW q \in Requests, AuditInv(q),
         pc'[q] = pc[q], matched'[q] = matched[q], requests'[q] = requests[q],
         approvals'[q] = approvals[q], upstream'[q] = upstream[q], failed'[q] = failed[q],
         response'[q] = response[q], crashes' = crashes,
         \A v : v.request = q => (v \in violations' <=> v \in violations)
  PROVE  AuditInv(q)'
<1>1. RowInv(q)'       BY DEF AuditInv, RowInv, HasRow
<1>2. (Logged(q)' <=> Logged(q)) /\ (Evidence(q)' <=> Evidence(q))
  BY DEF Logged, Evidence
<1>3. EvidenceInv(q)'  BY <1>2 DEF AuditInv, EvidenceInv
<1>4. StoryInv(q)'     BY DEF AuditInv, StoryInv, HasRow, Dangerous
<1>5. EgressInv(q)'    BY <1>2 DEF AuditInv, EgressInv, HasRow
<1>6. PrefixInv(q)'    BY <1>2 DEF AuditInv, PrefixInv
<1>7. AnsweredInv(q)'  BY DEF AuditInv, AnsweredInv
<1>. QED  BY <1>1, <1>3, <1>4, <1>5, <1>6, <1>7 DEF AuditInv

\* A statement of request r concerns no other request.
LEMMA StatementLocal ==
  ASSUME TypeOK, NEW r \in Requests, NEW q \in Requests, q # r,
         NEW blocked, NEW severity, NEW action, NEW reason, NEW status,
         \/ InsertsStart(r, blocked, severity)
         \/ InsertsViolation(r, action)
         \/ InsertsApproval(r)
         \/ InsertsPayload(r)
         \/ Finalizes(r, reason, status)
  PROVE  /\ requests'[q] = requests[q] /\ approvals'[q] = approvals[q]
         /\ failed'[q] = failed[q]
         /\ \A v : v.request = q => (v \in violations' <=> v \in violations)
<1>. USE DEF TypeOK, StorageTypeOK, Fails, Succeeds, tables
<1>1. CASE InsertsStart(r, blocked, severity)
  BY <1>1 DEF InsertsStart, InsertRequestStart
<1>2. CASE InsertsViolation(r, action)
  BY <1>2 DEF InsertsViolation, InsertViolation
<1>3. CASE InsertsApproval(r)
  BY <1>3 DEF InsertsApproval, InsertApprovalRequest
<1>4. CASE InsertsPayload(r)
  BY <1>4 DEF InsertsPayload
<1>5. CASE Finalizes(r, reason, status)
  BY <1>5 DEF Finalizes, FinalizeRequest
<1>. QED  BY <1>1, <1>2, <1>3, <1>4, <1>5

\* What a statement of request r leaves of the state of another request.
LEMMA OthersKept ==
  ASSUME TypeOK, Audits, NEW r \in Requests, NEW q \in Requests, q # r,
         \E label : GoTo(r, label),
         matched'[q] = matched[q], upstream'[q] = upstream[q], response'[q] = response[q],
         crashes' = crashes,
         \/ UNCHANGED <<tables, failed>>
         \/ \E blocked, severity : InsertsStart(r, blocked, severity)
         \/ \E action : InsertsViolation(r, action)
         \/ InsertsApproval(r)
         \/ InsertsPayload(r)
         \/ \E reason, status : Finalizes(r, reason, status)
  PROVE  AuditInv(q)'
<1>1. pc'[q] = pc[q]
  BY DEF TypeOK, GoTo
<1>2. /\ requests'[q] = requests[q] /\ approvals'[q] = approvals[q]
      /\ failed'[q] = failed[q]
      /\ \A v : v.request = q => (v \in violations' <=> v \in violations)
  <2>1. CASE UNCHANGED <<tables, failed>>
    BY <2>1 DEF tables
  <2>. QED  BY <2>1, StatementLocal
<1>. QED  BY <1>1, <1>2, AuditFrame DEF Audits

\* Every step keeps the audit part of the invariant, action by action.
LEMMA AuditNext ==
  ASSUME TypeOK, Verdicts, Exchanges, LockInv, Audits, [Next]_vars
  PROVE  Audits'
<1>. USE DEF TypeOK, StorageTypeOK, GoTo, Fails, Succeeds, tables, HasRow, Dangerous, BlockPoints,
         LowPoints, AllowPoints, Running, Awaiting, Locked, Ended
<1>1. ASSUME NEW r \in Requests, LowInsertStart(r)
      PROVE  Audits'
  <2>1. ASSUME NEW q \in Requests, q # r  PROVE AuditInv(q)'
    BY <1>1, <2>1, OthersKept DEF LowInsertStart
  <2>2. VerdictInv(r) /\ ExchangeInv(r) /\ AuditInv(r) /\ pc[r] # "idle"
    BY <1>1 DEF Verdicts, Exchanges, Audits, LowInsertStart
  <2>3. RowInv(r)'
    BY <1>1, <2>2
       DEF LowInsertStart, InsertsStart, InsertRequestStart, OpenRow, AuditInv, RowInv,
           VerdictInv, Statements
  <2>4. EvidenceInv(r)'
    BY <1>1, <2>2
       DEF LowInsertStart, InsertsStart, InsertRequestStart, OpenRow, AuditInv, RowInv,
           VerdictInv, EvidenceInv, Logged, Evidence
  <2>5. StoryInv(r)'
    BY <1>1, <2>2
       DEF LowInsertStart, InsertsStart, InsertRequestStart, OpenRow, AuditInv, RowInv,
           VerdictInv, StoryInv
  <2>6. EgressInv(r)'
    BY <1>1, <2>2
       DEF LowInsertStart, InsertsStart, InsertRequestStart, OpenRow, AuditInv, RowInv,
           VerdictInv, ExchangeInv, EvidenceInv, EgressInv, Logged
  <2>7. PrefixInv(r)'
    BY <1>1, <2>2
       DEF LowInsertStart, InsertsStart, InsertRequestStart, OpenRow, AuditInv, RowInv,
           VerdictInv, EvidenceInv, StoryInv, PrefixInv, Evidence
  <2>8. AnsweredInv(r)'
    BY <1>1, <2>2
       DEF LowInsertStart, InsertsStart, InsertRequestStart, OpenRow, AuditInv, RowInv,
           VerdictInv, ExchangeInv, AnsweredInv
  <2>9. AuditInv(r)'
    BY <2>3, <2>4, <2>5, <2>6, <2>7, <2>8 DEF AuditInv
  <2>. QED  BY <2>1, <2>9 DEF Audits
<1>2. ASSUME NEW r \in Requests, LowInsertViolation(r)
      PROVE  Audits'
  <2>1. ASSUME NEW q \in Requests, q # r  PROVE AuditInv(q)'
    BY <1>2, <2>1, OthersKept DEF LowInsertViolation
  <2>2. VerdictInv(r) /\ ExchangeInv(r) /\ AuditInv(r) /\ pc[r] # "idle"
    BY <1>2 DEF Verdicts, Exchanges, Audits, LowInsertViolation
  <2>3. RowInv(r)'
    BY <1>2, <2>2
       DEF LowInsertViolation, InsertsViolation, InsertViolation, AuditInv, RowInv,
           VerdictInv, Statements
  <2>4. EvidenceInv(r)'
    <3>1. ASSUME failed'[r] = {}
          PROVE  [request |-> r, severity |-> matched[r], action |-> "logged"] \in violations'
      BY <1>2, <2>2, <3>1
         DEF LowInsertViolation, InsertsViolation, InsertViolation, AuditInv, RowInv
    <3>2. failed'[r] = {} => Logged(r)'
      BY <3>1 DEF Logged
    <3>. QED  BY <1>2, <2>2, <3>2 DEF LowInsertViolation, InsertsViolation, AuditInv, StoryInv,
                 RowInv, VerdictInv, EvidenceInv
  <2>5. StoryInv(r)'
    BY <1>2, <2>2
       DEF LowInsertViolation, InsertsViolation, InsertViolation, AuditInv, RowInv,
           VerdictInv, StoryInv
  <2>6. EgressInv(r)'
    BY <1>2, <2>2
       DEF LowInsertViolation, InsertsViolation, InsertViolation, AuditInv, RowInv,
           VerdictInv, ExchangeInv, EvidenceInv, EgressInv, Logged
  <2>7. PrefixInv(r)'
    BY <1>2, <2>2
       DEF LowInsertViolation, InsertsViolation, InsertViolation, AuditInv, RowInv,
           VerdictInv, EvidenceInv, StoryInv, PrefixInv, Evidence
  <2>8. AnsweredInv(r)'
    BY <1>2, <2>2
       DEF LowInsertViolation, InsertsViolation, InsertViolation, AuditInv, RowInv,
           VerdictInv, ExchangeInv, AnsweredInv
  <2>9. AuditInv(r)'
    BY <2>3, <2>4, <2>5, <2>6, <2>7, <2>8 DEF AuditInv
  <2>. QED  BY <2>1, <2>9 DEF Audits
<1>3. ASSUME NEW r \in Requests, BlockInsertStart(r)
      PROVE  Audits'
  <2>1. ASSUME NEW q \in Requests, q # r  PROVE AuditInv(q)'
    BY <1>3, <2>1, OthersKept DEF BlockInsertStart
  <2>2. VerdictInv(r) /\ ExchangeInv(r) /\ AuditInv(r) /\ pc[r] # "idle"
    BY <1>3 DEF Verdicts, Exchanges, Audits, BlockInsertStart
  <2>3. RowInv(r)'
    BY <1>3, <2>2
       DEF BlockInsertStart, InsertsStart, InsertRequestStart, OpenRow, AuditInv, RowInv,
           VerdictInv, Statements
  <2>4. EvidenceInv(r)'
    BY <1>3, <2>2
       DEF BlockInsertStart, InsertsStart, InsertRequestStart, OpenRow, AuditInv, RowInv,
           VerdictInv, EvidenceInv, Logged, Evidence
  <2>5. StoryInv(r)'
    BY <1>3, <2>2
       DEF BlockInsertStart, InsertsStart, InsertRequestStart, OpenRow, AuditInv, RowInv,
           VerdictInv, StoryInv
  <2>6. EgressInv(r)'
    BY <1>3, <2>2
       DEF BlockInsertStart, InsertsStart, InsertRequestStart, OpenRow, AuditInv, RowInv,
           VerdictInv, ExchangeInv, EvidenceInv, EgressInv, Logged
  <2>7. PrefixInv(r)'
    BY <1>3, <2>2
       DEF BlockInsertStart, InsertsStart, InsertRequestStart, OpenRow, AuditInv, RowInv,
           VerdictInv, EvidenceInv, StoryInv, PrefixInv, Evidence
  <2>8. AnsweredInv(r)'
    BY <1>3, <2>2
       DEF BlockInsertStart, InsertsStart, InsertRequestStart, OpenRow, AuditInv, RowInv,
           VerdictInv, ExchangeInv, AnsweredInv
  <2>9. AuditInv(r)'
    BY <2>3, <2>4, <2>5, <2>6, <2>7, <2>8 DEF AuditInv
  <2>. QED  BY <2>1, <2>9 DEF Audits
<1>4. ASSUME NEW r \in Requests, BlockInsertViolation(r)
      PROVE  Audits'
  <2>1. ASSUME NEW q \in Requests, q # r  PROVE AuditInv(q)'
    BY <1>4, <2>1, OthersKept DEF BlockInsertViolation
  <2>2. VerdictInv(r) /\ ExchangeInv(r) /\ AuditInv(r) /\ pc[r] # "idle"
    BY <1>4 DEF Verdicts, Exchanges, Audits, BlockInsertViolation
  <2>3. RowInv(r)'
    BY <1>4, <2>2
       DEF BlockInsertViolation, InsertsViolation, InsertViolation, NeedsApproval,
           RiskLevel, AuditInv, RowInv, VerdictInv, Statements
  <2>4. EvidenceInv(r)'
    <3>1. ASSUME failed'[r] = {}
          PROVE  [request |-> r, severity |-> matched[r], action |-> "blocked"] \in violations'
      BY <1>4, <2>2, <3>1
         DEF BlockInsertViolation, InsertsViolation, InsertViolation, AuditInv, RowInv
    <3>2. failed'[r] = {} => Evidence(r)'
      BY <3>1 DEF Evidence
    <3>. QED  BY <1>4, <2>2, <3>2 DEF BlockInsertViolation, InsertsViolation, NeedsApproval,
                 RiskLevel, AuditInv, RowInv, VerdictInv, EvidenceInv
  <2>5. StoryInv(r)'
    BY <1>4, <2>2
       DEF BlockInsertViolation, InsertsViolation, InsertViolation, NeedsApproval,
           RiskLevel, AuditInv, RowInv, VerdictInv, StoryInv
  <2>6. EgressInv(r)'
    BY <1>4, <2>2
       DEF BlockInsertViolation, InsertsViolation, InsertViolation, NeedsApproval,
           RiskLevel, AuditInv, RowInv, VerdictInv, ExchangeInv, EvidenceInv, EgressInv,
           Logged
  <2>7. PrefixInv(r)'
    BY <1>4, <2>2
       DEF BlockInsertViolation, InsertsViolation, InsertViolation, NeedsApproval,
           RiskLevel, AuditInv, RowInv, VerdictInv, EvidenceInv, StoryInv, PrefixInv,
           Evidence
  <2>8. AnsweredInv(r)'
    BY <1>4, <2>2
       DEF BlockInsertViolation, InsertsViolation, InsertViolation, NeedsApproval,
           RiskLevel, AuditInv, RowInv, VerdictInv, ExchangeInv, AnsweredInv
  <2>9. AuditInv(r)'
    BY <2>3, <2>4, <2>5, <2>6, <2>7, <2>8 DEF AuditInv
  <2>. QED  BY <2>1, <2>9 DEF Audits
<1>5. ASSUME NEW r \in Requests, BlockInsertApproval(r)
      PROVE  Audits'
  <2>1. ASSUME NEW q \in Requests, q # r  PROVE AuditInv(q)'
    BY <1>5, <2>1, OthersKept DEF BlockInsertApproval
  <2>2. VerdictInv(r) /\ ExchangeInv(r) /\ AuditInv(r) /\ pc[r] # "idle"
    BY <1>5 DEF Verdicts, Exchanges, Audits, BlockInsertApproval
  <2>3. RowInv(r)'
    BY <1>5, <2>2
       DEF BlockInsertApproval, InsertsApproval, InsertApprovalRequest, RiskLevel, AuditInv,
           RowInv, VerdictInv, Statements
  <2>4. EvidenceInv(r)'
    <3>1. Evidence(r)' <=> Evidence(r)
      BY <1>5 DEF BlockInsertApproval, InsertsApproval, Evidence
    <3>2. failed'[r] = {} => failed[r] = {} /\ approvals'[r] # "none"
      BY <1>5, <2>2 DEF BlockInsertApproval, InsertsApproval, InsertApprovalRequest, RiskLevel,
         AuditInv, RowInv, VerdictInv
    <3>. QED  BY <1>5, <2>2, <3>1, <3>2 DEF BlockInsertApproval, AuditInv, EvidenceInv
  <2>5. StoryInv(r)'
    BY <1>5, <2>2
       DEF BlockInsertApproval, InsertsApproval, InsertApprovalRequest, RiskLevel, AuditInv,
           RowInv, VerdictInv, StoryInv
  <2>6. EgressInv(r)'
    BY <1>5, <2>2
       DEF BlockInsertApproval, InsertsApproval, InsertApprovalRequest, RiskLevel, AuditInv,
           RowInv, VerdictInv, ExchangeInv, EvidenceInv, EgressInv, Logged
  <2>7. PrefixInv(r)'
    BY <1>5, <2>2
       DEF BlockInsertApproval, InsertsApproval, InsertApprovalRequest, RiskLevel, AuditInv,
           RowInv, VerdictInv, EvidenceInv, StoryInv, PrefixInv, Evidence
  <2>8. AnsweredInv(r)'
    BY <1>5, <2>2
       DEF BlockInsertApproval, InsertsApproval, InsertApprovalRequest, RiskLevel, AuditInv,
           RowInv, VerdictInv, ExchangeInv, AnsweredInv
  <2>9. AuditInv(r)'
    BY <2>3, <2>4, <2>5, <2>6, <2>7, <2>8 DEF AuditInv
  <2>. QED  BY <2>1, <2>9 DEF Audits
<1>6. ASSUME NEW r \in Requests, BlockFinalize(r)
      PROVE  Audits'
  <2>1. ASSUME NEW q \in Requests, q # r  PROVE AuditInv(q)'
    BY <1>6, <2>1, OthersKept DEF BlockFinalize
  <2>2. VerdictInv(r) /\ ExchangeInv(r) /\ AuditInv(r) /\ pc[r] # "idle"
    BY <1>6 DEF Verdicts, Exchanges, Audits, BlockFinalize
  <2>f. failed'[r] = {} => /\ failed[r] = {} /\ requests[r].stage = "open"
                            /\ requests'[r] = FinalRow(requests[r], "ok", "block")
    <3>1. failed'[r] = {} => failed[r] = {} /\ requests' =
                               FinalizeRequest(requests, r, "ok", "block")
      BY <1>6 DEF BlockFinalize, Finalizes
    <3>2. failed[r] = {} => requests[r].stage = "open"
      BY <1>6, <2>2 DEF BlockFinalize, AuditInv, RowInv, RequestRow
    <3>. QED  BY <3>1, <3>2 DEF FinalizeRequest
  <2>3. RowInv(r)'
    BY <1>6, <2>2
       DEF BlockFinalize, Finalizes, FinalizeRequest, FinalRow, AuditInv, RowInv,
           VerdictInv, Statements
  <2>4. EvidenceInv(r)'
    BY <1>6, <2>f DEF BlockFinalize, FinalRow, EvidenceInv
  <2>5. StoryInv(r)'
    BY <1>6, <2>2
       DEF BlockFinalize, Finalizes, FinalizeRequest, FinalRow, AuditInv, RowInv,
           VerdictInv, StoryInv
  <2>6. EgressInv(r)'
    BY <1>6, <2>2
       DEF BlockFinalize, Finalizes, FinalizeRequest, FinalRow, AuditInv, RowInv,
           VerdictInv, ExchangeInv, EvidenceInv, EgressInv, Logged
  <2>7. PrefixInv(r)'
    BY <1>6, <2>2
       DEF BlockFinalize, Finalizes, FinalizeRequest, FinalRow, AuditInv, RowInv,
           VerdictInv, EvidenceInv, StoryInv, PrefixInv, Evidence
  <2>8. AnsweredInv(r)'
    BY <1>6, <2>f DEF BlockFinalize, FinalRow, AnsweredInv
  <2>9. AuditInv(r)'
    BY <2>3, <2>4, <2>5, <2>6, <2>7, <2>8 DEF AuditInv
  <2>. QED  BY <2>1, <2>9 DEF Audits
<1>7. ASSUME NEW r \in Requests, AllowInsertStart(r)
      PROVE  Audits'
  <2>1. ASSUME NEW q \in Requests, q # r  PROVE AuditInv(q)'
    BY <1>7, <2>1, OthersKept DEF AllowInsertStart
  <2>2. VerdictInv(r) /\ ExchangeInv(r) /\ AuditInv(r) /\ pc[r] # "idle"
    BY <1>7 DEF Verdicts, Exchanges, Audits, AllowInsertStart
  <2>3. RowInv(r)'
    BY <1>7, <2>2
       DEF AllowInsertStart, InsertsStart, InsertRequestStart, OpenRow, AuditInv, RowInv,
           VerdictInv, Statements
  <2>4. EvidenceInv(r)'
    BY <1>7, <2>2
       DEF AllowInsertStart, InsertsStart, InsertRequestStart, OpenRow, AuditInv, RowInv,
           VerdictInv, EvidenceInv, Logged, Evidence
  <2>5. StoryInv(r)'
    BY <1>7, <2>2
       DEF AllowInsertStart, InsertsStart, InsertRequestStart, OpenRow, AuditInv, RowInv,
           VerdictInv, StoryInv
  <2>6. EgressInv(r)'
    BY <1>7, <2>2
       DEF AllowInsertStart, InsertsStart, InsertRequestStart, OpenRow, AuditInv, RowInv,
           VerdictInv, ExchangeInv, EvidenceInv, EgressInv, Logged
  <2>7. PrefixInv(r)'
    BY <1>7, <2>2
       DEF AllowInsertStart, InsertsStart, InsertRequestStart, OpenRow, AuditInv, RowInv,
           VerdictInv, EvidenceInv, StoryInv, PrefixInv, Evidence
  <2>8. AnsweredInv(r)'
    BY <1>7, <2>2
       DEF AllowInsertStart, InsertsStart, InsertRequestStart, OpenRow, AuditInv, RowInv,
           VerdictInv, ExchangeInv, AnsweredInv
  <2>9. AuditInv(r)'
    BY <2>3, <2>4, <2>5, <2>6, <2>7, <2>8 DEF AuditInv
  <2>. QED  BY <2>1, <2>9 DEF Audits
<1>8. ASSUME NEW r \in Requests, AllowInsertPayload(r)
      PROVE  Audits'
  <2>1. ASSUME NEW q \in Requests, q # r  PROVE AuditInv(q)'
    BY <1>8, <2>1, OthersKept DEF AllowInsertPayload
  <2>2. VerdictInv(r) /\ ExchangeInv(r) /\ AuditInv(r) /\ pc[r] # "idle"
    BY <1>8 DEF Verdicts, Exchanges, Audits, AllowInsertPayload
  <2>3. RowInv(r)'
    BY <1>8, <2>2
       DEF AllowInsertPayload, InsertsPayload, AuditInv, RowInv, VerdictInv, Statements
  <2>4. EvidenceInv(r)'
    BY <1>8, <2>2
       DEF AllowInsertPayload, InsertsPayload, AuditInv, RowInv, VerdictInv, EvidenceInv,
           Logged, Evidence
  <2>5. StoryInv(r)'
    BY <1>8, <2>2 DEF AllowInsertPayload, InsertsPayload, AuditInv, RowInv, VerdictInv, StoryInv
  <2>6. EgressInv(r)'
    BY <1>8, <2>2
       DEF AllowInsertPayload, InsertsPayload, AuditInv, RowInv, VerdictInv, ExchangeInv,
           EvidenceInv, EgressInv, Logged
  <2>7. PrefixInv(r)'
    BY <1>8, <2>2
       DEF AllowInsertPayload, InsertsPayload, AuditInv, RowInv, VerdictInv, EvidenceInv,
           StoryInv, PrefixInv, Evidence
  <2>8. AnsweredInv(r)'
    BY <1>8, <2>2
       DEF AllowInsertPayload, InsertsPayload, AuditInv, RowInv, VerdictInv, ExchangeInv,
           AnsweredInv
  <2>9. AuditInv(r)'
    BY <2>3, <2>4, <2>5, <2>6, <2>7, <2>8 DEF AuditInv
  <2>. QED  BY <2>1, <2>9 DEF Audits
<1>9. ASSUME NEW r \in Requests, FinalizeForwarded(r)
      PROVE  Audits'
  <2>1. ASSUME NEW q \in Requests, q # r  PROVE AuditInv(q)'
    BY <1>9, <2>1, OthersKept DEF FinalizeForwarded
  <2>2. VerdictInv(r) /\ ExchangeInv(r) /\ AuditInv(r) /\ pc[r] # "idle"
    BY <1>9 DEF Verdicts, Exchanges, Audits, FinalizeForwarded
  <2>f. failed'[r] = {} => /\ failed[r] = {} /\ requests[r].stage = "open"
                            /\ requests'[r] = FinalRow(requests[r], FinalReason(r), FinalStatus(r))
    <3>1. failed'[r] = {} => failed[r] = {} /\ requests' =
                               FinalizeRequest(requests, r, FinalReason(r), FinalStatus(r))
      BY <1>9 DEF FinalizeForwarded, Finalizes
    <3>2. failed[r] = {} => requests[r].stage = "open"
      BY <1>9, <2>2 DEF FinalizeForwarded, AuditInv, RowInv, RequestRow
    <3>. QED  BY <3>1, <3>2 DEF FinalizeRequest
  <2>3. RowInv(r)'
    BY <1>9, <2>2
       DEF FinalizeForwarded, Finalizes, FinalizeRequest, FinalRow, FinalStatus, AuditInv,
           RowInv, VerdictInv, Statements
  <2>4. EvidenceInv(r)'
    BY <1>9, <2>2
       DEF FinalizeForwarded, Finalizes, FinalizeRequest, FinalRow, FinalStatus, AuditInv,
           RowInv, VerdictInv, EvidenceInv, Logged, Evidence
  <2>5. StoryInv(r)'
    BY <1>9, <2>2
       DEF FinalizeForwarded, Finalizes, FinalizeRequest, FinalRow, FinalStatus, AuditInv,
           RowInv, VerdictInv, StoryInv
  <2>6. EgressInv(r)'
    BY <1>9, <2>2
       DEF FinalizeForwarded, Finalizes, FinalizeRequest, FinalRow, FinalStatus, AuditInv,
           RowInv, VerdictInv, ExchangeInv, EvidenceInv, EgressInv, Logged
  <2>7. PrefixInv(r)'
    BY <1>9, <2>2
       DEF FinalizeForwarded, Finalizes, FinalizeRequest, FinalRow, FinalStatus, AuditInv,
           RowInv, VerdictInv, EvidenceInv, StoryInv, PrefixInv, Evidence
  <2>8. AnsweredInv(r)'
    BY <1>9, <2>f DEF FinalizeForwarded, FinalRow, FinalStatus, AnsweredInv
  <2>9. AuditInv(r)'
    BY <2>3, <2>4, <2>5, <2>6, <2>7, <2>8 DEF AuditInv
  <2>. QED  BY <2>1, <2>9 DEF Audits
<1>10. ASSUME NEW r \in Requests, NEW status \in {"not_found", "bad_gateway"}, Reject(r, status)
      PROVE  Audits'
  <2>1. ASSUME NEW q \in Requests, q # r  PROVE AuditInv(q)'
    BY <1>10, <2>1, OthersKept DEF Reject
  <2>2. /\ VerdictInv(r) /\ ExchangeInv(r) /\ AuditInv(r)
        /\ (Logged(r)' <=> Logged(r)) /\ (Evidence(r)' <=> Evidence(r))
    BY <1>10 DEF Verdicts, Exchanges, Audits, Reject, Logged, Evidence
  <2>3. AuditInv(r)'
    BY <1>10, <2>2 DEF Reject, VerdictInv, ExchangeInv, AuditInv, RowInv, EvidenceInv, StoryInv,
       EgressInv, PrefixInv, AnsweredInv
  <2>. QED  BY <2>1, <2>3 DEF Audits
<1>11. ASSUME NEW r \in Requests, Accept(r)
      PROVE  Audits'
  <2>1. ASSUME NEW q \in Requests, q # r  PROVE AuditInv(q)'
    BY <1>11, <2>1, OthersKept DEF Accept
  <2>2. /\ VerdictInv(r) /\ ExchangeInv(r) /\ AuditInv(r)
        /\ (Logged(r)' <=> Logged(r)) /\ (Evidence(r)' <=> Evidence(r))
    BY <1>11 DEF Verdicts, Exchanges, Audits, Accept, Logged, Evidence
  <2>3. AuditInv(r)'
    BY <1>11, <2>2 DEF Accept, VerdictInv, ExchangeInv, AuditInv, RowInv, EvidenceInv, StoryInv,
       EgressInv, PrefixInv, AnsweredInv
  <2>. QED  BY <2>1, <2>3 DEF Audits
<1>12. ASSUME NEW r \in Requests, NEW severity \in Severity \cup {"none"}, ReadBodyAndScan(r, severity)
      PROVE  Audits'
  <2>1. ASSUME NEW q \in Requests, q # r  PROVE AuditInv(q)'
    BY <1>12, <2>1, OthersKept DEF ReadBodyAndScan
  <2>2. /\ VerdictInv(r) /\ ExchangeInv(r) /\ AuditInv(r)
        /\ (Logged(r)' <=> Logged(r)) /\ (Evidence(r)' <=> Evidence(r))
    BY <1>12 DEF Verdicts, Exchanges, Audits, ReadBodyAndScan, Logged, Evidence
  <2>3. AuditInv(r)'
    BY <1>12, <2>2
       DEF ReadBodyAndScan, AfterScan, RiskLevel, VerdictInv, ExchangeInv, AuditInv, RowInv,
           EvidenceInv, StoryInv,
       EgressInv, PrefixInv, AnsweredInv
  <2>. QED  BY <2>1, <2>3 DEF Audits
<1>13. ASSUME NEW r \in Requests, ReadBodyPanics(r)
      PROVE  Audits'
  <2>1. ASSUME NEW q \in Requests, q # r  PROVE AuditInv(q)'
    BY <1>13, <2>1, OthersKept DEF ReadBodyPanics
  <2>2. /\ VerdictInv(r) /\ ExchangeInv(r) /\ AuditInv(r)
        /\ (Logged(r)' <=> Logged(r)) /\ (Evidence(r)' <=> Evidence(r))
    BY <1>13 DEF Verdicts, Exchanges, Audits, ReadBodyPanics, Logged, Evidence
  <2>3. AuditInv(r)'
    BY <1>13, <2>2
       DEF ReadBodyPanics, VerdictInv, ExchangeInv, AuditInv, RowInv, EvidenceInv, StoryInv,
       EgressInv, PrefixInv, AnsweredInv
  <2>. QED  BY <2>1, <2>3 DEF Audits
<1>14. ASSUME NEW r \in Requests, Send(r)
      PROVE  Audits'
  <2>1. ASSUME NEW q \in Requests, q # r  PROVE AuditInv(q)'
    BY <1>14, <2>1, OthersKept DEF Send
  <2>2. /\ VerdictInv(r) /\ ExchangeInv(r) /\ AuditInv(r)
        /\ (Logged(r)' <=> Logged(r)) /\ (Evidence(r)' <=> Evidence(r))
    BY <1>14 DEF Verdicts, Exchanges, Audits, Send, Logged, Evidence
  <2>3. AuditInv(r)'
    BY <1>14, <2>2 DEF Send, VerdictInv, ExchangeInv, AuditInv, RowInv, EvidenceInv, StoryInv,
       EgressInv, PrefixInv, AnsweredInv
  <2>. QED  BY <2>1, <2>3 DEF Audits
<1>15. ASSUME NEW r \in Requests, SendPanics(r)
      PROVE  Audits'
  <2>1. ASSUME NEW q \in Requests, q # r  PROVE AuditInv(q)'
    BY <1>15, <2>1, OthersKept DEF SendPanics
  <2>2. /\ VerdictInv(r) /\ ExchangeInv(r) /\ AuditInv(r)
        /\ (Logged(r)' <=> Logged(r)) /\ (Evidence(r)' <=> Evidence(r))
    BY <1>15 DEF Verdicts, Exchanges, Audits, SendPanics, Logged, Evidence
  <2>3. AuditInv(r)'
    BY <1>15, <2>2
       DEF SendPanics, VerdictInv, ExchangeInv, AuditInv, RowInv, EvidenceInv, StoryInv,
       EgressInv, PrefixInv, AnsweredInv
  <2>. QED  BY <2>1, <2>3 DEF Audits
<1>16. ASSUME NEW r \in Requests, NEW state \in {"answered", "failed"}, UpstreamMoves(r, state)
      PROVE  Audits'
  <2>1. ASSUME NEW q \in Requests, q # r  PROVE AuditInv(q)'
    BY <1>16, <2>1, AuditFrame DEF UpstreamMoves, Audits
  <2>2. /\ VerdictInv(r) /\ ExchangeInv(r) /\ AuditInv(r)
        /\ (Logged(r)' <=> Logged(r)) /\ (Evidence(r)' <=> Evidence(r))
    BY <1>16 DEF Verdicts, Exchanges, Audits, UpstreamMoves, Logged, Evidence
  <2>3. AuditInv(r)'
    BY <1>16, <2>2
       DEF UpstreamMoves, VerdictInv, ExchangeInv, AuditInv, RowInv, EvidenceInv, StoryInv,
       EgressInv, PrefixInv, AnsweredInv
  <2>. QED  BY <2>1, <2>3 DEF Audits
<1>17. ASSUME NEW r \in Requests, ReceiveAnswer(r)
      PROVE  Audits'
  <2>1. ASSUME NEW q \in Requests, q # r  PROVE AuditInv(q)'
    BY <1>17, <2>1, OthersKept DEF ReceiveAnswer
  <2>2. /\ VerdictInv(r) /\ ExchangeInv(r) /\ AuditInv(r)
        /\ (Logged(r)' <=> Logged(r)) /\ (Evidence(r)' <=> Evidence(r))
    BY <1>17 DEF Verdicts, Exchanges, Audits, ReceiveAnswer, Logged, Evidence
  <2>3. AuditInv(r)'
    BY <1>17, <2>2
       DEF ReceiveAnswer, VerdictInv, ExchangeInv, AuditInv, RowInv, EvidenceInv, StoryInv,
       EgressInv, PrefixInv, AnsweredInv
  <2>. QED  BY <2>1, <2>3 DEF Audits
<1>18. ASSUME NEW r \in Requests, ReceiveError(r)
      PROVE  Audits'
  <2>1. ASSUME NEW q \in Requests, q # r  PROVE AuditInv(q)'
    BY <1>18, <2>1, OthersKept DEF ReceiveError
  <2>2. /\ VerdictInv(r) /\ ExchangeInv(r) /\ AuditInv(r)
        /\ (Logged(r)' <=> Logged(r)) /\ (Evidence(r)' <=> Evidence(r))
    BY <1>18 DEF Verdicts, Exchanges, Audits, ReceiveError, Logged, Evidence
  <2>3. AuditInv(r)'
    BY <1>18, <2>2
       DEF ReceiveError, VerdictInv, ExchangeInv, AuditInv, RowInv, EvidenceInv, StoryInv,
       EgressInv, PrefixInv, AnsweredInv
  <2>. QED  BY <2>1, <2>3 DEF Audits
<1>19. ASSUME NEW r \in Requests, UpstreamTimesOut(r)
      PROVE  Audits'
  <2>1. ASSUME NEW q \in Requests, q # r  PROVE AuditInv(q)'
    BY <1>19, <2>1, OthersKept DEF UpstreamTimesOut
  <2>2. /\ VerdictInv(r) /\ ExchangeInv(r) /\ AuditInv(r)
        /\ (Logged(r)' <=> Logged(r)) /\ (Evidence(r)' <=> Evidence(r))
    BY <1>19 DEF Verdicts, Exchanges, Audits, UpstreamTimesOut, Logged, Evidence
  <2>3. AuditInv(r)'
    BY <1>19, <2>2
       DEF UpstreamTimesOut, VerdictInv, ExchangeInv, AuditInv, RowInv, EvidenceInv,
           StoryInv,
       EgressInv, PrefixInv, AnsweredInv
  <2>. QED  BY <2>1, <2>3 DEF Audits
<1>20. ASSUME NEW r \in Requests, NEW reason, CollectBody(r, reason)
      PROVE  Audits'
  <2>1. ASSUME NEW q \in Requests, q # r  PROVE AuditInv(q)'
    BY <1>20, <2>1, OthersKept DEF CollectBody
  <2>2. /\ VerdictInv(r) /\ ExchangeInv(r) /\ AuditInv(r)
        /\ (Logged(r)' <=> Logged(r)) /\ (Evidence(r)' <=> Evidence(r))
    BY <1>20 DEF Verdicts, Exchanges, Audits, CollectBody, Logged, Evidence
  <2>3. AuditInv(r)'
    BY <1>20, <2>2
       DEF CollectBody, VerdictInv, ExchangeInv, AuditInv, RowInv, EvidenceInv, StoryInv,
       EgressInv, PrefixInv, AnsweredInv
  <2>. QED  BY <2>1, <2>3 DEF Audits
<1>21. ASSUME NEW r \in Requests, Reply(r)
      PROVE  Audits'
  <2>1. ASSUME NEW q \in Requests, q # r  PROVE AuditInv(q)'
    BY <1>21, <2>1, OthersKept DEF Reply
  <2>2. /\ VerdictInv(r) /\ ExchangeInv(r) /\ AuditInv(r)
        /\ (Logged(r)' <=> Logged(r)) /\ (Evidence(r)' <=> Evidence(r))
    BY <1>21 DEF Verdicts, Exchanges, Audits, Reply, Logged, Evidence
  <2>3. AuditInv(r)'
    BY <1>21, <2>2 DEF Reply, VerdictInv, ExchangeInv, AuditInv, RowInv, EvidenceInv, StoryInv,
       EgressInv, PrefixInv, AnsweredInv
  <2>. QED  BY <2>1, <2>3 DEF Audits
<1>22. ASSUME NEW r \in Requests, NEW reason, StreamEnds(r, reason)
      PROVE  Audits'
  <2>1. ASSUME NEW q \in Requests, q # r  PROVE AuditInv(q)'
    BY <1>22, <2>1, OthersKept DEF StreamEnds
  <2>2. /\ VerdictInv(r) /\ ExchangeInv(r) /\ AuditInv(r)
        /\ (Logged(r)' <=> Logged(r)) /\ (Evidence(r)' <=> Evidence(r))
    BY <1>22 DEF Verdicts, Exchanges, Audits, StreamEnds, Logged, Evidence
  <2>3. AuditInv(r)'
    BY <1>22, <2>2
       DEF StreamEnds, VerdictInv, ExchangeInv, AuditInv, RowInv, EvidenceInv, StoryInv,
       EgressInv, PrefixInv, AnsweredInv
  <2>. QED  BY <2>1, <2>3 DEF Audits
<1>23. ASSUME NEW r \in Requests, ClientGone(r)
      PROVE  Audits'
  <2>1. ASSUME NEW q \in Requests, q # r  PROVE AuditInv(q)'
    BY <1>23, <2>1, OthersKept DEF ClientGone
  <2>2. /\ VerdictInv(r) /\ ExchangeInv(r) /\ AuditInv(r)
        /\ (Logged(r)' <=> Logged(r)) /\ (Evidence(r)' <=> Evidence(r))
    BY <1>23 DEF Verdicts, Exchanges, Audits, ClientGone, Logged, Evidence
  <2>3. AuditInv(r)'
    BY <1>23, <2>2
       DEF ClientGone, VerdictInv, ExchangeInv, AuditInv, RowInv, EvidenceInv, StoryInv,
       EgressInv, PrefixInv, AnsweredInv
  <2>. QED  BY <2>1, <2>3 DEF Audits
<1>24. CASE CrashAndRestart
  <2>1. SUFFICES ASSUME NEW r \in Requests  PROVE AuditInv(r)'
    BY DEF Audits
  <2>2. /\ VerdictInv(r) /\ ExchangeInv(r) /\ AuditInv(r)
        /\ (Logged(r)' <=> Logged(r)) /\ (Evidence(r)' <=> Evidence(r))
    BY <1>24 DEF Verdicts, Exchanges, Audits, CrashAndRestart, Logged, Evidence
  <2>. QED
    BY <1>24, <2>2, BoundsAssumption
       DEF CrashAndRestart, VerdictInv, ExchangeInv, AuditInv, RowInv,
       EvidenceInv, StoryInv, EgressInv, PrefixInv, AnsweredInv
<1>25. CASE UNCHANGED vars
  BY <1>25, AuditFrame DEF vars, Audits
<1>. QED
  BY <1>1, <1>2, <1>3, <1>4, <1>5, <1>6, <1>7, <1>8, <1>9, <1>10, <1>11, <1>12, <1>13,
     <1>14, <1>15, <1>16, <1>17, <1>18, <1>19, <1>20, <1>21, <1>22, <1>23, <1>24, <1>25
  DEF Next, HandlerStep, PeerStep, Quiescent

-----------------------------------------------------------------------------
(* The safety properties of Broker, for every value of its constants.      *)

\* The audit part of the invariant holds of the empty tables.
LEMMA AuditInit == Init => Audits
<1>. SUFFICES ASSUME Init, NEW r \in Requests  PROVE AuditInv(r)
  BY DEF Audits
<1>1. /\ pc[r] = "idle" /\ matched[r] = "none" /\ requests[r] = NoRow /\ violations = {}
      /\ approvals[r] = "none" /\ upstream[r] = "idle" /\ response[r] = "none"
      /\ ~HasRow(requests, r) /\ ~requests[r].blocked /\ requests[r].stage = "absent"
  BY DEF Init, EmptyRequests, EmptyApprovals, NoRow, HasRow
<1>. QED
  BY <1>1 DEF AuditInv, RowInv, EvidenceInv, StoryInv, EgressInv, PrefixInv, AnsweredInv,
     Dangerous, AllowPoints, Locked

IInv == TypeOK /\ Verdicts /\ LockInv /\ Exchanges /\ Audits

\* The inductive invariant that all of them follow from.
THEOREM InvariantCorrect == Spec => []IInv
<1>1. Init => IInv
  <2>1. Init => LockInv    BY DEF Init, LockInv, Locked
  <2>2. Init => Exchanges  BY DEF Init, Exchanges, ExchangeInv
  <2>. QED  BY <2>1, <2>2, TypeInit, AuditInit DEF IInv
<1>2. IInv /\ [Next]_vars => IInv'
  BY TypeNext, LockNext, ExchangeNext, AuditNext DEF IInv
<1>. QED  BY <1>1, <1>2, PTL DEF Spec

\* The parts of the invariant that the runs check, under one name.
THEOREM HandlerInvCorrect == Spec => []HandlerInv
<1>1. IInv => HandlerInv
  BY DEF IInv, HandlerInv, Verdicts, Exchanges, Audits, AuditInv
<1>. QED  BY <1>1, InvariantCorrect, PTL

\* The audit tables never contradict the verdict or each other.
THEOREM AuditTellsOneStoryCorrect == Spec => []AuditTellsOneStory
<1>1. IInv => AuditTellsOneStory
  BY DEF IInv, TypeOK, StorageTypeOK, Violation, Audits, AuditInv, StoryInv, AuditTellsOneStory
<1>. QED  BY <1>1, InvariantCorrect, PTL

\* Nothing dangerous leaves, and nothing leaves unaudited.
THEOREM EgressIsAuditedCorrect == Spec => []EgressIsAudited
<1>1. IInv => EgressIsAudited
  BY DEF IInv, Exchanges, ExchangeInv, Audits, AuditInv, StoryInv, EgressInv, Logged,
     EgressIsAudited
<1>. QED  BY <1>1, InvariantCorrect, PTL

\* The mutex makes a blocked request's record whole for whoever locks next.
THEOREM BlockedRecordsWholeCorrect == Spec => []BlockedRecordsWhole
<1>1. IInv => BlockedRecordsWhole
  <2>. SUFFICES ASSUME IInv, storage_lock = {}, crashes = 0,
                       NEW r \in Requests, requests[r].blocked, failed[r] = {}
                PROVE  /\ requests[r].stage = "final"
                       /\ Evidence(r)
                       /\ matched[r] # "critical" => approvals[r] # "none"
    BY DEF BlockedRecordsWhole, Evidence
  <2>1. pc[r] \notin Locked
    BY DEF IInv, LockInv
  <2>2. requests[r].stage = "final"
    BY <2>1
       DEF IInv, TypeOK, StorageTypeOK, RequestRow, Audits, AuditInv, RowInv, EvidenceInv,
           HasRow
  <2>. QED  BY <2>2 DEF IInv, Audits, AuditInv, PrefixInv
<1>. QED  BY <1>1, InvariantCorrect, PTL

\* A crash only ever cuts off the end of a record.
THEOREM RecordsArePrefixesCorrect == Spec => []RecordsArePrefixes
<1>1. IInv => RecordsArePrefixes
  BY DEF IInv, Audits, AuditInv, PrefixInv, Evidence, RecordsArePrefixes
<1>. QED  BY <1>1, InvariantCorrect, PTL

\* Who has an answer has a closed row.
THEOREM AnsweredIsClosedCorrect == Spec => []AnsweredIsClosed
<1>1. IInv => AnsweredIsClosed
  BY DEF IInv, Audits, AuditInv, AnsweredInv, AnsweredIsClosed
<1>. QED  BY <1>1, InvariantCorrect, PTL

-----------------------------------------------------------------------------
(* Broker implements AuditTrail.                                           *)

\* The broker starts where the abstract trail starts.
LEMMA InitMaps == Init => Trail!Init
  BY DEF Init, Trail!Init, BlockedRequests, SentRequests, Rows, FlaggedRequests, AskedRequests,
     EmptyRequests, EmptyApprovals, NoRow, Dangerous, Evidence

\* The mapping reads matched, upstream and the tables only.
LEMMA MappingKept ==
  /\ UNCHANGED matched => UNCHANGED BlockedRequests
  /\ UNCHANGED upstream => UNCHANGED SentRequests
  /\ UNCHANGED requests => UNCHANGED Rows
  /\ UNCHANGED violations => UNCHANGED FlaggedRequests
  /\ UNCHANGED approvals => UNCHANGED AskedRequests
BY DEF BlockedRequests, Dangerous, SentRequests, Rows, FlaggedRequests, Evidence, AskedRequests

\* An insert of a row opens it, or is refused.
LEMMA StartMaps ==
  ASSUME IInv, NEW r \in Requests, upstream[r] = "idle", UNCHANGED <<matched, upstream>>,
         NEW blocked \in BOOLEAN, NEW severity, InsertsStart(r, blocked, severity),
         blocked <=> Dangerous(r)
  PROVE  [Trail!Next]_(Trail!vars)
<1>1. CASE UNCHANGED requests
  BY <1>1, MappingKept DEF InsertsStart, Fails, tables, Trail!vars
<1>2. CASE ~UNCHANGED requests
  <2>1. /\ requests[r].stage = "absent"
        /\ requests' = [requests EXCEPT ![r] = OpenRow(blocked, severity)]
        /\ UNCHANGED <<violations, approvals>>
    BY <1>2 DEF InsertsStart, InsertRequestStart, HasRow, Fails, tables
  <2>2. Rows' = [Rows EXCEPT ![r] = [stage |-> "open", blocked |-> r \in BlockedRequests]]
    <3>1. blocked = (r \in BlockedRequests)
      BY DEF BlockedRequests
    <3>2. Rows' = [Rows EXCEPT ![r] = [stage |-> "open", blocked |-> blocked]]
      BY <2>1 DEF IInv, TypeOK, StorageTypeOK, Rows, OpenRow
    <3>. QED  BY <3>1, <3>2, Zenon
  <2>3. Trail!Open(r)
    BY <2>1, <2>2, MappingKept DEF Trail!Open, Rows, SentRequests
  <2>. QED  BY <2>3 DEF Trail!Next
<1>. QED  BY <1>1, <1>2

\* Inserting a violation is a Flag of the trail, or a stutter.
LEMMA ViolationMaps ==
  ASSUME IInv, NEW r \in Requests, upstream[r] = "idle", requests[r].stage # "final",
         UNCHANGED <<matched, upstream>>, NEW action, InsertsViolation(r, action)
  PROVE  [Trail!Next]_(Trail!vars)
<1>1. CASE UNCHANGED violations
  BY <1>1, MappingKept DEF InsertsViolation, Fails, tables, Trail!vars
<1>2. CASE ~UNCHANGED violations
  <2>1. /\ requests[r].stage = "open"
        /\ violations' = violations \cup
              {[request |-> r, severity |-> matched[r], action |-> action]}
        /\ UNCHANGED <<requests, approvals>>
    BY <1>2 DEF InsertsViolation, InsertViolation, HasRow, Fails, tables, IInv, TypeOK,
       StorageTypeOK, RequestRow
  <2>2. FlaggedRequests' = FlaggedRequests \cup {r}
    <3>1. Evidence(r)'
      <4>1. [request |-> r, severity |-> matched[r], action |-> action] \in violations'
        BY <2>1
      <4>. QED  BY <4>1 DEF Evidence
    <3>2. ASSUME NEW q \in Requests, q # r  PROVE Evidence(q)' <=> Evidence(q)
      BY <2>1, <3>2 DEF Evidence
    <3>. QED  BY <3>1, <3>2 DEF FlaggedRequests
  <2>3. Trail!Flag(r)
    BY <2>1, <2>2, MappingKept DEF Trail!Flag, Rows, SentRequests
  <2>. QED  BY <2>3 DEF Trail!Next
<1>. QED  BY <1>1, <1>2

\* Inserting an approval request is an Ask of the trail, or a stutter.
LEMMA ApprovalMaps ==
  ASSUME IInv, NEW r \in Requests, requests[r].stage # "final", Dangerous(r),
         UNCHANGED <<matched, upstream>>, InsertsApproval(r)
  PROVE  [Trail!Next]_(Trail!vars)
<1>1. CASE UNCHANGED approvals
  BY <1>1, MappingKept DEF InsertsApproval, Fails, tables, Trail!vars
<1>2. CASE ~UNCHANGED approvals
  <2>1. /\ requests[r].stage = "open"
        /\ approvals' = [approvals EXCEPT ![r] = RiskLevel(matched[r])]
        /\ UNCHANGED <<requests, violations>>
    BY <1>2 DEF InsertsApproval, InsertApprovalRequest, HasRow, Fails, tables, IInv, TypeOK,
       StorageTypeOK, RequestRow
  <2>2. AskedRequests' = AskedRequests \cup {r}
    BY <2>1 DEF AskedRequests, RiskLevel, Dangerous, IInv, TypeOK, StorageTypeOK
  <2>3. Trail!Ask(r)
    BY <2>1, <2>2, MappingKept DEF Trail!Ask, Rows, BlockedRequests
  <2>. QED  BY <2>3 DEF Trail!Next
<1>. QED  BY <1>1, <1>2

\* Completing a row is a Close of the trail, or a stutter.
LEMMA FinalizeMaps ==
  ASSUME IInv, NEW r \in Requests, r \in BlockedRequests \cup SentRequests,
         UNCHANGED <<matched, upstream>>, NEW reason, NEW status, Finalizes(r, reason, status)
  PROVE  [Trail!Next]_(Trail!vars)
<1>1. CASE UNCHANGED requests
  BY <1>1, MappingKept DEF Finalizes, Fails, tables, Trail!vars
<1>2. CASE ~UNCHANGED requests
  <2>1. /\ requests[r].stage = "open"
        /\ requests' = [requests EXCEPT ![r] = FinalRow(requests[r], reason, status)]
        /\ UNCHANGED <<violations, approvals>>
    BY <1>2 DEF Finalizes, FinalizeRequest, Fails, tables
  <2>2. Rows' = [Rows EXCEPT ![r].stage = "final"]
    BY <2>1 DEF IInv, TypeOK, StorageTypeOK, Rows, FinalRow
  <2>3. Trail!Close(r)
    BY <2>1, <2>2, MappingKept DEF Trail!Close, Rows
  <2>. QED  BY <2>3 DEF Trail!Next
<1>. QED  BY <1>1, <1>2

\* A step that leaves the tables alone maps to a send, a block, or nothing.
LEMMA StepMaps ==
  ASSUME IInv, [Next]_vars
  PROVE  [Trail!Next]_(Trail!vars)
<1>. USE DEF GoTo
<1>1. ASSUME NEW r \in Requests
      PROVE  /\ VerdictInv(r) /\ ExchangeInv(r) /\ RowInv(r)
             /\ requests[r].stage \in {"absent", "open", "final"}
  BY DEF IInv, Verdicts, Exchanges, Audits, AuditInv, TypeOK, StorageTypeOK, RequestRow
<1>2. ASSUME NEW r \in Requests, LowInsertStart(r)
      PROVE  [Trail!Next]_(Trail!vars)
  BY <1>1, <1>2, StartMaps
     DEF LowInsertStart, VerdictInv, ExchangeInv, BlockPoints, LowPoints, AllowPoints,
         Dangerous
<1>3. ASSUME NEW r \in Requests, BlockInsertStart(r)
      PROVE  [Trail!Next]_(Trail!vars)
  BY <1>1, <1>3, StartMaps
     DEF BlockInsertStart, VerdictInv, ExchangeInv, BlockPoints, LowPoints, AllowPoints
<1>4. ASSUME NEW r \in Requests, AllowInsertStart(r)
      PROVE  [Trail!Next]_(Trail!vars)
  BY <1>1, <1>4, StartMaps
     DEF AllowInsertStart, VerdictInv, ExchangeInv, BlockPoints, LowPoints, AllowPoints
<1>5. ASSUME NEW r \in Requests, LowInsertViolation(r)
      PROVE  [Trail!Next]_(Trail!vars)
  BY <1>1, <1>5, ViolationMaps
     DEF LowInsertViolation, VerdictInv, ExchangeInv, BlockPoints, LowPoints, AllowPoints,
         RowInv, Locked, Ended
<1>6. ASSUME NEW r \in Requests, BlockInsertViolation(r)
      PROVE  [Trail!Next]_(Trail!vars)
  BY <1>1, <1>6, ViolationMaps
     DEF BlockInsertViolation, VerdictInv, ExchangeInv, BlockPoints, LowPoints, AllowPoints,
         RowInv, Locked, Ended
<1>7. ASSUME NEW r \in Requests, BlockInsertApproval(r)
      PROVE  [Trail!Next]_(Trail!vars)
  BY <1>1, <1>7, ApprovalMaps
     DEF BlockInsertApproval, VerdictInv, ExchangeInv, BlockPoints, LowPoints, AllowPoints,
         RowInv, Locked, Ended
<1>8. ASSUME NEW r \in Requests, BlockFinalize(r)
      PROVE  [Trail!Next]_(Trail!vars)
  BY <1>1, <1>8, FinalizeMaps
     DEF BlockFinalize, VerdictInv, ExchangeInv, BlockPoints, LowPoints, AllowPoints,
         BlockedRequests
<1>9. ASSUME NEW r \in Requests, FinalizeForwarded(r)
      PROVE  [Trail!Next]_(Trail!vars)
  BY <1>1, <1>9, FinalizeMaps
     DEF FinalizeForwarded, VerdictInv, ExchangeInv, BlockPoints, LowPoints, AllowPoints,
         SentRequests
<1>10. ASSUME NEW r \in Requests, AllowInsertPayload(r)
      PROVE  [Trail!Next]_(Trail!vars)
  BY <1>1, <1>10, MappingKept DEF AllowInsertPayload, InsertsPayload, Fails, tables, Trail!vars
<1>11. ASSUME NEW r \in Requests, Send(r)
      PROVE  [Trail!Next]_(Trail!vars)
  <2>1. SentRequests' = SentRequests \cup {r}
    BY <1>11 DEF Send, SentRequests, IInv, TypeOK
  <2>2. r \notin BlockedRequests /\ requests[r].stage # "final"
    BY <1>1, <1>11 DEF Send, BlockedRequests, VerdictInv, AllowPoints, RowInv, Ended
  <2>3. Trail!Send(r)
    BY <1>11, <2>1, <2>2, MappingKept DEF Send, tables, Trail!Send, Rows
  <2>. QED  BY <2>3 DEF Trail!Next
<1>12. ASSUME NEW r \in Requests, NEW severity \in Severity \cup {"none"},
              ReadBodyAndScan(r, severity)
      PROVE  [Trail!Next]_(Trail!vars)
  <2>1. matched[r] = "none" /\ requests[r].stage = "absent" /\ upstream[r] = "idle"
    BY <1>1, <1>12 DEF ReadBodyAndScan, VerdictInv, ExchangeInv, RowInv, HasRow
  <2>2. CASE severity \notin {"critical", "high", "medium"}
    <3>1. UNCHANGED BlockedRequests
      BY <1>12, <2>1, <2>2 DEF ReadBodyAndScan, BlockedRequests, Dangerous, IInv, TypeOK
    <3>. QED  BY <1>12, <3>1, MappingKept DEF ReadBodyAndScan, tables, Trail!vars
  <2>3. CASE severity \in {"critical", "high", "medium"}
    <3>1. BlockedRequests' = BlockedRequests \cup {r} /\ r \notin BlockedRequests
      BY <1>12, <2>1, <2>3 DEF ReadBodyAndScan, BlockedRequests, Dangerous, IInv, TypeOK
    <3>2. r \notin SentRequests /\ Rows[r].stage = "absent"
      BY <2>1 DEF SentRequests, Rows
    <3>3. Trail!Block(r)
      BY <1>12, <3>1, <3>2, MappingKept DEF ReadBodyAndScan, tables, Trail!Block
    <3>. QED  BY <3>3 DEF Trail!Next
  <2>. QED  BY <2>2, <2>3
<1>13. ASSUME NEW r \in Requests, NEW state \in {"answered", "failed"}, UpstreamMoves(r, state)
      PROVE  [Trail!Next]_(Trail!vars)
  <2>1. UNCHANGED SentRequests
    BY <1>13 DEF UpstreamMoves, SentRequests, IInv, TypeOK
  <2>. QED  BY <1>13, <2>1, MappingKept DEF UpstreamMoves, tables, Trail!vars
<1>14. ASSUME NEW r \in Requests, UpstreamTimesOut(r)
      PROVE  [Trail!Next]_(Trail!vars)
  <2>1. UNCHANGED SentRequests
    BY <1>14 DEF UpstreamTimesOut, SentRequests, IInv, TypeOK
  <2>. QED  BY <1>14, <2>1, MappingKept DEF UpstreamTimesOut, tables, Trail!vars
<1>15. ASSUME NEW r \in Requests, ClientGone(r)
      PROVE  [Trail!Next]_(Trail!vars)
  <2>1. UNCHANGED SentRequests
    BY <1>15 DEF ClientGone, SentRequests, IInv, TypeOK
  <2>. QED  BY <1>15, <2>1, MappingKept DEF ClientGone, tables, Trail!vars
<1>16. CASE CrashAndRestart
  <2>1. UNCHANGED SentRequests
    BY <1>16 DEF CrashAndRestart, SentRequests, IInv, TypeOK
  <2>. QED  BY <1>16, <2>1, MappingKept DEF CrashAndRestart, tables, Trail!vars
<1>17. CASE UNCHANGED <<matched, tables, upstream>>
  BY <1>17, MappingKept DEF tables, Trail!vars
<1>. QED
  BY <1>2, <1>3, <1>4, <1>5, <1>6, <1>7, <1>8, <1>9, <1>10, <1>11, <1>12, <1>13, <1>14,
     <1>15, <1>16, <1>17
  DEF Next, HandlerStep, PeerStep, Quiescent, vars, Reject, Accept, ReadBodyPanics, SendPanics,
      ReceiveAnswer, ReceiveError, CollectBody, Reply, StreamEnds

\* Every behaviour of the broker, with failing statements and crashes, is one
\* the audit trail allows.
THEOREM KeepsTheTrailCorrect == Spec => KeepsTheTrail
BY InitMaps, StepMaps, InvariantCorrect, PTL DEF Spec, KeepsTheTrail, Trail!Spec

-----------------------------------------------------------------------------
(* Broker implements Exchange, once for each request.                      *)

\* What a handler's place says of the answer and of the end of its exchange.
OutcomeInv(r) ==
  /\ upstream[r] = "sent" => pc[r] = "await"
  /\ pc[r] \in {"idle", "read_body", "await"} \cup BlockPoints \cup LowPoints \cup AllowPoints
       => response[r] = "none" /\ outcome[r] = "none"
  /\ upstream[r] # "idle" =>
       response[r] \in {"none", "upstream", "bad_gateway", "gateway_timeout"}
  /\ response[r] = "upstream" => upstream[r] = "answered"
  /\ pc[r] = "finalize" /\ response[r] = "upstream" => outcome[r] = "none"
  /\ pc[r] = "reply" /\ response[r] = "upstream" /\ stream_passthrough => outcome[r] = "none"
  /\ pc[r] \in {"buffering", "streaming"} => response[r] = "upstream" /\ outcome[r] = "none"
  /\ pc[r] = "buffering" => ~stream_passthrough

Outcomes == \A r \in Requests : OutcomeInv(r)

\* Every step keeps it.
LEMMA OutcomeNext ==
  ASSUME TypeOK, Verdicts, Exchanges, Outcomes, [Next]_vars
  PROVE  Outcomes'
<1>. USE DEF TypeOK, Verdicts, VerdictInv, Exchanges, ExchangeInv, Outcomes, OutcomeInv,
         BlockPoints, LowPoints, AllowPoints, Running, Awaiting, Locked, Ended, GoTo
<1>1. ASSUME NEW r \in Requests, UNCHANGED stream_passthrough,
             \/ LowInsertStart(r) \/ LowInsertViolation(r) \/ BlockInsertStart(r)
             \/ BlockInsertViolation(r) \/ BlockInsertApproval(r) \/ BlockFinalize(r)
             \/ AllowInsertStart(r) \/ AllowInsertPayload(r) \/ FinalizeForwarded(r)
      PROVE  Outcomes'
  <2>1. CASE LowInsertStart(r)  BY <1>1, <2>1 DEF LowInsertStart
  <2>2. CASE LowInsertViolation(r)  BY <1>1, <2>2 DEF LowInsertViolation
  <2>3. CASE BlockInsertStart(r)  BY <1>1, <2>3 DEF BlockInsertStart
  <2>4. CASE BlockInsertViolation(r)  BY <1>1, <2>4 DEF BlockInsertViolation
  <2>5. CASE BlockInsertApproval(r)  BY <1>1, <2>5 DEF BlockInsertApproval
  <2>6. CASE BlockFinalize(r)  BY <1>1, <2>6 DEF BlockFinalize
  <2>7. CASE AllowInsertStart(r)  BY <1>1, <2>7 DEF AllowInsertStart
  <2>8. CASE AllowInsertPayload(r)  BY <1>1, <2>8 DEF AllowInsertPayload
  <2>9. CASE FinalizeForwarded(r)  BY <1>1, <2>9 DEF FinalizeForwarded
  <2>. QED  BY <1>1, <2>1, <2>2, <2>3, <2>4, <2>5, <2>6, <2>7, <2>8, <2>9
<1>2. ASSUME NEW r \in Requests, UNCHANGED stream_passthrough,
             \/ Send(r) \/ SendPanics(r) \/ ReceiveAnswer(r) \/ ReceiveError(r)
             \/ UpstreamTimesOut(r) \/ Reply(r)
      PROVE  Outcomes'
  <2>1. CASE Send(r) \/ SendPanics(r)  BY <1>2, <2>1 DEF Send, SendPanics
  <2>2. CASE ReceiveAnswer(r) \/ ReceiveError(r)
    BY <1>2, <2>2 DEF ReceiveAnswer, ReceiveError
  <2>3. CASE UpstreamTimesOut(r)  BY <1>2, <2>3 DEF UpstreamTimesOut
  <2>4. CASE Reply(r)  BY <1>2, <2>4 DEF Reply
  <2>. QED  BY <1>2, <2>1, <2>2, <2>3, <2>4
<1>3. ASSUME NEW r \in Requests, PeerStep(r)
      PROVE  Outcomes'
  <2>0. UNCHANGED stream_passthrough
    BY <1>3 DEF PeerStep
  <2>1. ASSUME NEW status \in {"not_found", "bad_gateway"}, Reject(r, status)
        PROVE  Outcomes'
    BY <2>0, <2>1 DEF Reject
  <2>2. CASE Accept(r) \/ ReadBodyPanics(r)
    BY <2>0, <2>2 DEF Accept, ReadBodyPanics
  <2>3. ASSUME NEW severity \in Severity \cup {"none"}, ReadBodyAndScan(r, severity)
        PROVE  Outcomes'
    BY <2>0, <2>3 DEF ReadBodyAndScan, AfterScan
  <2>4. ASSUME NEW state \in {"answered", "failed"}, UpstreamMoves(r, state)
        PROVE  Outcomes'
    BY <2>0, <2>4 DEF UpstreamMoves
  <2>5. ASSUME NEW reason \in TerminalReason, CollectBody(r, reason) \/ StreamEnds(r, reason)
        PROVE  Outcomes'
    BY <2>0, <2>5 DEF CollectBody, StreamEnds
  <2>6. CASE ClientGone(r)
    BY <2>0, <2>6 DEF ClientGone
  <2>. QED  BY <1>3, <2>1, <2>2, <2>3, <2>4, <2>5, <2>6 DEF PeerStep, TerminalReason
<1>4. CASE CrashAndRestart
  BY <1>4 DEF CrashAndRestart
<1>5. CASE UNCHANGED vars
  BY <1>5 DEF vars
<1>. QED  BY <1>1, <1>2, <1>3, <1>4, <1>5 DEF Next, HandlerStep, Quiescent

\* The invariant of the exchanges, beside that of the tables.
THEOREM OutcomesCorrect == Spec => []Outcomes
<1>1. Init => Outcomes
  BY DEF Init, Outcomes, OutcomeInv
<1>2. IInv /\ Outcomes /\ [Next]_vars => Outcomes'
  BY OutcomeNext DEF IInv
<1>. QED  BY <1>1, <1>2, InvariantCorrect, PTL DEF Spec

\* The exchange of q is seen in q's part of the state only.
LEMMA SeenStays ==
  ASSUME NEW q \in Requests, pc'[q] = pc[q], upstream'[q] = upstream[q],
         response'[q] = response[q], outcome'[q] = outcome[q]
  PROVE  UNCHANGED Seen(q)!vars
BY DEF Seen!vars, HeardOf, ShownOf, ReasonOf

\* A step that moves the handler, but not its exchange, unless it crashes.
LEMMA PlaceIsUnseen ==
  ASSUME NEW r \in Requests, pc[r] # "crashed", pc'[r] # "crashed",
         upstream'[r] = upstream[r], outcome'[r] = outcome[r],
         response'[r] = response[r] \/ upstream[r] = "idle"
  PROVE  UNCHANGED Seen(r)!vars
BY DEF Seen!vars, HeardOf, ShownOf, ReasonOf

\* What a step does to the exchange of the request it serves.
LEMMA OwnStepSeen ==
  ASSUME IInv, Outcomes, NEW r \in Requests, HandlerStep(r) \/ PeerStep(r)
  PROVE  [Seen(r)!Next]_(Seen(r)!vars)
<1>. USE DEF GoTo
<1>0. /\ TypeOK /\ OutcomeInv(r) /\ ExchangeInv(r) /\ VerdictInv(r)
  BY DEF IInv, Outcomes, Exchanges, Verdicts
<1>1. CASE LowInsertStart(r) \/ LowInsertViolation(r) \/ BlockInsertStart(r)
           \/ BlockInsertViolation(r) \/ BlockInsertApproval(r) \/ BlockFinalize(r)
  BY <1>0, <1>1, PlaceIsUnseen
     DEF TypeOK, LowInsertStart, LowInsertViolation, BlockInsertStart, BlockInsertViolation,
         BlockInsertApproval, BlockFinalize, ExchangeInv, BlockPoints
<1>2. CASE AllowInsertStart(r) \/ AllowInsertPayload(r) \/ FinalizeForwarded(r)
           \/ SendPanics(r) \/ Reply(r) \/ Accept(r) \/ ReadBodyPanics(r)
  BY <1>0, <1>2, PlaceIsUnseen
     DEF TypeOK, AllowInsertStart, AllowInsertPayload, FinalizeForwarded, SendPanics, Reply,
         Accept, ReadBodyPanics
<1>3. ASSUME NEW severity \in Severity \cup {"none"}, ReadBodyAndScan(r, severity)
      PROVE  UNCHANGED Seen(r)!vars
  BY <1>0, <1>3, PlaceIsUnseen DEF TypeOK, ReadBodyAndScan, AfterScan
<1>4. ASSUME NEW status \in {"not_found", "bad_gateway"}, Reject(r, status)
      PROVE  UNCHANGED Seen(r)!vars
  BY <1>0, <1>4, PlaceIsUnseen DEF TypeOK, Reject, ExchangeInv
<1>5. CASE Send(r)
  BY <1>0, <1>5
     DEF TypeOK, Send, ExchangeInv, OutcomeInv, AllowPoints, Seen!vars, HeardOf, ShownOf, ReasonOf
<1>6. ASSUME NEW state \in {"answered", "failed"}, UpstreamMoves(r, state)
      PROVE  Seen(r)!Next
  <2>1. /\ pc[r] = "await" /\ upstream[r] = "sent" /\ upstream'[r] = state
        /\ response[r] = "none" /\ outcome[r] = "none"
        /\ UNCHANGED <<pc, response, outcome>>
    BY <1>0, <1>6 DEF TypeOK, UpstreamMoves, OutcomeInv
  <2>2. \E what \in {"head", "failure"} : Seen(r)!Hear(what)
    BY <2>1 DEF Seen!Hear, Seen!Waiting, HeardOf, ShownOf, ReasonOf
  <2>. QED  BY <2>2 DEF Seen!Next
<1>7. CASE ReceiveAnswer(r)
  <2>1. /\ pc[r] = "await" /\ upstream[r] = "answered" /\ response[r] = "none"
        /\ outcome[r] = "none" /\ response'[r] = "upstream" /\ pc'[r] = "finalize"
        /\ UNCHANGED <<upstream, outcome>>
    BY <1>0, <1>7 DEF TypeOK, ReceiveAnswer, OutcomeInv
  <2>2. Seen(r)!PassOn
    BY <2>1 DEF Seen!PassOn, Seen!Waiting, HeardOf, ShownOf, ReasonOf
  <2>. QED  BY <2>2 DEF Seen!Next
<1>8. CASE ReceiveError(r)
  <2>1. /\ pc[r] = "await" /\ upstream[r] = "failed" /\ response[r] = "none"
        /\ outcome[r] = "none" /\ response'[r] = "bad_gateway" /\ pc'[r] = "finalize"
        /\ outcome'[r] = "network_error" /\ UNCHANGED upstream
    BY <1>0, <1>8 DEF TypeOK, ReceiveError, OutcomeInv
  <2>2. Seen(r)!GiveUp("failure", "bad_gateway", "network_error")
    BY <2>1 DEF Seen!GiveUp, Seen!Waiting, HeardOf, ShownOf, ReasonOf
  <2>. QED  BY <2>2 DEF Seen!Next
<1>9. CASE UpstreamTimesOut(r)
  <2>1. /\ pc[r] = "await" /\ upstream[r] = "sent" /\ response[r] = "none"
        /\ outcome[r] = "none" /\ response'[r] = "gateway_timeout" /\ pc'[r] = "finalize"
        /\ outcome'[r] = "upstream_timeout" /\ upstream'[r] = "dropped"
    BY <1>0, <1>9 DEF TypeOK, UpstreamTimesOut, OutcomeInv
  <2>2. Seen(r)!GiveUp("nothing", "gateway_timeout", "upstream_timeout")
    BY <2>1 DEF Seen!GiveUp, Seen!Waiting, HeardOf, ShownOf, ReasonOf
  <2>. QED  BY <2>2 DEF Seen!Next
<1>10. ASSUME NEW why \in {"ok", "network_error", "idle_timeout"},
              CollectBody(r, why) \/ StreamEnds(r, why)
       PROVE  Seen(r)!Next
  <2>1. /\ pc[r] \in {"buffering", "streaming"} /\ pc'[r] \in {"reply", "done"}
        /\ response[r] = "upstream" /\ upstream[r] = "answered" /\ outcome[r] = "none"
        /\ outcome'[r] = why /\ UNCHANGED <<upstream, response>>
    BY <1>0, <1>10 DEF TypeOK, CollectBody, StreamEnds, OutcomeInv
  <2>2. Seen(r)!Finish(why)
    BY <2>1 DEF Seen!Finish, HeardOf, ShownOf, ReasonOf
  <2>. QED  BY <2>2 DEF Seen!Next
<1>11. CASE ClientGone(r)
  <2>1. /\ pc[r] \in Awaiting /\ pc'[r] = "dropped" /\ UNCHANGED response
        /\ upstream'[r] = (IF upstream[r] = "sent" THEN "dropped" ELSE upstream[r])
        /\ outcome'[r] = (IF pc[r] = "read_body" THEN outcome[r] ELSE "client_cancelled")
    BY <1>0, <1>11 DEF TypeOK, ClientGone
  <2>2. CASE pc[r] = "read_body"
    BY <1>0, <2>1, <2>2 DEF ExchangeInv, Seen!vars, HeardOf, ShownOf, ReasonOf
  <2>3. CASE pc[r] = "await"
    <3>1. response[r] = "none" /\ outcome[r] = "none"
      BY <1>0, <2>3 DEF OutcomeInv
    <3>2. Seen(r)!Leave
      BY <2>1, <2>3, <3>1 DEF Seen!Leave, Seen!Waiting, HeardOf, ShownOf, ReasonOf
    <3>. QED  BY <3>2 DEF Seen!Next
  <2>4. CASE pc[r] \in {"buffering", "streaming"}
    <3>1. response[r] = "upstream" /\ outcome[r] = "none" /\ upstream[r] = "answered"
      BY <1>0, <2>4 DEF OutcomeInv
    <3>2. Seen(r)!Finish("client_cancelled")
      BY <2>1, <2>4, <3>1 DEF Seen!Finish, HeardOf, ShownOf, ReasonOf
    <3>. QED  BY <3>2 DEF Seen!Next
  <2>. QED  BY <2>1, <2>2, <2>3, <2>4 DEF Awaiting
<1>. QED
  BY <1>1, <1>2, <1>3, <1>4, <1>5, <1>6, <1>7, <1>8, <1>9, <1>10, <1>11
  DEF HandlerStep, PeerStep

\* What it leaves alone: the exchanges of all others.
LEMMA OthersUnseen ==
  ASSUME IInv, NEW r \in Requests, HandlerStep(r) \/ PeerStep(r), NEW q \in Requests, q # r
  PROVE  UNCHANGED Seen(q)!vars
<1>1. /\ pc'[q] = pc[q] /\ upstream'[q] = upstream[q]
      /\ response'[q] = response[q] /\ outcome'[q] = outcome[q]
  BY DEF IInv, TypeOK, GoTo, HandlerStep, PeerStep, LowInsertStart, LowInsertViolation,
     BlockInsertStart, BlockInsertViolation, BlockInsertApproval, BlockFinalize,
     AllowInsertStart, AllowInsertPayload, Send, SendPanics, ReceiveAnswer, ReceiveError,
     UpstreamTimesOut, FinalizeForwarded, Reply, Reject, Accept, ReadBodyAndScan,
     ReadBodyPanics, UpstreamMoves, CollectBody, StreamEnds, ClientGone
<1>. QED  BY <1>1, SeenStays

\* A crash loses the exchanges that are not over, all at once.
LEMMA CrashSeen ==
  ASSUME IInv, Outcomes, CrashAndRestart, NEW q \in Requests
  PROVE  [Seen(q)!Next]_(Seen(q)!vars)
<1>1. /\ pc'[q] = (IF pc[q] \in Running THEN "crashed" ELSE pc[q])
      /\ upstream'[q] = (IF upstream[q] = "sent" THEN "dropped" ELSE upstream[q])
      /\ UNCHANGED <<response, outcome>>
  BY DEF IInv, TypeOK, CrashAndRestart
<1>2. upstream[q] = "sent" => pc[q] = "await"
  BY DEF Outcomes, OutcomeInv
<1>3. pc[q] \in Running => pc[q] # "crashed"
  BY DEF Running, Awaiting, Locked
<1>4. pc[q] = "await" => pc[q] \in Running
  BY DEF Running, Awaiting
<1>5. CASE pc[q] \in Running /\ upstream[q] # "idle" /\ outcome[q] = "none"
  <2>1. Seen(q)!Lose
    BY <1>1, <1>3, <1>5 DEF Seen!Lose, HeardOf, ShownOf, ReasonOf
  <2>. QED  BY <2>1 DEF Seen!Next
<1>6. CASE ~(pc[q] \in Running /\ upstream[q] # "idle" /\ outcome[q] = "none")
  BY <1>1, <1>2, <1>3, <1>4, <1>6 DEF Seen!vars, HeardOf, ShownOf, ReasonOf
<1>. QED  BY <1>5, <1>6

\* Every request's exchange is a proper one.
THEOREM ExchangesAreProperCorrect == Spec => ExchangesAreProper
<1>1. Init => \A r \in Requests : Seen(r)!Init
  BY DEF Init, Seen!Init, HeardOf, ShownOf, ReasonOf
<1>2. IInv /\ Outcomes /\ [Next]_vars
        => [\A r \in Requests : [Seen(r)!Next]_(Seen(r)!vars)]_vars
  <2>. SUFFICES ASSUME IInv, Outcomes, Next, NEW q \in Requests
                PROVE  [Seen(q)!Next]_(Seen(q)!vars)
    OBVIOUS
  <2>1. ASSUME NEW r \in Requests, HandlerStep(r) \/ PeerStep(r)
        PROVE  [Seen(q)!Next]_(Seen(q)!vars)
    BY <2>1, OwnStepSeen, OthersUnseen
  <2>2. CASE CrashAndRestart
    BY <2>2, CrashSeen
  <2>3. CASE Quiescent
    BY <2>3, SeenStays DEF Quiescent, vars
  <2>. QED  BY <2>1, <2>2, <2>3 DEF Next
<1>. QED
  BY <1>1, <1>2, InvariantCorrect, OutcomesCorrect, PTL DEF Spec, ExchangesAreProper

Stories == \A r \in Requests : Seen(r)!OneStory

\* A step of an exchange keeps its story.
LEMMA StoryKept ==
  ASSUME NEW r \in Requests, Seen(r)!OneStory, [Seen(r)!Next]_(Seen(r)!vars)
  PROVE  (Seen(r)!OneStory)'
BY DEF Seen!OneStory, Seen!Next, Seen!vars, Seen!Hear, Seen!PassOn, Seen!GiveUp,
       Seen!Finish, Seen!Leave, Seen!Lose, Seen!Waiting

\* So what each client was given and the reason its audit record gets never
\* disagree, whatever other requests do and though the broker may crash.
THEOREM StoriesCorrect == Spec => []Stories
<1>1. Init => Stories
  BY DEF Init, Stories, Seen!OneStory, HeardOf, ShownOf, ReasonOf
<1>2. Stories /\ [\A r \in Requests : [Seen(r)!Next]_(Seen(r)!vars)]_vars => Stories'
  <2>1. Stories /\ UNCHANGED vars => Stories'
    BY DEF vars, Stories, Seen!OneStory, HeardOf, ShownOf, ReasonOf
  <2>2. Stories /\ (\A r \in Requests : [Seen(r)!Next]_(Seen(r)!vars)) => Stories'
    BY StoryKept DEF Stories
  <2>. QED  BY <2>1, <2>2
<1>. QED  BY <1>1, <1>2, ExchangesAreProperCorrect, PTL DEF Spec, ExchangesAreProper

-----------------------------------------------------------------------------
(* The handlers go on. *)

LEMMA GoesOn ==
  ASSUME TypeOK, Next, NEW r \in Requests
  PROVE  /\ pc'[r] # pc[r] => PlacesLeft(pc'[r]) < PlacesLeft(pc[r])
         /\ HandlerStep(r) => pc'[r] # pc[r]
<1>. DEFINE On == pc'[r] # pc[r] => PlacesLeft(pc'[r]) < PlacesLeft(pc[r])
<1>0. /\ \A place \in Running \cup {"idle"} :
           PlacesLeft(place) \in 1 .. 12 /\ PlacesLeft(place) <= PlacesLeft("idle")
      /\ \A place \in Ended : PlacesLeft(place) = 0
      /\ PlacesLeft("idle") = 12 /\ PlacesLeft("read_body") = 11
      /\ PlacesLeft("low_start") = 10 /\ PlacesLeft("low_violation") = 9
      /\ PlacesLeft("allow_start") = 8 /\ PlacesLeft("allow_payload") = 7
      /\ PlacesLeft("forward") = 6 /\ PlacesLeft("block_start") = 6
      /\ PlacesLeft("await") = 5 /\ PlacesLeft("block_violation") = 5
      /\ PlacesLeft("finalize") = 4 /\ PlacesLeft("block_approval") = 4
      /\ PlacesLeft("buffering") = 3 /\ PlacesLeft("block_finalize") = 3
      /\ PlacesLeft("reply") = 2 /\ PlacesLeft("streaming") = 1
  BY DEF PlacesLeft, Running, Awaiting, Locked, Ended
<1>. USE <1>0 DEF TypeOK, GoTo, Ended
<1>1. ASSUME HandlerStep(r)
      PROVE  PlacesLeft(pc'[r]) < PlacesLeft(pc[r])
  <2>1. CASE LowInsertStart(r) \/ LowInsertViolation(r)
    <3>1. \/ pc[r] = "low_start" /\ pc' = [pc EXCEPT ![r] = "low_violation"]
          \/ pc[r] = "low_violation" /\ pc' = [pc EXCEPT ![r] = "allow_start"]
      BY <2>1, Zenon DEF LowInsertStart, LowInsertViolation
    <3>. QED  BY <3>1
  <2>2. CASE BlockInsertStart(r) \/ BlockInsertViolation(r)
    <3>1. \/ pc[r] = "block_start" /\ pc' = [pc EXCEPT ![r] = "block_violation"]
          \/ /\ pc[r] = "block_violation"
             /\ pc' = [pc EXCEPT ![r] =
                         IF NeedsApproval(matched[r]) THEN "block_approval" ELSE "block_finalize"]
      BY <2>2, Zenon DEF BlockInsertStart, BlockInsertViolation
    <3>. QED  BY <3>1
  <2>3. CASE BlockInsertApproval(r) \/ BlockFinalize(r)
    BY <2>3 DEF BlockInsertApproval, BlockFinalize
  <2>4. CASE AllowInsertStart(r) \/ AllowInsertPayload(r)
    <3>1. \/ /\ pc[r] = "allow_start"
             /\ \/ pc' = [pc EXCEPT ![r] = "allow_payload"]
                \/ pc' = [pc EXCEPT ![r] = "forward"]
          \/ pc[r] = "allow_payload" /\ pc' = [pc EXCEPT ![r] = "forward"]
      BY <2>4, Zenon DEF AllowInsertStart, AllowInsertPayload
    <3>. QED  BY <3>1
  <2>5. CASE Send(r) \/ SendPanics(r)
    BY <2>5 DEF Send, SendPanics
  <2>6. CASE ReceiveAnswer(r) \/ ReceiveError(r) \/ UpstreamTimesOut(r)
    BY <2>6 DEF ReceiveAnswer, ReceiveError, UpstreamTimesOut
  <2>7. CASE FinalizeForwarded(r) \/ Reply(r)
    BY <2>7 DEF FinalizeForwarded, Reply
  <2>. QED  BY <1>1, <2>1, <2>2, <2>3, <2>4, <2>5, <2>6, <2>7 DEF HandlerStep
<1>2. ASSUME PeerStep(r)
      PROVE  On
  <2>1. CASE \E status \in {"not_found", "bad_gateway"} : Reject(r, status)
    BY <2>1 DEF Reject
  <2>2. CASE Accept(r) \/ ReadBodyPanics(r)
    BY <2>2 DEF Accept, ReadBodyPanics
  <2>3. CASE \E severity \in Severity \cup {"none"} : ReadBodyAndScan(r, severity)
    BY <2>3 DEF ReadBodyAndScan, AfterScan
  <2>4. CASE \E state \in {"answered", "failed"} : UpstreamMoves(r, state)
    BY <2>4 DEF UpstreamMoves
  <2>5. CASE \E reason \in {"ok", "network_error", "idle_timeout"} :
               CollectBody(r, reason) \/ StreamEnds(r, reason)
    BY <2>5 DEF CollectBody, StreamEnds
  <2>6. CASE ClientGone(r)
    BY <2>6 DEF ClientGone, Awaiting
  <2>. QED  BY <1>2, <2>1, <2>2, <2>3, <2>4, <2>5, <2>6 DEF PeerStep
<1>3. ASSUME NEW q \in Requests, q # r, HandlerStep(q) \/ PeerStep(q)
      PROVE  pc'[r] = pc[r]
  BY <1>3 DEF HandlerStep, PeerStep, LowInsertStart, LowInsertViolation,
     BlockInsertStart, BlockInsertViolation, BlockInsertApproval, BlockFinalize,
     AllowInsertStart, AllowInsertPayload, Send, SendPanics, ReceiveAnswer, ReceiveError,
     UpstreamTimesOut, FinalizeForwarded, Reply, Reject, Accept, ReadBodyAndScan,
     ReadBodyPanics, UpstreamMoves, CollectBody, StreamEnds, ClientGone
<1>4. ASSUME CrashAndRestart
      PROVE  On
  <2>1. pc'[r] # pc[r] => pc[r] \in Running /\ pc'[r] = "crashed"
    BY <1>4 DEF CrashAndRestart
  <2>. QED  BY <2>1
<1>5. ASSUME Quiescent
      PROVE  On
  BY <1>5 DEF Quiescent, vars
<1>6. HandlerStep(r) => pc'[r] # pc[r]
  <2>1. PlacesLeft(pc[r]) \in Nat
    OBVIOUS
  <2>2. HandlerStep(r) => PlacesLeft(pc'[r]) < PlacesLeft(pc[r])
    BY <1>1
  <2>. QED  BY <2>1, <2>2
<1>7. On
  BY <1>1, <1>2, <1>3, <1>4, <1>5 DEF Next
<1>. QED  BY <1>6, <1>7

\* A handler has at most twelve places to go through, whoever else is served
\* and however its statements fail: none is ever entered twice.
THEOREM NobodyGoesBackCorrect == Spec => NobodyGoesBack
<1>1. TypeOK /\ [Next]_vars =>
        [\A r \in Requests :
           /\ pc'[r] # pc[r] => PlacesLeft(pc'[r]) < PlacesLeft(pc[r])
           /\ HandlerStep(r) => pc'[r] # pc[r]]_vars
  BY GoesOn
<1>. QED  BY <1>1, TypeCorrect, PTL DEF Spec, NobodyGoesBack
=============================================================================
