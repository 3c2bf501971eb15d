---------------------------- MODULE AuditStorage ----------------------------
(***************************************************************************)
(* The broker's SQLite audit database (apps/broker/src/storage.rs and the  *)
(* row operations in apps/broker/src/audit.rs).                            *)
(*                                                                         *)
(* The module holds no state.  A table is a value, a storage call is an    *)
(* operator from the tables it reads to the table it leaves, and a call    *)
(* that SQLite refuses (a primary key that exists, a foreign key that does *)
(* not) leaves its table alone, as the callers ignore the error.           *)
(* Each call is one autocommit statement (finalize_request is one          *)
(* transaction), so it is atomic and survives a crash of the process.      *)
(*                                                                         *)
(* request_id, a fresh UUID per handled request, is the request itself.    *)
(* Columns that no property tells apart (runtime, path, latency, ...) are  *)
(* left out.                                                               *)
(***************************************************************************)

CONSTANT Requests     \* the requests the broker handles, one request_id each

\* TerminalReason, with the text as_str() stores.
TerminalReason ==
  {"ok", "client_cancelled", "upstream_timeout", "idle_timeout", "network_error"}

\* response_status: an upstream's own status, the configured block status,
\* or one of the two the broker synthesises; NULL when none is passed.
ResponseStatus == {"upstream", "block", "bad_gateway", "gateway_timeout", "null"}

Severity == {"critical", "high", "medium", "low", "unrecognised"}

\* A row of `requests`.  stage is "open" once the row is inserted and "final"
\* once completed_at is set.
RequestRow ==
  [stage    : {"absent", "open", "final"},
   blocked  : BOOLEAN,
   severity : Severity \cup {"null"},
   reason   : TerminalReason \cup {"null"},
   status   : ResponseStatus]

NoRow == [stage |-> "absent", blocked |-> FALSE, severity |-> "null",
          reason |-> "null", status |-> "null"]

Violation == [request : Requests, severity : Severity, action : {"logged", "blocked"}]

\* approval_requests, at most one per request: its risk_level, or "none".
\* status is "pending" in every row the broker writes.
ApprovalRisk == {"none", "critical", "high", "medium", "low"}

EmptyRequests  == [r \in Requests |-> NoRow]
EmptyApprovals == [r \in Requests |-> "none"]

HasRow(requests, r) == requests[r].stage # "absent"

\* The row an insert leaves, and the same row completed.
OpenRow(blocked, severity) ==
  [stage |-> "open", blocked |-> blocked, severity |-> severity,
   reason |-> "null", status |-> "null"]

FinalRow(row, reason, status) ==
  [stage |-> "final", blocked |-> row.blocked, severity |-> row.severity,
   reason |-> reason, status |-> status]

\* INSERT INTO requests: refused when the primary key exists.
InsertRequestStart(requests, r, blocked, severity) ==
  IF HasRow(requests, r)
  THEN requests
  ELSE [requests EXCEPT ![r] = OpenRow(blocked, severity)]

\* Mutant: INSERT OR REPLACE, which forgets the columns it does not name.
FinalizeByReplacing(requests, r, reason, status) ==
  IF requests[r].stage = "open"
  THEN [requests EXCEPT ![r] = FinalRow(NoRow, reason, status)]
  ELSE requests

\* UPDATE requests ... WHERE completed_at IS NULL: a missing or completed row
\* is an error and the transaction is rolled back.
FinalizeRequest(requests, r, reason, status) ==
  IF requests[r].stage = "open"
  THEN [requests EXCEPT ![r] = FinalRow(requests[r], reason, status)]
  ELSE requests

\* INSERT INTO violations: its foreign key needs the request's row.
InsertViolation(requests, violations, r, severity, action) ==
  IF HasRow(requests, r)
  THEN violations \cup {[request |-> r, severity |-> severity, action |-> action]}
  ELSE violations

\* INSERT INTO approval_requests, status "pending": same foreign key.
InsertApprovalRequest(requests, approvals, r, risk) ==
  IF HasRow(requests, r) THEN [approvals EXCEPT ![r] = risk] ELSE approvals

\* INSERT INTO request_payloads: same foreign key, request_id is the key.
InsertRequestPayload(requests, payloads, r) ==
  IF HasRow(requests, r) THEN payloads \cup {r} ELSE payloads
=============================================================================
