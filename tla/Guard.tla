--------------------------------- MODULE Guard ---------------------------------
(***************************************************************************)
(* The guard's MCP server (apps/guard/src/mcp.rs): a loop that reads a     *)
(* line of JSON-RPC from stdin, handles it and writes the answer, one line *)
(* at a time.  Its tools work on an ApprovalStore, which is shared (an     *)
(* Arc): the server is one of the store's callers.                         *)
(*                                                                         *)
(* Blank lines change nothing and are left out, and so are the wording of  *)
(* answers, the JSON-RPC id an answer takes over from its line, and the    *)
(* fields of a request the store does not look at.                         *)
(***************************************************************************)
EXTENDS ApprovalStore

CONSTANTS
  Server,     \* the thread of the MCP server
  Lines,      \* the lines that may come in
  MaxAnswers  \* bound: the tool calls the server answers

Methods == {"initialize", "notifications/initialized", "tools/list", "tools/call", "other"}
Tools   == {"review_pending", "decide_approval", "show_summary"}

\* A line, by its kind (JSON or not) and what handle_request and the tools
\* read of it; "other" is a text the code does not know, None one not there.
Line ==
  [kind : {"json", "garbage"}, method : Methods, tool : Tools \cup {"other"},
   approval : Ids \cup {None}, action : Action \cup {"other"}]

NoLine == [kind |-> "json", method |-> "other", tool |-> "other", approval |-> None,
           action |-> "other"]

ASSUME ServerAssumption ==
  /\ Server \in Callers
  /\ Lines \subseteq Line
  /\ MaxAnswers \in Nat

VARIABLES
  at,    \* where the loop is: reading, about to record a decision, or ended
  line,  \* the line whose decision it has to record, or NoLine
  told   \* the tool calls answered, with their answers

served == <<at, line, told>>
gvars  == <<vars, served>>

\* What an answer says, and the requests it lists or the status it gives.
Answer ==
  [says : {"nothing", "parse_error", "unknown_method", "hello", "tools", "unknown_tool",
           "missing_approval", "invalid_action", "not_found", "already", "pending", "decided",
           "details"},
   listed : SUBSET Ids, status : {"none", "pending", "approved", "rejected", "expired"}]

Says(says) == [says |-> says, listed |-> {}, status |-> "none"]
SaysStatus(says, status) == [says |-> says, listed |-> {}, status |-> status]
\* Mutants: the answer gives the action for the status; any decision is an approval.
DecidedAction(l) == SaysStatus("decided", l.action)
DecidedApproved(l) == SaysStatus("decided", "approved")
Decided(l) == SaysStatus("decided", NewStatus(l.action))

GuardInit ==
  /\ Init
  /\ at = "read" /\ line = NoLine /\ told = <<>>

-----------------------------------------------------------------------------
(* The tools, as AnswerTo a line in the state the call finds the store in.  *)

ReviewPending == [says |-> "pending", listed |-> ListPending, status |-> "none"]

ShowSummary(l) ==
  IF l.approval = None THEN Says("missing_approval")
  ELSE IF Status(l.approval) = "absent" THEN Says("not_found")
  ELSE SaysStatus("details", Status(l.approval))

Understood(action) == action \in Action

\* decide_approval, when it does not get to decide.
RefuseDecision(l) ==
  IF l.approval = None THEN Says("missing_approval")
  ELSE IF ~Understood(l.action) THEN Says("invalid_action")
  ELSE IF Status(l.approval) = "absent" THEN Says("not_found")
  ELSE SaysStatus("already", Status(l.approval))

\* The call of a tool whose work is one look at the store.
CallTool(l) ==
  CASE l.tool = "review_pending"  -> ReviewPending
    [] l.tool = "decide_approval" -> RefuseDecision(l)
    [] l.tool = "show_summary"    -> ShowSummary(l)
    [] l.tool = "other"           -> Says("unknown_tool")

HandleRequest(l) ==
  CASE l.method = "initialize"                -> Says("hello")
    [] l.method = "notifications/initialized" -> Says("nothing")
    [] l.method = "tools/list"                -> Says("tools")
    [] l.method = "tools/call"                -> CallTool(l)
    [] l.method = "other"                     -> Says("unknown_method")

AnswerTo(l) == IF l.kind = "garbage" THEN Says("parse_error") ELSE HandleRequest(l)

\* What tools/list offers: the calls it describes.
Offered(l) ==
  /\ l.kind = "json" /\ l.method = "tools/call" /\ l.tool \in Tools
  /\ l.tool \in {"decide_approval", "show_summary"} => l.approval # None
  /\ l.tool = "decide_approval" => l.action \in {"allow_once", "allow_session", "block"}

-----------------------------------------------------------------------------
(* The loop.  Reading a line and writing the answer touch nothing that is  *)
(* shared, so they are one step with what the line does to the store.      *)

\* The answer is written; or stdout is closed, and the server ends.
Reply(l, answer) ==
  \/ /\ at' = "read"
     /\ told' = IF l.method = "tools/call" THEN Append(told, [line |-> l, answer |-> answer])
                ELSE told
  \/ at' = "ended" /\ UNCHANGED told

CanDecide(l) ==
  /\ l.kind = "json" /\ l.method = "tools/call" /\ l.tool = "decide_approval"
  /\ l.approval # None /\ Understood(l.action) /\ Decidable(l.approval)

Reads(l) == at = "read" /\ (l.method = "tools/call" => Len(told) < MaxAnswers)

\* Every line but a decision: one look at the store, under its lock.
Handle(l) ==
  /\ Reads(l) /\ ~CanDecide(l)
  /\ Reply(l, AnswerTo(l))
  /\ UNCHANGED <<vars, line>>

\* decide_approval: decide() in its two steps.
DecideApproval(l) ==
  /\ Reads(l) /\ CanDecide(l)
  /\ Decide(Server, l.approval, l.action)
  /\ at' = "record" /\ line' = l
  /\ UNCHANGED told

RecordDecision ==
  /\ at = "record"
  /\ RecordAction(Server)
  /\ Reply(line, Decided(line))
  /\ line' = NoLine

\* The end of stdin, or a line that is not UTF-8: the process ends, and the
\* store with it.
InputEnds ==
  /\ at = "read"
  /\ at' = "ended"
  /\ UNCHANGED <<vars, line, told>>

\* The other users of the store.
OtherCaller(c) ==
  /\ at # "ended" /\ c # Server
  /\ \/ \E id \in Ids, action \in Action : Decide(c, id, action)
     \/ RecordAction(c)
  /\ UNCHANGED served

Store ==
  /\ at # "ended"
  /\ \/ \E id \in Ids, session \in Sessions \cup {None}, rule \in Rules,
           expires_at \in Clocks \cup {None} : CreateRequest(id, session, rule, expires_at)
     \/ ExpireTimedOut
     \/ Tick
  /\ UNCHANGED served

GuardNext ==
  \/ \E l \in Lines : Handle(l) \/ DecideApproval(l)
  \/ RecordDecision
  \/ InputEnds
  \/ \E c \in Callers : OtherCaller(c)
  \/ Store

GuardSpec == GuardInit /\ [][GuardNext]_gvars

-----------------------------------------------------------------------------
(* Properties. *)

GuardTypeOK ==
  /\ at \in {"read", "record", "ended"}
  /\ line \in Line
  /\ told \in Seq([line : Line, answer : Answer])
  /\ deciding[Server] = IF at = "record" THEN [id |-> line.approval, action |-> line.action]
                         ELSE Idle

Told(i) == told[i].answer
About(i) == told[i].line.approval

\* What the server has told stays true: the decision it reports is the one the
\* store has and has recorded, an outcome it gives, its own or one another
\* caller or the clock came first with, never changes, and no two answers
\* claim the decision of one request (mcp.rs 199-226, 228-264).
ToldOutcomesStand ==
  /\ \A i \in DOMAIN told :
       /\ Told(i).says = "decided" =>
            Status(About(i)) = Told(i).status /\ actions[About(i)] = <<told[i].line.action>>
       /\ Told(i).status \in {"approved", "rejected", "expired"} =>
            Status(About(i)) = Told(i).status
  /\ \A i, j \in DOMAIN told :
       Told(i).says = "decided" /\ Told(j).says = "decided" /\ About(i) = About(j) => i = j

\* A request the server has shown stays known to it: once it has been listed,
\* detailed or decided, no later answer says it is not found, and a decision
\* about it fails only because its outcome has come (176-197, 217-220).
ShownStaysKnown ==
  \A i, j \in DOMAIN told :
    /\ i < j
    /\ About(j) \in Told(i).listed \/ (About(i) = About(j) /\ Told(i).status # "none")
    => /\ Told(j).says # "not_found"
       /\ Told(j).says = "already" => Told(j).status \in {"approved", "rejected", "expired"}

\* What tools/list offers, tools/call and the tools understand (96-146
\* against 152-157 and 200-215): a call as described never comes back as an
\* unknown tool or action or with an argument missing.
OfferedIsUnderstood ==
  \A i \in DOMAIN told : Offered(told[i].line) =>
    Told(i).says \in {"pending", "decided", "already", "not_found", "details"}
================================================================================
