------------------------------ MODULE GuardProofs ------------------------------
(***************************************************************************)
(* Proofs about the guard, for any lines, callers, requests, sessions and  *)
(* rules.  First those about its store, module ApprovalStore; then those   *)
(* about the server: it is just another caller of the store, and what it   *)
(* tells its client is so.                                                 *)
(***************************************************************************)
EXTENDS Guard, TLAPS

-----------------------------------------------------------------------------
(* The store.                                                               *)

\* Every step keeps the types.
LEMMA TypeNext ==
  ASSUME TypeOK, [Next]_vars
  PROVE  TypeOK'
<1>. USE DEF TypeOK
<1>1. ASSUME NEW id \in Ids, NEW session \in Sessions \cup {None}, NEW rule \in Rules,
             NEW expires_at \in Clocks \cup {None}, CreateRequest(id, session, rule, expires_at)
      PROVE  TypeOK'
  <2>1. [status |-> "pending", session |-> session, rule |-> rule,
         expires_at |-> expires_at] \in ApprovalRequest
    BY DEF ApprovalRequest
  <2>. QED  BY <1>1, <2>1 DEF CreateRequest
<1>2. ASSUME NEW c \in Callers, NEW id \in Ids, NEW action \in Action, Decide(c, id, action)
      PROVE  TypeOK'
  <2>1. store' \in [Ids -> ApprovalRequest]
    <3>1. [store[id] EXCEPT !.status = NewStatus(action)] \in ApprovalRequest
      BY DEF ApprovalRequest, NewStatus
    <3>. QED  BY <1>2, <3>1 DEF Decide
  <2>2. deciding' \in [Callers -> [id : Ids, action : Action] \cup {Idle}]
    BY <1>2 DEF Decide
  <2>3. session_approvals' \in [Sessions -> Rules \cup {None}]
    BY <1>2 DEF Decide, ApprovalRequest
  <2>. QED  BY <1>2, <2>1, <2>2, <2>3 DEF Decide
<1>3. ASSUME NEW c \in Callers, RecordAction(c)
      PROVE  TypeOK'
  <2>1. deciding[c] \in [id : Ids, action : Action]
    BY <1>3 DEF RecordAction
  <2>2. actions' \in [Ids -> Seq(Action)]
    BY <1>3, <2>1 DEF RecordAction
  <2>. QED  BY <1>3, <2>2 DEF RecordAction
<1>4. CASE ExpireTimedOut
  BY <1>4 DEF ExpireTimedOut, ApprovalRequest
<1>5. CASE Tick
  BY <1>5, ClockAssumption DEF Tick, Clocks
<1>6. CASE UNCHANGED vars
  BY <1>6 DEF vars
<1>. QED  BY <1>1, <1>2, <1>3, <1>4, <1>5, <1>6 DEF Next

\* Every variable keeps its type.
THEOREM TypeCorrect == Spec => []TypeOK
<1>1. Init => TypeOK
  BY ClockAssumption DEF Init, TypeOK, Absent, ApprovalRequest, Clocks
<1>. QED  BY <1>1, TypeNext, PTL DEF Spec

-----------------------------------------------------------------------------
(* One record per decision, one request at a time.                         *)

OneRecord(id) ==
  IF Status(id) \in {"approved", "rejected"}
  THEN \/ /\ InFlight(id) = {} /\ Len(actions[id]) = 1
          /\ NewStatus(actions[id][1]) = Status(id)
       \/ /\ actions[id] = <<>>
          /\ \E c \in Callers : /\ InFlight(id) = {c}
                                /\ NewStatus(deciding[c].action) = Status(id)
  ELSE InFlight(id) = {} /\ actions[id] = <<>>

\* A request whose status and records a step leaves alone keeps its one record.
LEMMA OneRecordFrame ==
  ASSUME NEW id \in Ids, OneRecord(id), Status(id)' = Status(id), actions'[id] = actions[id],
         InFlight(id)' = InFlight(id), \A c \in InFlight(id) : deciding'[c] = deciding[c]
  PROVE  OneRecord(id)'
BY DEF OneRecord, NewStatus

\* Every step keeps one record per decision.
LEMMA OneRecordNext ==
  ASSUME TypeOK, OneRecordPerDecision, [Next]_vars
  PROVE  OneRecordPerDecision'
<1>. SUFFICES ASSUME NEW id \in Ids  PROVE OneRecord(id)'
  BY DEF OneRecordPerDecision, OneRecord
<1>0. OneRecord(id)
  BY DEF OneRecordPerDecision, OneRecord
<1>1. ASSUME NEW i \in Ids, NEW session, NEW rule, NEW expires_at,
             CreateRequest(i, session, rule, expires_at)
      PROVE  OneRecord(id)'
  <2>1. InFlight(id)' = InFlight(id) /\ actions' = actions /\ deciding' = deciding
    BY <1>1 DEF CreateRequest, InFlight
  <2>2. CASE i = id
    BY <1>0, <1>1, <2>1, <2>2 DEF CreateRequest, OneRecord, Status, TypeOK
  <2>3. CASE i # id
    <3>1. Status(id)' = Status(id)
      BY <1>1, <2>3 DEF CreateRequest, Status, TypeOK
    <3>. QED  BY <1>0, <2>1, <3>1, OneRecordFrame
  <2>. QED  BY <2>2, <2>3
<1>2. ASSUME NEW c \in Callers, NEW i \in Ids, NEW action \in Action, Decide(c, i, action)
      PROVE  OneRecord(id)'
  <2>0. deciding[c].id = None /\ None # i /\ None # id
    BY <1>2, NoneAssumption DEF Decide, Idle
  <2>1. CASE i = id
    <3>1. /\ Status(id) = "pending" /\ actions' = actions
          /\ Status(id)' = NewStatus(action) /\ deciding'[c].action = action
      BY <1>2, <2>1 DEF Decide, Decidable, Status, TypeOK
    <3>2. InFlight(id) = {} /\ actions[id] = <<>>
      BY <1>0, <3>1 DEF OneRecord
    <3>3. InFlight(id)' = {c}
      BY <1>2, <2>1, <3>2 DEF Decide, InFlight, TypeOK
    <3>. QED  BY <3>1, <3>2, <3>3 DEF OneRecord, NewStatus
  <2>2. CASE i # id
    <3>1. Status(id)' = Status(id) /\ actions' = actions
      BY <1>2, <2>2 DEF Decide, Status, TypeOK
    <3>2. InFlight(id)' = InFlight(id)
      BY <1>2, <2>0, <2>2 DEF Decide, InFlight, TypeOK
    <3>3. \A d \in InFlight(id) : deciding'[d] = deciding[d]
      BY <1>2, <2>0 DEF Decide, InFlight, TypeOK
    <3>. QED  BY <1>0, <3>1, <3>2, <3>3, OneRecordFrame
  <2>. QED  BY <2>1, <2>2
<1>3. ASSUME NEW c \in Callers, RecordAction(c)
      PROVE  OneRecord(id)'
  <2>0. deciding[c].id \in Ids /\ deciding[c].action \in Action /\ deciding'[c] = Idle
    BY <1>3 DEF RecordAction, TypeOK
  <2>1. CASE deciding[c].id = id
    <3>1. c \in InFlight(id)
      BY <2>1 DEF InFlight
    <3>2. /\ actions[id] = <<>> /\ InFlight(id) = {c}
          /\ NewStatus(deciding[c].action) = Status(id)
          /\ Status(id) \in {"approved", "rejected"}
      BY <1>0, <3>1 DEF OneRecord
    <3>3. InFlight(id)' = {}
      BY <1>3, <2>0, <3>2, NoneAssumption DEF RecordAction, InFlight, TypeOK, Idle
    <3>4. actions'[id] = <<deciding[c].action>> /\ Status(id)' = Status(id)
      BY <1>3, <2>0, <2>1, <3>2 DEF RecordAction, TypeOK, Status
    <3>. QED  BY <2>0, <3>2, <3>3, <3>4 DEF OneRecord
  <2>2. CASE deciding[c].id # id
    <3>1. Status(id)' = Status(id) /\ actions'[id] = actions[id]
      BY <1>3, <2>2 DEF RecordAction, Status, TypeOK
    <3>2. InFlight(id)' = InFlight(id)
      BY <1>3, <2>0, <2>2, NoneAssumption DEF RecordAction, InFlight, TypeOK, Idle
    <3>3. \A d \in InFlight(id) : deciding'[d] = deciding[d]
      BY <1>3, <2>2 DEF RecordAction, InFlight, TypeOK
    <3>. QED  BY <1>0, <3>1, <3>2, <3>3, OneRecordFrame
  <2>. QED  BY <2>1, <2>2
<1>4. CASE ExpireTimedOut
  <2>1. /\ InFlight(id)' = InFlight(id) /\ actions' = actions /\ deciding' = deciding
        /\ Status(id)' = (IF Overdue(id) THEN "expired" ELSE Status(id))
    BY <1>4 DEF ExpireTimedOut, InFlight, Status, TypeOK, ApprovalRequest
  <2>2. CASE Overdue(id)
    BY <1>0, <2>1, <2>2 DEF Overdue, OneRecord
  <2>3. CASE ~Overdue(id)
    BY <1>0, <2>1, <2>3, OneRecordFrame
  <2>. QED  BY <2>2, <2>3
<1>5. CASE UNCHANGED <<store, actions, deciding>>
  BY <1>0, <1>5, OneRecordFrame DEF Status, InFlight
<1>. QED  BY <1>1, <1>2, <1>3, <1>4, <1>5 DEF Next, Tick, vars

\* A decided request has exactly one record of it, whatever callers race.
THEOREM OneRecordPerDecisionCorrect == Spec => []OneRecordPerDecision
<1>1. Init => OneRecordPerDecision
  <2>. SUFFICES ASSUME Init, NEW id \in Ids  PROVE OneRecord(id)
    BY DEF OneRecordPerDecision, OneRecord
  <2>1. InFlight(id) = {}
    BY NoneAssumption DEF Init, InFlight, Idle
  <2>2. Status(id) = "absent" /\ actions[id] = <<>>
    BY DEF Init, Status, Absent
  <2>. QED  BY <2>1, <2>2 DEF OneRecord
<1>. QED  BY <1>1, TypeCorrect, OneRecordNext, PTL DEF Spec

-----------------------------------------------------------------------------
(* Session approvals.                                                      *)

\* The text order is the order of numbers while the texts have two digits.
LEMMA TextLessIsLess ==
  ASSUME NEW a \in 10 .. 99, NEW b \in 10 .. 99
  PROVE  TextLess(a, b) <=> a < b
BY DEF TextLess

Source(s, rule, id) ==
  /\ Status(id) = "approved" /\ AllowedForSession(id)
  /\ store[id].session = s /\ store[id].rule = rule

\* A source stays one: its outcome is final and its record is only moved.
LEMMA SourceStays ==
  ASSUME TypeOK, OneRecordPerDecision, [Next]_vars,
         NEW s \in Sessions, NEW rule \in Rules, NEW id \in Ids, Source(s, rule, id)
  PROVE  Source(s, rule, id)'
<1>. USE DEF TypeOK, Status
<1>1. ASSUME NEW i \in Ids, NEW session, NEW r, NEW expires_at,
             CreateRequest(i, session, r, expires_at)
      PROVE  Source(s, rule, id)'
  <2>1. i # id
    BY <1>1 DEF CreateRequest, Source
  <2>2. AllowedForSession(id)'
    BY <1>1 DEF CreateRequest, Source, AllowedForSession, InFlight
  <2>. QED  BY <1>1, <2>1, <2>2 DEF CreateRequest, Source
<1>2. ASSUME NEW c \in Callers, NEW i \in Ids, NEW action \in Action, Decide(c, i, action)
      PROVE  Source(s, rule, id)'
  <2>1. i # id
    BY <1>2 DEF Decide, Decidable, Source
  <2>2. deciding[c].id # id
    BY <1>2, NoneAssumption DEF Decide, Idle
  <2>3. AllowedForSession(id)'
    BY <1>2, <2>2 DEF Decide, Source, AllowedForSession, InFlight
  <2>. QED  BY <1>2, <2>1, <2>3 DEF Decide, Source
<1>3. ASSUME NEW c \in Callers, RecordAction(c)
      PROVE  Source(s, rule, id)'
  <2>1. AllowedForSession(id)'
    <3>1. CASE deciding[c].id = id
      <4>1. actions[id] = <<>> /\ InFlight(id) = {c}
        BY <3>1 DEF OneRecordPerDecision, Source, InFlight
      <4>2. deciding[c].action = "allow_session"
        BY <4>1 DEF Source, AllowedForSession
      <4>3. actions'[id] = <<"allow_session">>
        BY <1>3, <3>1, <4>1, <4>2 DEF RecordAction
      <4>. QED  BY <4>3 DEF AllowedForSession
    <3>2. CASE deciding[c].id # id
      BY <1>3, <3>2 DEF RecordAction, Source, AllowedForSession, InFlight
    <3>. QED  BY <3>1, <3>2
  <2>. QED  BY <1>3, <2>1 DEF RecordAction, Source
<1>4. CASE ExpireTimedOut
  <2>1. ~Overdue(id)
    BY DEF Overdue, Source
  <2>2. AllowedForSession(id)'
    BY <1>4 DEF ExpireTimedOut, Source, AllowedForSession, InFlight
  <2>. QED  BY <1>4, <2>1, <2>2 DEF ExpireTimedOut, Source
<1>5. CASE UNCHANGED <<store, actions, deciding>>
  BY <1>5 DEF Source, AllowedForSession, InFlight
<1>. QED  BY <1>1, <1>2, <1>3, <1>4, <1>5 DEF Next, Tick, vars

\* Every step keeps each session approval with the request it came from.
LEMMA SessionNext ==
  ASSUME TypeOK, OneRecordPerDecision, SessionApprovalHasSource, [Next]_vars
  PROVE  SessionApprovalHasSource'
<1>. SUFFICES ASSUME NEW s \in Sessions, NEW rule \in Rules, IsSessionApproved(s, rule)'
              PROVE  \E id \in Ids : Source(s, rule, id)'
  BY DEF SessionApprovalHasSource, Source
<1>1. CASE IsSessionApproved(s, rule)
  <2>1. PICK id \in Ids : Source(s, rule, id)
    BY <1>1 DEF SessionApprovalHasSource, Source
  <2>. QED  BY <2>1, SourceStays
<1>2. CASE ~IsSessionApproved(s, rule)
  <2>1. PICK c \in Callers, id \in Ids, action \in Action : Decide(c, id, action)
    BY <1>2 DEF Next, CreateRequest, RecordAction, ExpireTimedOut, Tick, vars, IsSessionApproved
  <2>2. action = "allow_session" /\ store[id].session = s /\ store[id].rule = rule
    BY <1>2, <2>1 DEF Decide, ForSession, IsSessionApproved, TypeOK
  <2>3. /\ Status(id)' = "approved" /\ store'[id].session = s /\ store'[id].rule = rule
        /\ deciding'[c] = [id |-> id, action |-> "allow_session"]
    BY <2>1, <2>2 DEF Decide, NewStatus, Status, TypeOK, ApprovalRequest
  <2>4. AllowedForSession(id)'
    BY <2>3 DEF AllowedForSession, InFlight
  <2>. QED  BY <2>3, <2>4 DEF Source
<1>. QED  BY <1>1, <1>2

\* Every session approval goes back to a request the user allowed for it.
THEOREM SessionApprovalHasSourceCorrect == Spec => []SessionApprovalHasSource
<1>1. Init => SessionApprovalHasSource
  BY NoneAssumption DEF Init, SessionApprovalHasSource, IsSessionApproved
<1>. QED  BY <1>1, TypeCorrect, OneRecordPerDecisionCorrect, SessionNext, PTL DEF Spec

\* Every time the store sees is written with two digits.
LEMMA ClocksHaveTwoDigits == \A t \in Clocks : t \in 10 .. 99
  BY ClockAssumption DEF Clocks

\* No outcome is revised, and only what is overdue expires.
THEOREM OutcomesAreFinalCorrect == Spec => OutcomesAreFinal
<1>. DEFINE Final(id) ==
       /\ Status(id) \in {"approved", "rejected", "expired"} => store'[id] = store[id]
       /\ Status(id) # "expired" /\ Status(id)' = "expired" =>
            Status(id) = "pending" /\ store[id].expires_at < clock
<1>1. ASSUME TypeOK, [Next]_vars, NEW id \in Ids
      PROVE  Final(id)
  <2>. USE <1>1 DEF TypeOK, Status
  <2>1. CASE UNCHANGED store
    BY <2>1
  <2>2. ASSUME NEW i \in Ids, NEW session, NEW rule, NEW expires_at,
               CreateRequest(i, session, rule, expires_at)
        PROVE  Final(id)
    BY <2>2 DEF CreateRequest
  <2>3. ASSUME NEW c \in Callers, NEW i \in Ids, NEW action, Decide(c, i, action)
        PROVE  Final(id)
    BY <2>3 DEF Decide, Decidable, NewStatus, ApprovalRequest
  <2>4. CASE ExpireTimedOut
    <3>1. CASE Overdue(id)
      <4>1. clock \in 10 .. 99
        BY ClocksHaveTwoDigits
      <4>2. store[id].expires_at \in Clocks
        BY <3>1 DEF Overdue, ApprovalRequest
      <4>3. store[id].expires_at \in 10 .. 99
        BY <4>2, ClocksHaveTwoDigits
      <4>4. store[id].expires_at < clock
        BY <3>1, <4>1, <4>3, TextLessIsLess DEF Overdue
      <4>. QED  BY <3>1, <4>4 DEF Overdue
    <3>2. CASE ~Overdue(id)
      BY <2>4, <3>2 DEF ExpireTimedOut
    <3>. QED  BY <3>1, <3>2
  <2>. QED  BY <2>1, <2>2, <2>3, <2>4 DEF Next, RecordAction, Tick, vars
<1>2. ASSUME TypeOK, [Next]_vars
      PROVE  \A id \in Ids :
               /\ Status(id) \in {"approved", "rejected", "expired"} => store'[id] = store[id]
               /\ Status(id) # "expired" /\ Status(id)' = "expired" =>
                    Status(id) = "pending" /\ store[id].expires_at < clock
  BY <1>1, <1>2
<1>3. TypeOK /\ [Next]_vars =>
        [\A id \in Ids :
           /\ Status(id) \in {"approved", "rejected", "expired"} => store'[id] = store[id]
           /\ Status(id) # "expired" /\ Status(id)' = "expired" =>
                Status(id) = "pending" /\ store[id].expires_at < clock]_vars
  BY <1>2
<1>. QED  BY <1>3, TypeCorrect, PTL DEF Spec, OutcomesAreFinal

-----------------------------------------------------------------------------
(* The store keeps the register of decisions.                              *)

\* What the register has for the choice on id: the store's one record of it,
\* wherever that is.
ChoiceIs(id) ==
  /\ actions[id] # <<>> => ChosenFor(id) = actions[id][1]
  /\ actions[id] = <<>> /\ InFlight(id) = {} => ChosenFor(id) = "none"
  /\ \A c \in InFlight(id) : actions[id] = <<>> /\ InFlight(id) = {c}
                               /\ ChosenFor(id) = deciding[c].action
  /\ Status(id) \notin {"approved", "rejected"} => actions[id] = <<>> /\ InFlight(id) = {}

LEMMA ChoiceFacts == OneRecordPerDecision => \A id \in Ids : ChoiceIs(id)
<1>. SUFFICES ASSUME OneRecordPerDecision, NEW id \in Ids  PROVE ChoiceIs(id)
  OBVIOUS
<1>1. OneRecord(id)
  BY DEF OneRecordPerDecision, OneRecord
<1>2. \A c \in InFlight(id) : actions[id] = <<>> /\ InFlight(id) = {c}
  BY <1>1 DEF OneRecord
<1>3. InFlight(id) # {} => (CHOOSE c \in InFlight(id) : TRUE) \in InFlight(id)
  OBVIOUS
<1>4. \A c \in InFlight(id) : ChosenFor(id) = deciding[c].action
  BY <1>2, <1>3 DEF ChosenFor
<1>5. /\ actions[id] # <<>> => ChosenFor(id) = actions[id][1]
      /\ actions[id] = <<>> /\ InFlight(id) = {} => ChosenFor(id) = "none"
  BY DEF ChosenFor
<1>6. Status(id) \notin {"approved", "rejected"} => actions[id] = <<>> /\ InFlight(id) = {}
  BY <1>1 DEF OneRecord
<1>. QED  BY <1>2, <1>4, <1>5, <1>6 DEF ChoiceIs

\* The choice on a request a step leaves alone stays.
LEMMA ChoiceFrame ==
  ASSUME NEW id \in Ids, ChoiceIs(id), ChoiceIs(id)', actions'[id] = actions[id],
         InFlight(id)' = InFlight(id), \A c \in InFlight(id) : deciding'[c] = deciding[c]
  PROVE  ChosenFor(id)' = ChosenFor(id)
BY DEF ChoiceIs

\* Every step of the store is one of the register, or none.
LEMMA RegisterStep ==
  ASSUME TypeOK, OneRecordPerDecision, OneRecordPerDecision', [Next]_vars
  PROVE  [Register!Next]_(Register!vars)
<1>0. /\ \A id \in Ids : ChoiceIs(id)
      /\ \A id \in Ids : ChoiceIs(id)'
  <2>1. (OneRecordPerDecision => \A id \in Ids : ChoiceIs(id))'
    BY ChoiceFacts, PTL
  <2>. QED  BY <2>1, ChoiceFacts
<1>1. ASSUME NEW i \in Ids, NEW session, NEW rule, NEW expires_at \in Clocks \cup {None},
             CreateRequest(i, session, rule, expires_at)
      PROVE  Register!Next
  <2>1. /\ Status(i) = "absent" /\ actions' = actions /\ deciding' = deciding /\ clock' = clock
        /\ \A id \in Ids : /\ Status(id)' = IF id = i THEN "pending" ELSE Status(id)
                           /\ store'[id].expires_at =
                                IF id = i THEN expires_at ELSE store[id].expires_at
    BY <1>1 DEF CreateRequest, Status, TypeOK
  <2>2. \A id \in Ids : ChosenFor(id)' = ChosenFor(id)
    BY <1>0, <2>1, ChoiceFrame DEF InFlight
  <2>3. Register!Ask(i)
    BY <2>1, <2>2 DEF Register!Ask
  <2>. QED  BY <2>3 DEF Register!Next
<1>2. ASSUME NEW c \in Callers, NEW i \in Ids, NEW action \in Action, Decide(c, i, action)
      PROVE  Register!Next
  <2>1. /\ Status(i) = "pending" /\ actions' = actions /\ clock' = clock
        /\ \A id \in Ids : /\ Status(id)' = IF id = i THEN NewStatus(action) ELSE Status(id)
                           /\ store'[id].expires_at = store[id].expires_at
    BY <1>2 DEF Decide, Decidable, Status, TypeOK
  <2>2. deciding[c].id = None /\ \A id \in Ids : id # None
    BY <1>2, NoneAssumption DEF Decide, Idle
  <2>3. /\ deciding'[c] = [id |-> i, action |-> action]
        /\ \A d \in Callers : d # c => deciding'[d] = deciding[d]
    BY <1>2 DEF Decide, TypeOK
  <2>4. ChosenFor(i)' = action
    BY <1>0, <2>3 DEF ChoiceIs, InFlight
  <2>5. ASSUME NEW id \in Ids, id # i
        PROVE  ChosenFor(id)' = ChosenFor(id)
    BY <1>0, <2>1, <2>2, <2>3, <2>5, ChoiceFrame DEF InFlight
  <2>6. Register!Choose(i, action)
    BY <2>1, <2>4, <2>5 DEF Register!Choose, Register!Outcome, NewStatus
  <2>. QED  BY <2>6 DEF Register!Next, Action
<1>3. ASSUME NEW c \in Callers, RecordAction(c)
      PROVE  Register!Next
  <2>1. PICK i \in Ids : i = deciding[c].id
    BY <1>3 DEF RecordAction, TypeOK
  <2>2. /\ c \in InFlight(i) /\ actions[i] = <<>> /\ ChosenFor(i) = deciding[c].action
        /\ deciding[c].action \in Action
    BY <1>0, <1>3, <2>1 DEF ChoiceIs, InFlight, RecordAction, TypeOK
  <2>3. /\ UNCHANGED <<store, clock>> /\ deciding' = [deciding EXCEPT ![c] = Idle]
        /\ actions' = [actions EXCEPT ![i] = <<deciding[c].action>>]
    BY <1>3, <2>1, <2>2 DEF RecordAction, TypeOK
  <2>4. actions'[i] = <<deciding[c].action>>
    BY <2>3 DEF TypeOK
  <2>5. ChosenFor(i)' = ChosenFor(i)
    BY <1>0, <2>2, <2>4 DEF ChoiceIs
  <2>6. ASSUME NEW id \in Ids, id # i
        PROVE  ChosenFor(id)' = ChosenFor(id)
    BY <1>0, <2>1, <2>3, <2>6, NoneAssumption, ChoiceFrame DEF InFlight, TypeOK, Idle
  <2>7. Register!WriteDown(i)
    <3>1. ChosenFor(i) # "none"
      BY <2>2 DEF Action
    <3>2. \A id \in Ids : ChosenFor(id)' = ChosenFor(id)
      BY <2>5, <2>6
    <3>. QED  BY <2>2, <2>3, <3>1, <3>2 DEF Register!WriteDown, Status
  <2>. QED  BY <2>7 DEF Register!Next
<1>4. ASSUME ExpireTimedOut
      PROVE  Register!Next
  <2>1. \A id \in Ids : Overdue(id) <=> Register!Late(id)
    <3>. SUFFICES ASSUME NEW id \in Ids, store[id].expires_at # None
                  PROVE  TextLess(store[id].expires_at, clock) <=> store[id].expires_at < clock
      BY DEF Overdue, Register!Late
    <3>1. store[id].expires_at \in Clocks /\ clock \in Clocks
      BY DEF TypeOK, ApprovalRequest
    <3>. QED  BY <3>1, ClocksHaveTwoDigits, TextLessIsLess
  <2>2. /\ actions' = actions /\ deciding' = deciding /\ clock' = clock
        /\ \A id \in Ids : /\ Status(id)' = IF Overdue(id) THEN "expired" ELSE Status(id)
                           /\ store'[id].expires_at = store[id].expires_at
    BY <1>4 DEF ExpireTimedOut, Status, TypeOK, ApprovalRequest
  <2>3. \A id \in Ids : ChosenFor(id)' = ChosenFor(id)
    BY <1>0, <2>2, ChoiceFrame DEF InFlight
  <2>4. \E id \in Ids : Register!Late(id)
    BY <1>4, <2>1 DEF ExpireTimedOut
  <2>5. Register!RunOut
    BY <2>1, <2>2, <2>3, <2>4 DEF Register!RunOut
  <2>. QED  BY <2>5 DEF Register!Next
<1>5. ASSUME Tick
      PROVE  Register!Next
  <2>1. UNCHANGED <<store, actions, deciding>> /\ clock' \in Clocks /\ clock' > clock
    BY <1>5, ClockAssumption DEF Tick, TypeOK, Clocks
  <2>2. \A id \in Ids : ChosenFor(id)' = ChosenFor(id)
    BY <1>0, <2>1, ChoiceFrame DEF InFlight
  <2>3. Register!Pass
    BY <2>1, <2>2 DEF Register!Pass, Status
  <2>. QED  BY <2>3 DEF Register!Next
<1>6. ASSUME UNCHANGED vars
      PROVE  UNCHANGED Register!vars
  <2>1. \A id \in Ids : ChosenFor(id)' = ChosenFor(id)
    BY <1>0, <1>6, ChoiceFrame DEF InFlight, vars
  <2>. QED  BY <1>6, <2>1 DEF Register!vars, Status, vars
<1>. QED  BY <1>1, <1>2, <1>3, <1>4, <1>5, <1>6 DEF Next

\* The store's two locks and racing callers keep to the register of decisions:
\* decide() and the sweep implement it step by step (approval.rs 94-186).
THEOREM RegisterIsKept == Spec => KeepsTheRegister
<1>1. ASSUME Init
      PROVE  Register!Init
  <2>1. \A id \in Ids : /\ Status(id) = "absent" /\ store[id].expires_at = None
                        /\ actions[id] = <<>> /\ InFlight(id) = {}
    BY <1>1, NoneAssumption DEF Init, Status, Absent, InFlight, Idle
  <2>2. \A id \in Ids : ChosenFor(id) = "none"
    BY <2>1 DEF ChosenFor
  <2>3. clock \in Clocks /\ actions = [id \in Ids |-> <<>>]
    BY <1>1, ClockAssumption DEF Init, Clocks
  <2>. QED  BY <2>1, <2>2, <2>3 DEF Register!Init
<1>2. Init => Register!Init
  BY <1>1
<1>3. TypeOK /\ OneRecordPerDecision /\ OneRecordPerDecision' /\ [Next]_vars
        => [Register!Next]_(Register!vars)
  BY RegisterStep
<1>. QED
  BY <1>2, <1>3, TypeCorrect, OneRecordPerDecisionCorrect, PTL
     DEF Spec, KeepsTheRegister, Register!Spec

-----------------------------------------------------------------------------
(* The server. *)

Final == {"approved", "rejected", "expired"}

-----------------------------------------------------------------------------
(* The server uses the store as any caller does.                            *)

LEMMA StepMaps ==
  ASSUME [GuardNext]_gvars
  PROVE  [Next]_vars
<1>1. ASSUME NEW l \in Lines, Handle(l) \/ DecideApproval(l)
      PROVE  [Next]_vars
  <2>1. CASE Handle(l)
    BY <2>1 DEF Handle
  <2>2. CASE DecideApproval(l)
    <3>1. l.approval \in Ids /\ l.action \in Action /\ Server \in Callers
      BY <2>2, ServerAssumption DEF DecideApproval, CanDecide, Understood, Line
    <3> QED
      BY <2>2, <3>1 DEF DecideApproval, Next
  <2> QED
    BY <1>1, <2>1, <2>2
<1>2. CASE RecordDecision
  BY <1>2, ServerAssumption DEF RecordDecision, Next
<1>3. CASE InputEnds
  BY <1>3 DEF InputEnds
<1>4. ASSUME NEW c \in Callers, OtherCaller(c)
      PROVE  [Next]_vars
  BY <1>4 DEF OtherCaller, Next
<1>5. CASE Store
  BY <1>5 DEF Store, Next
<1>6. CASE UNCHANGED gvars
  BY <1>6 DEF gvars
<1> QED
  BY <1>1, <1>2, <1>3, <1>4, <1>5, <1>6 DEF GuardNext

\* Whatever the server does, the store runs as its own module says, so all
\* that is proved of the store holds of the guard (mcp.rs 148-264).
THEOREM ServerUsesTheStore == GuardSpec => Spec
<1>1. GuardInit => Init
  BY DEF GuardInit
<1>2. [GuardNext]_gvars => [Next]_vars
  BY StepMaps
<1> QED
  BY <1>1, <1>2, PTL DEF GuardSpec, Spec

\* So the register is kept with the server at work on the store too.
THEOREM ServerKeepsTheRegister == GuardSpec => KeepsTheRegister
BY ServerUsesTheStore, RegisterIsKept, PTL

-----------------------------------------------------------------------------
(* Types.                                                                  *)

LEMMA NoLineType == NoLine \in Line
BY DEF NoLine, Line, Methods

\* What any answer but a decision says of the store.
LEMMA AnswerFacts ==
  ASSUME TypeOK, NEW l \in Line, ~CanDecide(l), NEW a, a = AnswerTo(l)
  PROVE  /\ a \in Answer /\ a.says # "decided"
         /\ \A id \in a.listed : Status(id) # "absent"
         /\ a.status # "none" => l.approval \in Ids /\ a.status = Status(l.approval)
         /\ a.status # "absent"
         /\ a.says = "not_found" => l.approval \in Ids /\ Status(l.approval) = "absent"
         /\ a.says = "already" => a.status \in Final
         /\ Offered(l) => a.says \in {"pending", "decided", "already", "not_found", "details"}
<1>. USE DEF Answer, Final, Says, SaysStatus
<1>0. ASSUME NEW id \in Ids
      PROVE  Status(id) \in {"absent", "pending", "approved", "rejected", "expired"}
  BY DEF TypeOK, ApprovalRequest, Status
<1>1. CASE l.kind = "garbage"
  BY <1>1 DEF AnswerTo, Offered
<1>2. CASE l.kind = "json" /\ l.method # "tools/call"
  <2>1. l.method \in Methods
    BY DEF Line
  <2> QED
    BY <1>2, <2>1 DEF AnswerTo, HandleRequest, Offered, Methods
<1>3. CASE l.kind = "json" /\ l.method = "tools/call"
  <2>0. a = CallTool(l) /\ l.tool \in Tools \cup {"other"} /\ l.approval \in Ids \cup {None}
    BY <1>3 DEF AnswerTo, HandleRequest, Line
  <2>1. CASE l.tool = "review_pending"
    <3>1. a = ReviewPending
      BY <2>0, <2>1 DEF CallTool
    <3>2. a.says = "pending" /\ a.status = "none" /\ a.listed = ListPending /\ a \in Answer
      BY <3>1 DEF ReviewPending, ListPending
    <3> QED
      BY <3>2 DEF ListPending
  <2>2. CASE l.tool = "show_summary"
    <3>1. a = ShowSummary(l)
      BY <2>0, <2>2 DEF CallTool
    <3> QED
      BY <1>0, <2>0, <2>2, <3>1 DEF ShowSummary, Offered
  <2>3. CASE l.tool = "decide_approval"
    <3>1. a = RefuseDecision(l)
      BY <2>0, <2>3 DEF CallTool
    <3>2. l.approval \in Ids /\ Understood(l.action) => Status(l.approval) # "pending"
      BY <1>3, <2>3, NoneAssumption DEF CanDecide, Decidable
    <3>3. Offered(l) => l.approval # None /\ Understood(l.action)
      BY <2>3 DEF Offered, Understood, Action
    <3> QED
      BY <1>0, <2>0, <3>1, <3>2, <3>3 DEF RefuseDecision
  <2>4. CASE l.tool = "other"
    <3>1. a = Says("unknown_tool")
      BY <2>0, <2>4 DEF CallTool
    <3>2. ~Offered(l)
      BY <2>4 DEF Offered, Tools
    <3> QED
      BY <3>1, <3>2
  <2> QED
    BY <2>0, <2>1, <2>2, <2>3, <2>4 DEF Tools
<1> QED
  BY <1>1, <1>2, <1>3 DEF Line

LEMMA DecidedType ==
  ASSUME NEW l
  PROVE  Decided(l) \in Answer
BY DEF Decided, SaysStatus, NewStatus, Answer

Entry == [line : Line, answer : Answer]

\* Where a reply leaves the loop and what it has told.
LEMMA ReplyStep ==
  ASSUME told \in Seq(Entry), NEW l \in Line, NEW a \in Answer, Reply(l, a)
  PROVE  /\ told' \in Seq(Entry) /\ at' \in {"read", "ended"}
         /\ told' = told \/ told' = Append(told, [line |-> l, answer |-> a])
<1>1. [line |-> l, answer |-> a] \in Entry
  BY DEF Entry
<1> QED
  BY <1>1 DEF Reply

LEMMA GuardTypeNext ==
  ASSUME TypeOK, GuardTypeOK, [GuardNext]_gvars
  PROVE  GuardTypeOK'
<1>. USE DEF GuardTypeOK, Entry
<1>0. Server \in Callers /\ deciding \in [Callers -> [id : Ids, action : Action] \cup {Idle}]
  BY ServerAssumption DEF TypeOK
<1>1. ASSUME NEW l \in Lines, Handle(l)
      PROVE  GuardTypeOK'
  <2>1. l \in Line /\ AnswerTo(l) \in Answer
    BY <1>1, ServerAssumption, AnswerFacts DEF Handle
  <2>2. told' \in Seq(Entry) /\ at' \in {"read", "ended"} /\ at = "read"
    <3>1. Reply(l, AnswerTo(l)) /\ at = "read"
      BY <1>1 DEF Handle, Reads
    <3> QED
      BY <2>1, <3>1, ReplyStep
  <2> QED
    BY <1>1, <2>2 DEF Handle, vars
<1>2. ASSUME NEW l \in Lines, DecideApproval(l)
      PROVE  GuardTypeOK'
  BY <1>0, <1>2, ServerAssumption DEF DecideApproval, Decide
<1>3. CASE RecordDecision
  <2>1. told' \in Seq(Entry) /\ at' \in {"read", "ended"} /\ line' \in Line
    <3>1. Reply(line, Decided(line)) /\ line' = NoLine
      BY <1>3 DEF RecordDecision
    <3> QED
      BY <3>1, DecidedType, NoLineType, ReplyStep
  <2>2. deciding'[Server] = Idle /\ at' # "record"
    BY <1>0, <1>3, <2>1 DEF RecordDecision, RecordAction
  <2> QED
    BY <2>1, <2>2
<1>4. CASE InputEnds
  BY <1>4 DEF InputEnds, vars
<1>5. ASSUME NEW c \in Callers, OtherCaller(c)
      PROVE  GuardTypeOK'
  BY <1>0, <1>5 DEF OtherCaller, Decide, RecordAction, served
<1>6. CASE Store
  <2>1. deciding' = deciding /\ UNCHANGED served
    BY <1>6 DEF Store, CreateRequest, ExpireTimedOut, Tick
  <2> QED
    BY <2>1 DEF served
<1>7. CASE UNCHANGED gvars
  BY <1>7 DEF gvars, vars, served
<1> QED
  BY <1>1, <1>2, <1>3, <1>4, <1>5, <1>6, <1>7 DEF GuardNext

\* The variables of the server keep their types, and it owes the store a
\* record exactly when it stands between the two steps of a decision.
THEOREM GuardTypeCorrect == GuardSpec => []GuardTypeOK
<1>1. GuardInit => GuardTypeOK
  BY NoLineType, ServerAssumption DEF GuardInit, GuardTypeOK, Init
<1>2. GuardSpec => []TypeOK
  BY ServerUsesTheStore, TypeCorrect, PTL
<1> QED
  BY <1>1, <1>2, GuardTypeNext, PTL DEF GuardSpec

-----------------------------------------------------------------------------
(* What is told stays true.                                                *)

\* No step of the store takes a request out, revises an outcome or changes a
\* record.
LEMMA StoreKeeps ==
  ASSUME TypeOK, OneRecordPerDecision, [Next]_vars, NEW id \in Ids
  PROVE  /\ Status(id) # "absent" => Status(id)' # "absent"
         /\ Status(id) \in Final => Status(id)' = Status(id)
         /\ actions[id] # <<>> => actions'[id] = actions[id]
<1>. USE DEF TypeOK, Status, Final
<1>1. CASE UNCHANGED <<store, actions>>
  BY <1>1
<1>2. ASSUME NEW i \in Ids, NEW session, NEW rule, NEW expires_at,
             CreateRequest(i, session, rule, expires_at)
      PROVE  /\ Status(id) # "absent" => Status(id)' # "absent"
             /\ Status(id) \in Final => Status(id)' = Status(id)
             /\ actions' = actions
  BY <1>2 DEF CreateRequest
<1>3. ASSUME NEW c \in Callers, NEW i \in Ids, NEW action, Decide(c, i, action)
      PROVE  /\ Status(id) # "absent" => Status(id)' # "absent"
             /\ Status(id) \in Final => Status(id)' = Status(id)
             /\ actions' = actions
  BY <1>3 DEF Decide, Decidable, NewStatus, ApprovalRequest
<1>4. ASSUME NEW c \in Callers, RecordAction(c)
      PROVE  store' = store /\ (actions[id] # <<>> => actions'[id] = actions[id])
  <2>1. CASE deciding[c].id = id
    BY <1>4, <2>1 DEF RecordAction, OneRecordPerDecision, InFlight
  <2>2. CASE deciding[c].id # id
    BY <1>4, <2>2 DEF RecordAction
  <2> QED
    BY <1>4, <2>1, <2>2 DEF RecordAction
<1>5. ASSUME ExpireTimedOut
      PROVE  /\ Status(id) # "absent" => Status(id)' # "absent"
             /\ Status(id) \in Final => Status(id)' = Status(id)
             /\ actions' = actions
  BY <1>5 DEF ExpireTimedOut, Overdue, ApprovalRequest
<1> QED
  BY <1>1, <1>2, <1>3, <1>4, <1>5 DEF Next, Tick, vars

\* That an answer is true of the store.
Stands(e) ==
  LET id == e.line.approval
  IN  /\ e.answer.says = "decided" =>
           /\ id \in Ids /\ e.answer.status \in Final /\ actions[id] = <<e.line.action>>
      /\ e.answer.status # "none" => id \in Ids /\ Status(id) # "absent"
      /\ e.answer.status \in Final => Status(id) = e.answer.status
      /\ \A i \in e.answer.listed : i \in Ids /\ Status(i) # "absent"
      /\ e.answer.says = "already" => e.answer.status \in Final
      /\ Offered(e.line) =>
           e.answer.says \in {"pending", "decided", "already", "not_found", "details"}

ToldStands == \A i \in DOMAIN told : Stands(told[i])

DecidedOnce ==
  \A i, j \in DOMAIN told :
    Told(i).says = "decided" /\ Told(j).says = "decided" /\ About(i) = About(j) => i = j

LEMMA StandsKeeps ==
  ASSUME TypeOK, OneRecordPerDecision, [Next]_vars, NEW e, Stands(e)
  PROVE  Stands(e)'
<1> DEFINE id == e.line.approval
           a == e.answer
<1>1. \A i \in Ids :
        /\ Status(i) # "absent" => Status(i)' # "absent"
        /\ Status(i) \in Final => Status(i)' = Status(i)
        /\ actions[i] # <<>> => actions'[i] = actions[i]
  BY StoreKeeps
<1>2. a.says = "decided" => id \in Ids /\ a.status \in Final /\ actions'[id] = <<e.line.action>>
  <2>1. a.says = "decided" => id \in Ids /\ a.status \in Final /\ actions[id] = <<e.line.action>>
    BY DEF Stands
  <2>2. <<e.line.action>> # <<>>
    OBVIOUS
  <2> QED
    BY <1>1, <2>1, <2>2
<1>3. a.status # "none" => id \in Ids /\ Status(id)' # "absent"
  BY <1>1 DEF Stands
<1>4. a.status \in Final => Status(id)' = a.status
  <2>1. a.status \in Final => a.status # "none" /\ id \in Ids /\ Status(id) = a.status
    BY DEF Stands, Final
  <2> QED
    BY <1>1, <2>1
<1>5. \A i \in a.listed : i \in Ids /\ Status(i)' # "absent"
  BY <1>1 DEF Stands
<1>6. /\ a.says = "already" => a.status \in Final
      /\ Offered(e.line) => a.says \in {"pending", "decided", "already", "not_found", "details"}
  BY DEF Stands
<1>7. Offered(e.line)' <=> Offered(e.line)
  BY DEF Offered
<1> QED
  BY <1>2, <1>3, <1>4, <1>5, <1>6, <1>7 DEF Stands

\* An answer that stands now, and tells of no decision told before or of an
\* absent request shown before, may be told.
LEMMA TellStep ==
  ASSUME told \in Seq(Entry), ToldStands, DecidedOnce, ShownStaysKnown,
         TypeOK, OneRecordPerDecision, [Next]_vars,
         NEW l \in Line, NEW a \in Answer, Reply(l, a),
         Stands([line |-> l, answer |-> a])',
         a.says = "decided" => actions[l.approval] = <<>>,
         a.says = "not_found" => Status(l.approval) = "absent"
  PROVE  ToldStands' /\ DecidedOnce' /\ ShownStaysKnown'
<1> DEFINE e == [line |-> l, answer |-> a]
<1>0. ASSUME NEW i \in DOMAIN told, told'[i] = told[i]
      PROVE  Stands(told[i])'
  <2>1. PICK g : g = told[i]
    OBVIOUS
  <2>2. Stands(g)
    BY <2>1 DEF ToldStands
  <2>3. Stands(g)'
    BY <2>2, StandsKeeps
  <2> QED
    BY <1>0, <2>1, <2>3
<1>1. CASE told' = told
  <2>1. ToldStands'
    BY <1>0, <1>1 DEF ToldStands
  <2>2. DecidedOnce' /\ ShownStaysKnown'
    BY <1>1 DEF DecidedOnce, ShownStaysKnown, Told, About
  <2> QED
    BY <2>1, <2>2
<1>2. CASE told' = Append(told, e)
  <2>0. e \in Entry
    BY DEF Entry
  <2>9. PICK n \in Nat : n = Len(told) + 1
    OBVIOUS
  <2>1. /\ DOMAIN told = 1 .. n - 1 /\ DOMAIN told' = 1 .. n
        /\ told'[n] = e /\ \A i \in DOMAIN told : told'[i] = told[i]
    BY <1>2, <2>0, <2>9
  <2> HIDE DEF e
  <2>2. ToldStands'
    <3> SUFFICES ASSUME NEW i \in DOMAIN told'
                 PROVE  Stands(told[i])'
      BY DEF ToldStands
    <3>1. CASE i \in DOMAIN told
      BY <1>0, <2>1, <3>1
    <3>2. CASE i = n
      <4>1. Stands(e)'
        BY DEF e
      <4> QED
        BY <2>1, <3>2, <4>1
    <3> QED
      BY <2>1, <3>1, <3>2
  <2>3. \A i \in DOMAIN told : Stands(told[i])
    BY DEF ToldStands
  <2>4. DecidedOnce'
    <3>1. \A i \in DOMAIN told : Told(i).says = "decided" /\ About(i) = l.approval => a.says # "decided"
      <4> TAKE i \in DOMAIN told
      <4>1. Told(i).says = "decided" => actions[About(i)] = <<told[i].line.action>>
        BY <2>3 DEF Stands, Told, About
      <4>2. <<told[i].line.action>> # <<>>
        OBVIOUS
      <4> QED
        BY <4>1, <4>2
    <3>2. /\ \A i \in DOMAIN told : Told(i)' = Told(i) /\ About(i)' = About(i)
          /\ Told(n)' = a /\ About(n)' = l.approval
      BY <2>1 DEF Told, About, e
    <3> SUFFICES ASSUME NEW i \in DOMAIN told', NEW j \in DOMAIN told',
                        Told(i)'.says = "decided", Told(j)'.says = "decided", About(i)' = About(j)'
                 PROVE  i = j
      BY DEF DecidedOnce
    <3>3. CASE i \in DOMAIN told /\ j \in DOMAIN told
      BY <3>2, <3>3 DEF DecidedOnce
    <3>4. CASE i = n \/ j = n
      BY <2>1, <3>1, <3>2, <3>4
    <3> QED
      BY <2>1, <3>3, <3>4
  <2>5. ShownStaysKnown'
    <3>1. ASSUME NEW i \in DOMAIN told,
                 l.approval \in Told(i).listed \/ (About(i) = l.approval /\ Told(i).status # "none")
          PROVE  a.says # "not_found"
      <4>1. Status(l.approval) # "absent"
        BY <2>3, <3>1 DEF Stands, Told, About
      <4> QED
        BY <4>1
    <3>2. a.says = "already" => a.status \in Final
      BY DEF Stands
    <3>3. /\ \A i \in DOMAIN told : Told(i)' = Told(i) /\ About(i)' = About(i)
          /\ Told(n)' = a /\ About(n)' = l.approval
      BY <2>1 DEF Told, About, e
    <3> SUFFICES ASSUME NEW i \in DOMAIN told', NEW j \in DOMAIN told', i < j,
                        About(j)' \in Told(i)'.listed
                          \/ (About(i)' = About(j)' /\ Told(i)'.status # "none")
                 PROVE  /\ Told(j)'.says # "not_found"
                        /\ Told(j)'.says = "already" =>
                             Told(j)'.status \in {"approved", "rejected", "expired"}
      BY DEF ShownStaysKnown
    <3>4. CASE j \in DOMAIN told
      <4>1. i \in DOMAIN told
        BY <2>1, <3>4
      <4> QED
        BY <3>3, <3>4, <4>1 DEF ShownStaysKnown
    <3>5. CASE j = n
      <4>1. i \in DOMAIN told
        BY <2>1, <3>5
      <4> QED
        BY <3>1, <3>2, <3>3, <3>5, <4>1 DEF Final
    <3> QED
      BY <2>1, <3>4, <3>5
  <2> QED
    BY <2>2, <2>4, <2>5
<1> QED
  BY <1>1, <1>2, ReplyStep

\* A step that tells nothing.
LEMMA QuietStep ==
  ASSUME ToldStands, DecidedOnce, ShownStaysKnown, TypeOK, OneRecordPerDecision, [Next]_vars,
         told' = told
  PROVE  ToldStands' /\ DecidedOnce' /\ ShownStaysKnown'
<1>1. ASSUME NEW i \in DOMAIN told
      PROVE  Stands(told[i])'
  <2>1. PICK g : g = told[i]
    OBVIOUS
  <2>2. Stands(g)
    BY <2>1 DEF ToldStands
  <2>3. Stands(g)'
    BY <2>2, StandsKeeps
  <2> QED
    BY <2>1, <2>3
<1>2. ToldStands'
  BY <1>1 DEF ToldStands
<1>3. DecidedOnce' /\ ShownStaysKnown'
  BY DEF DecidedOnce, ShownStaysKnown, Told, About
<1> QED
  BY <1>2, <1>3

LEMMA ToldNext ==
  ASSUME TypeOK, OneRecordPerDecision, GuardTypeOK, [GuardNext]_gvars,
         ToldStands, DecidedOnce, ShownStaysKnown
  PROVE  ToldStands' /\ DecidedOnce' /\ ShownStaysKnown'
<1>0. [Next]_vars /\ told \in Seq(Entry)
  BY StepMaps DEF GuardTypeOK, Entry
<1>1. ASSUME NEW l \in Lines, Handle(l)
      PROVE  ToldStands' /\ DecidedOnce' /\ ShownStaysKnown'
  <2>1. PICK a : a = AnswerTo(l)
    OBVIOUS
  <2>2. l \in Line /\ ~CanDecide(l) /\ Reply(l, a) /\ UNCHANGED vars
    BY <1>1, <2>1, ServerAssumption DEF Handle
  <2>3. /\ a \in Answer /\ a.says # "decided"
        /\ \A id \in a.listed : Status(id) # "absent"
        /\ a.status # "none" => l.approval \in Ids /\ a.status = Status(l.approval)
        /\ a.status # "absent"
        /\ a.says = "not_found" => l.approval \in Ids /\ Status(l.approval) = "absent"
        /\ a.says = "already" => a.status \in Final
        /\ Offered(l) => a.says \in {"pending", "decided", "already", "not_found", "details"}
    BY <2>1, <2>2, AnswerFacts
  <2>4. \A id \in a.listed : id \in Ids
    BY <2>3 DEF Answer
  <2>5. Stands([line |-> l, answer |-> a])
    BY <2>3, <2>4 DEF Stands, Final
  <2>6. Stands([line |-> l, answer |-> a])'
    <3>1. PICK e : e = [line |-> l, answer |-> a]
      OBVIOUS
    <3> QED
      BY <1>0, <2>5, <3>1, StandsKeeps
  <2> QED
    BY <1>0, <2>2, <2>3, <2>6, TellStep
<1>2. CASE RecordDecision
  <2>1. PICK l : l = line
    OBVIOUS
  <2>2. PICK a : a = Decided(l)
    OBVIOUS
  <2>3. /\ at = "record" /\ RecordAction(Server) /\ Reply(l, a)
        /\ l \in Line /\ a \in Answer
        /\ deciding[Server] = [id |-> l.approval, action |-> l.action]
    BY <1>2, <2>1, <2>2, DecidedType DEF RecordDecision, GuardTypeOK
  <2>4. l.approval \in Ids /\ l.action \in Action /\ Server \in InFlight(l.approval)
    BY <2>3, ServerAssumption DEF TypeOK, RecordAction, InFlight
  <2>5. /\ actions[l.approval] = <<>> /\ Status(l.approval) = NewStatus(l.action)
        /\ Status(l.approval) \in {"approved", "rejected"}
    BY <2>3, <2>4 DEF OneRecordPerDecision
  <2>6. actions'[l.approval] = <<l.action>> /\ Status(l.approval)' = Status(l.approval)
    <3>1. deciding[Server].id = l.approval /\ deciding[Server].action = l.action
      BY <2>3
    <3>2. actions' = [actions EXCEPT ![l.approval] = Append(@, l.action)] /\ store' = store
      BY <2>3, <3>1 DEF RecordAction
    <3>3. Append(<<>>, l.action) = <<l.action>>
      BY <2>4
    <3> QED
      BY <2>4, <2>5, <3>2, <3>3 DEF TypeOK, Status
  <2>7. a.says = "decided" /\ a.listed = {} /\ a.status = NewStatus(l.action)
    BY <2>2 DEF Decided, SaysStatus
  <2>8. Stands([line |-> l, answer |-> a])'
    BY <2>4, <2>5, <2>6, <2>7 DEF Stands, Final
  <2> QED
    BY <1>0, <2>3, <2>5, <2>7, <2>8, TellStep
<1>3. CASE told' = told
  BY <1>0, <1>3, QuietStep
<1>4. (\E l \in Lines : DecideApproval(l)) \/ InputEnds \/ (\E c \in Callers : OtherCaller(c))
        \/ Store \/ UNCHANGED gvars
      => told' = told
  BY DEF DecideApproval, InputEnds, OtherCaller, Store, served, gvars
<1> QED
  BY <1>1, <1>2, <1>3, <1>4 DEF GuardNext

LEMMA ToldInvariance == GuardSpec => [](ToldStands /\ DecidedOnce /\ ShownStaysKnown)
<1>1. GuardInit => ToldStands /\ DecidedOnce /\ ShownStaysKnown
  BY DEF GuardInit, ToldStands, DecidedOnce, ShownStaysKnown
<1>2. GuardSpec => []TypeOK /\ []OneRecordPerDecision
  BY ServerUsesTheStore, TypeCorrect, OneRecordPerDecisionCorrect, PTL
<1> QED
  BY <1>1, <1>2, GuardTypeCorrect, ToldNext, PTL DEF GuardSpec

\* Every answer about a decision or an outcome is true, and stays so while
\* other callers decide and requests expire (mcp.rs 199-264).
THEOREM ToldOutcomesStandCorrect == GuardSpec => []ToldOutcomesStand
<1>1. ToldStands /\ DecidedOnce => ToldOutcomesStand
  BY DEF ToldStands, DecidedOnce, ToldOutcomesStand, Stands, Told, About, Final
<1> QED
  BY <1>1, ToldInvariance, PTL

\* A request once shown is not lost (mcp.rs 176-197, 217-220, 234-237).
THEOREM ShownStaysKnownCorrect == GuardSpec => []ShownStaysKnown
BY ToldInvariance, PTL

\* tools/list offers only what the tools accept (mcp.rs 96-157, 200-215).
THEOREM OfferedIsUnderstoodCorrect == GuardSpec => []OfferedIsUnderstood
<1>1. ToldStands => OfferedIsUnderstood
  BY DEF ToldStands, OfferedIsUnderstood, Stands, Told
<1> QED
  BY <1>1, ToldInvariance, PTL
================================================================================
