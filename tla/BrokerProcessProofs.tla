-------------------------- MODULE BrokerProcessProofs --------------------------
(***************************************************************************)
(* Proofs about BrokerProcess, for any number of start and stop commands   *)
(* and any script that makes the schema.  The inductive invariant Inv adds *)
(* to the properties what a process has behind it: every statement before  *)
(* the one it is at has its effect in the database, its own doing or not.  *)
(***************************************************************************)
EXTENDS BrokerProcess, TLAPS, FiniteSetTheorems

Done(statement) ==
  IF statement.op = "create" THEN statement.table \in tables
  ELSE <<statement.table, statement.column>> \in columns

\* Whatever a process has executed is in the database.
ScriptIsRun == \A p \in Starts : \A k \in 1 .. at[p] - 1 : Done(Script[k])

\* One process at most serves, and it has been through the whole script.
OneServer ==
  /\ \A p \in Serving : at[p] = Len(Script) + 1
  /\ \A p, q \in Serving : p = q

\* A command that has not spawned, or will not, has no process.
NotSpawned ==
  \A c \in Starts : start[c] \in {"idle", "spawn", "already_running", "error"} => proc[c] = "none"

\* Without interference a process ends only because another has the port.
EndedByAnother == Undisturbed /\ (\E p \in Starts : proc[p] = "exited") => Serving # {}

Inv == TypeOK /\ ScriptIsRun /\ OneServer /\ NotSpawned /\ EndedByAnother /\ ReportsHold

-----------------------------------------------------------------------------
(* The script and the schema.                                              *)

\* A statement of the script is a CREATE of a table of this version or an
\* ALTER of one of its columns.
LEMMA StatementType ==
  ASSUME NEW k \in DOMAIN Script
  PROVE  /\ Script[k] \in Statement
         /\ Script[k].op = "create" => Script[k].table \in Tables
         /\ Script[k].op = "add_column" =>
              /\ <<Script[k].table, Script[k].column>> \in NewColumns
              /\ \E j \in 1 .. k - 1 : Script[j] = Create(Script[k].table)
         /\ Script[k].op \in {"create", "add_column"}
<1>1. Script \in Seq(Statement)
  BY ScriptAssumption
<1>2. Script[k] \in Statement
  BY <1>1
<1> QED
  BY <1>2, ScriptAssumption DEF Statement

\* The script run to its end leaves the whole schema.
LEMMA WholeScript ==
  ASSUME TypeOK, \A k \in 1 .. Len(Script) : Done(Script[k])
  PROVE  Upgraded
<1>0. Script \in Seq(Statement) /\ DOMAIN Script = 1 .. Len(Script)
  BY ScriptAssumption
<1>1. Tables \subseteq tables
  <2> SUFFICES ASSUME NEW table \in Tables
               PROVE  table \in tables
    OBVIOUS
  <2>1. PICK i \in DOMAIN Script : Script[i] = Create(table)
    BY ScriptAssumption
  <2>2. i \in 1 .. Len(Script)
    BY <1>0, <2>1
  <2>3. Done(Create(table))
    BY <2>1, <2>2
  <2> QED
    BY <2>3 DEF Done, Create
<1>2. NewColumns \subseteq columns
  <2> SUFFICES ASSUME NEW column \in NewColumns
               PROVE  column \in columns
    OBVIOUS
  <2>1. PICK i \in DOMAIN Script : Script[i] = AddColumn(column[1], column[2])
    BY ScriptAssumption
  <2>5. i \in 1 .. Len(Script)
    BY <1>0, <2>1
  <2>6. Done(AddColumn(column[1], column[2]))
    BY <2>1, <2>5
  <2>2. <<column[1], column[2]>> \in columns
    BY <2>6 DEF Done, AddColumn
  <2>3. column = <<column[1], column[2]>>
    BY ColumnsAssumption
  <2> QED
    BY <2>2, <2>3
<1> QED
  BY <1>1, <1>2 DEF TypeOK, Upgraded

\* Where statement k, executed, leaves the schema and the process: nothing is
\* taken out, the statement is done, and the process is one statement on.
LEMMA ExecuteStep ==
  ASSUME TypeOK, ScriptIsRun, NEW p \in Starts, Execute(p),
         NEW k \in 1 .. Len(Script), at[p] = k
  PROVE  /\ tables \subseteq tables' /\ columns \subseteq columns'
         /\ tables' \subseteq Tables /\ columns' \subseteq NewColumns
         /\ \A column \in columns' : column[1] \in tables'
         /\ Done(Script[k])'
         /\ at' = [at EXCEPT ![p] = k + 1] /\ proc' = proc
<1> DEFINE c == <<Script[k].table, Script[k].column>>
<1>0. k \in DOMAIN Script
  BY ScriptAssumption
<1>1. /\ Script[k].op = "create" => Script[k].table \in Tables
      /\ Script[k].op = "add_column" =>
           c \in NewColumns /\ \E j \in 1 .. k - 1 : Script[j] = Create(Script[k].table)
  BY <1>0, StatementType
<1>2. CASE Script[k].op = "create" /\ CreateTable(p, Script[k].table)
  <2>1. /\ at' = [at EXCEPT ![p] = k + 1] /\ proc' = proc
        /\ \/ tables' = tables /\ columns' = columns /\ Script[k].table \in tables
           \/ /\ tables' = tables \cup {Script[k].table}
              /\ columns' = columns \cup ColumnsOf(Script[k].table)
    BY <1>2 DEF CreateTable, Advance, schema
  <2> QED
    BY <1>1, <1>2, <2>1 DEF ColumnsOf, Done, TypeOK
<1>3. CASE Script[k].op = "add_column" /\ AlterTable(p, c)
  <2>1. Script[k].table \in tables
    <3>1. PICK j \in 1 .. k - 1 : Script[j] = Create(Script[k].table)
      BY <1>1, <1>3
    <3>2. Done(Create(Script[k].table))
      BY <3>1 DEF ScriptIsRun
    <3> QED
      BY <3>2 DEF Done, Create
  <2>2. c[1] = Script[k].table
    OBVIOUS
  <2>3. columns' = columns \cup {c} /\ tables' = tables /\ at' = [at EXCEPT ![p] = k + 1] /\ proc' = proc
    BY <1>3 DEF AlterTable, DuplicateColumn, Advance
  <2>4. Done(Script[k])'
    BY <1>3, <2>3 DEF Done
  <2> HIDE DEF c
  <2> QED
    BY <1>1, <1>3, <2>1, <2>2, <2>3, <2>4 DEF TypeOK
<1> QED
  BY <1>2, <1>3 DEF Execute

-----------------------------------------------------------------------------
(* The invariant.                                                          *)

LEMMA InitInv == Init => Inv
<1> SUFFICES ASSUME Init PROVE Inv
  OBVIOUS
<1>1. TypeOK
  BY ScriptAssumption, BoundAssumption DEF Init, TypeOK
<1>2. ScriptIsRun
  BY DEF Init, ScriptIsRun
<1>3. OneServer /\ NotSpawned /\ EndedByAnother /\ ReportsHold
  BY DEF Init, OneServer, NotSpawned, EndedByAnother, ReportsHold, Serving
<1> QED
  BY <1>1, <1>2, <1>3 DEF Inv

\* What is left to show of a step that leaves the database and the statements
\* the processes are at alone, and takes no process into serving.
LEMMA Frame ==
  ASSUME Inv, UNCHANGED <<tables, columns, at>>, Serving' \subseteq Serving
  PROVE  ScriptIsRun' /\ OneServer'
<1>1. ScriptIsRun'
  BY DEF Inv, ScriptIsRun, Done
<1>2. OneServer'
  BY DEF Inv, OneServer
<1> QED
  BY <1>1, <1>2

\* A process that ends, not because another serves, ends disturbed.
LEMMA ExitStep ==
  ASSUME Inv, NEW p \in Alive, Exit(p), UNCHANGED <<tables, columns, at, start, stop, doomed, same_port>>,
         faults' \in 0 .. MaxFaults, Undisturbed' => Undisturbed /\ proc[p] = "starting" /\ Serving # {}
  PROVE  Inv' /\ Serving' = Serving \ {p}
<1>0. p \in Starts /\ proc[p] \in {"starting", "serving"} /\ proc' = [proc EXCEPT ![p] = "exited"]
  BY DEF Alive, Exit
<1>1. TypeOK'
  BY <1>0 DEF Inv, TypeOK
<1>2. Serving' = Serving \ {p}
  BY <1>0 DEF Serving, Inv, TypeOK
<1>3. ScriptIsRun' /\ OneServer'
  BY <1>2, Frame
<1>4. NotSpawned'
  BY <1>0 DEF Inv, NotSpawned, TypeOK
<1>5. Undisturbed' => Serving' # {} /\ Undisturbed
  BY <1>0, <1>2 DEF Serving
<1>6. EndedByAnother'
  BY <1>5 DEF EndedByAnother
<1>7. ReportsHold'
  BY <1>0, <1>5 DEF Inv, ReportsHold, TypeOK
<1> QED
  BY <1>1, <1>2, <1>3, <1>4, <1>6, <1>7 DEF Inv

LEMMA ExecuteInv ==
  ASSUME Inv, NEW p \in Starts, Execute(p)
  PROVE  Inv' /\ Serving' = Serving /\ tables \subseteq tables' /\ columns \subseteq columns'
<1> DEFINE k == at[p]
<1>0. k \in 1 .. Len(Script) /\ Len(Script) \in Nat
  BY ScriptAssumption DEF Execute
<1>1. /\ tables \subseteq tables' /\ columns \subseteq columns'
      /\ tables' \subseteq Tables /\ columns' \subseteq NewColumns
      /\ \A column \in columns' : column[1] \in tables'
      /\ at' = [at EXCEPT ![p] = k + 1] /\ proc' = proc
  <2>1. PICK j \in 1 .. Len(Script) : j = at[p]
    BY <1>0
  <2> QED
    BY <2>1, ExecuteStep DEF Inv
<1>2. UNCHANGED <<same_port, doomed, start, stop, faults>> /\ proc[p] = "starting"
  BY DEF Execute, cli
<1>3. TypeOK'
  BY <1>0, <1>1, <1>2 DEF Inv, TypeOK
<1>4. ScriptIsRun'
  <2> SUFFICES ASSUME NEW q \in Starts, NEW i \in 1 .. at'[q] - 1
               PROVE  Done(Script[i])'
    BY DEF ScriptIsRun
  <2>1. CASE q = p /\ i = at[p]
    BY <2>1, <1>0, ExecuteStep DEF Inv
  <2>2. CASE ~(q = p /\ i = at[p])
    <3>1. i \in 1 .. at[q] - 1
      BY <1>0, <1>1, <2>2 DEF Inv, TypeOK
    <3>2. Done(Script[i])
      BY <3>1 DEF Inv, ScriptIsRun
    <3> QED
      BY <1>1, <3>2 DEF Done
  <2> QED
    BY <2>1, <2>2
<1>5. Serving' = Serving
  BY <1>1 DEF Serving
<1>6. OneServer'
  BY <1>1, <1>2, <1>5 DEF Inv, OneServer, Serving, TypeOK
<1>7. NotSpawned' /\ EndedByAnother' /\ ReportsHold'
  BY <1>1, <1>2, <1>5 DEF Inv, NotSpawned, EndedByAnother, ReportsHold, Undisturbed
<1> QED
  BY <1>1, <1>3, <1>4, <1>5, <1>6, <1>7 DEF Inv

LEMMA BindInv ==
  ASSUME Inv, NEW p \in Starts, Bind(p)
  PROVE  Inv' /\ (Serving' = Serving \/ (Serving = {} /\ Serving' = {p} /\ Upgraded))
<1>0. /\ proc[p] = "starting" /\ at[p] = Len(Script) + 1 /\ p \notin Serving
      /\ UNCHANGED <<same_port, tables, columns, at, doomed, start, stop, faults>>
  BY DEF Bind, AtBind, schema, cli, Serving
<1>1. CASE Serving # {}
  <2>1. Exit(p) /\ p \in Alive
    BY <1>0, <1>1 DEF Bind, PortIsFree, Alive
  <2>2. Undisturbed' => Undisturbed
    BY <1>0 DEF Undisturbed
  <2>3. faults' \in 0 .. MaxFaults
    BY <1>0 DEF Inv, TypeOK
  <2>4. Inv' /\ Serving' = Serving \ {p}
    BY <1>0, <1>1, <2>1, <2>2, <2>3, ExitStep
  <2> QED
    BY <1>0, <2>4
<1>2. CASE Serving = {}
  <2>0. proc' = [proc EXCEPT ![p] = "serving"]
    BY <1>2 DEF Bind, PortIsFree
  <2>1. TypeOK'
    BY <1>0, <2>0 DEF Inv, TypeOK
  <2>2. Serving' = {p}
    BY <1>2, <2>0 DEF Serving, Inv, TypeOK
  <2>3. ScriptIsRun' /\ OneServer'
    BY <1>0, <2>2 DEF Inv, ScriptIsRun, Done, OneServer
  <2>4. NotSpawned' /\ EndedByAnother' /\ ReportsHold'
    BY <1>0, <2>0, <2>2 DEF Inv, NotSpawned, EndedByAnother, ReportsHold, Undisturbed, TypeOK
  <2>5. Upgraded
    <3>1. \A k \in 1 .. Len(Script) : Done(Script[k])
      BY <1>0, ScriptAssumption DEF Inv, ScriptIsRun
    <3> QED
      BY <3>1, WholeScript DEF Inv
  <2> QED
    BY <1>2, <2>1, <2>2, <2>3, <2>4, <2>5 DEF Inv
<1> QED
  BY <1>1, <1>2

\* What a command changes: never a process that runs, the database or the port.
LEMMA CommandInv ==
  ASSUME Inv, NEW c \in Starts, Command(c)
  PROVE  Inv' /\ Serving' = Serving /\ UNCHANGED schema
<1>0. UNCHANGED <<same_port, tables, columns, at, doomed, stop, faults>>
  BY DEF Command, CheckBefore, Spawn, SpawnFails, CheckAfter, TryWait, schema
<1>1. \/ Spawn(c)
      \/ /\ proc' = proc
         /\ \/ start[c] = "idle" /\ Healthy /\ Says(c, "already_running")
            \/ start[c] = "idle" /\ Says(c, "spawn")
            \/ start[c] = "spawn" /\ Says(c, "error")
            \/ Healthy /\ Says(c, "started")
            \/ Says(c, "try_wait")
            \/ proc[c] = "exited" /\ Says(c, "exited_prematurely")
            \/ Says(c, "waiting_for_health")
  BY DEF Command, CheckBefore, SpawnFails, CheckAfter, TryWait, HasExited
<1>2. CASE Spawn(c)
  <2>1. /\ start[c] = "spawn" /\ start' = [start EXCEPT ![c] = "wait"]
        /\ proc' = [proc EXCEPT ![c] = "starting"] /\ proc[c] = "none"
    BY <1>2 DEF Spawn, Says, Inv, NotSpawned
  <2>2. TypeOK'
    BY <1>0, <2>1 DEF Inv, TypeOK
  <2>3. Serving' = Serving
    BY <2>1 DEF Serving, Inv, TypeOK
  <2>4. ScriptIsRun' /\ OneServer'
    BY <1>0, <2>3, Frame
  <2>5. NotSpawned' /\ EndedByAnother' /\ ReportsHold'
    BY <1>0, <2>1, <2>3 DEF Inv, NotSpawned, EndedByAnother, ReportsHold, Undisturbed, TypeOK
  <2> QED
    BY <1>0, <2>2, <2>3, <2>4, <2>5 DEF Inv, schema
<1>3. CASE proc' = proc /\ \E answer \in {"already_running", "spawn", "error", "started", "try_wait",
                                          "exited_prematurely", "waiting_for_health"} :
             /\ Says(c, answer)
             /\ answer \in {"already_running", "spawn"} => start[c] = "idle"
             /\ answer = "error" => start[c] = "spawn"
             /\ answer \in {"already_running", "started"} => Serving # {}
             /\ answer = "exited_prematurely" => proc[c] = "exited"
  <2>1. PICK answer \in {"already_running", "spawn", "error", "started", "try_wait",
                         "exited_prematurely", "waiting_for_health"} :
             /\ start' = [start EXCEPT ![c] = answer]
             /\ answer \in {"already_running", "spawn"} => start[c] = "idle"
             /\ answer = "error" => start[c] = "spawn"
             /\ answer \in {"already_running", "started"} => Serving # {}
             /\ answer = "exited_prematurely" => proc[c] = "exited"
    BY <1>3 DEF Says
  <2>2. TypeOK'
    BY <1>0, <1>3, <2>1 DEF Inv, TypeOK
  <2>3. Serving' = Serving
    BY <1>3 DEF Serving
  <2>4. ScriptIsRun' /\ OneServer'
    BY <1>0, <2>3, Frame
  <2>5. NotSpawned'
    BY <1>3, <2>1 DEF Inv, NotSpawned, TypeOK
  <2>6. EndedByAnother'
    BY <1>0, <1>3, <2>3 DEF Inv, EndedByAnother, Undisturbed
  <2>7. ReportsHold'
    BY <1>0, <1>3, <2>1, <2>3 DEF Inv, ReportsHold, EndedByAnother, Undisturbed, TypeOK
  <2> QED
    BY <1>0, <2>2, <2>3, <2>4, <2>5, <2>6, <2>7 DEF Inv, schema
<1> QED
  BY <1>1, <1>2, <1>3 DEF Healthy

LEMMA StopInv ==
  ASSUME Inv, NEW c \in Stops, StopCheck(c) \/ Pkill(c)
  PROVE  Inv' /\ Serving' = Serving /\ UNCHANGED schema
<1>0. UNCHANGED <<same_port, tables, columns, at, proc, start, faults>>
  BY DEF StopCheck, Pkill, schema
<1>1. doomed' \subseteq Starts /\ (doomed' = {} => doomed = {})
  BY DEF StopCheck, Pkill, Alive, Inv, TypeOK
<1>2. TypeOK'
  BY <1>0, <1>1 DEF Inv, TypeOK, StopCheck, Pkill
<1>3. Serving' = Serving
  BY <1>0 DEF Serving
<1>4. ScriptIsRun' /\ OneServer'
  BY <1>0, <1>3, Frame
<1>5. NotSpawned' /\ EndedByAnother' /\ ReportsHold'
  BY <1>0, <1>1, <1>3 DEF Inv, NotSpawned, EndedByAnother, ReportsHold, Undisturbed
<1> QED
  BY <1>0, <1>2, <1>3, <1>4, <1>5 DEF Inv, schema

\* A process that fails, is killed or crashes.
LEMMA EndInv ==
  ASSUME Inv, NEW p \in Starts, ExecuteFails(p) \/ Die(p) \/ Crash(p)
  PROVE  Inv' /\ Serving' = Serving \ {p} /\ UNCHANGED schema
<1>1. /\ p \in Alive /\ Exit(p)
      /\ UNCHANGED <<tables, columns, at, start, stop, doomed, same_port>>
  BY DEF ExecuteFails, Die, Crash, Alive, schema, cli
<1>2. faults' \in 0 .. MaxFaults /\ ~Undisturbed'
  BY BoundAssumption DEF ExecuteFails, Die, Crash, Undisturbed, Inv, TypeOK, cli
<1> QED
  BY <1>1, <1>2, ExitStep DEF schema

\* What any step does to the invariant and to what the service sees.
LEMMA NextInv ==
  ASSUME Inv, [Next]_vars
  PROVE  /\ Inv'
         /\ tables \subseteq tables' /\ columns \subseteq columns'
         /\ \/ Serving' = Serving
            \/ Serving' = {} /\ UNCHANGED schema
            \/ Serving = {} /\ Upgraded /\ UNCHANGED schema /\ \E p \in Starts : Serving' = {p}
<1>1. CASE UNCHANGED vars
  BY <1>1 DEF vars, Inv, TypeOK, ScriptIsRun, Done, OneServer, NotSpawned, EndedByAnother,
              ReportsHold, Serving, Undisturbed
<1>2. ASSUME NEW p \in Starts, Execute(p)
      PROVE  /\ Inv' /\ Serving' = Serving
             /\ tables \subseteq tables' /\ columns \subseteq columns'
  BY <1>2, ExecuteInv
<1>3. ASSUME NEW p \in Starts, Bind(p)
      PROVE  /\ Inv' /\ UNCHANGED schema
             /\ Serving' = Serving \/ (Serving = {} /\ Serving' = {p} /\ Upgraded)
  BY <1>3, BindInv DEF Bind
<1>4. ASSUME NEW p \in Starts, ExecuteFails(p) \/ Die(p) \/ Crash(p)
      PROVE  Inv' /\ UNCHANGED schema /\ (Serving' = Serving \/ Serving' = {})
  BY <1>4, EndInv DEF Inv, OneServer
<1>5. ASSUME NEW c \in Starts, Command(c)
      PROVE  Inv' /\ Serving' = Serving /\ UNCHANGED schema
  BY <1>5, CommandInv
<1>6. ASSUME NEW c \in Stops, StopCheck(c) \/ Pkill(c)
      PROVE  Inv' /\ Serving' = Serving /\ UNCHANGED schema
  BY <1>6, StopInv
<1> QED
  BY <1>1, <1>2, <1>3, <1>4, <1>5, <1>6 DEF Next, Process, schema

LEMMA Invariance == Spec => []Inv
<1>1. Inv /\ [Next]_vars => Inv'
  BY NextInv
<1> QED
  BY InitInv, <1>1, PTL DEF Spec

-----------------------------------------------------------------------------
(* The theorems.                                                           *)

\* The types of the state.
THEOREM TypeCorrect == Spec => []TypeOK
<1>1. Inv => TypeOK
  BY DEF Inv
<1> QED
  BY Invariance, <1>1, PTL

\* No broker serves a database whose migration was cut short, by whatever
\* process it was begun (lib.rs 39-43, storage.rs 21-160).
THEOREM SchemaFirst == Spec => []ServesWholeSchema
<1>1. Inv => ServesWholeSchema
  <2> SUFFICES ASSUME Inv, NEW p \in Serving PROVE Upgraded
    BY DEF ServesWholeSchema
  <2>1. at[p] = Len(Script) + 1 /\ p \in Starts
    BY DEF Inv, OneServer, Serving
  <2>2. \A k \in 1 .. Len(Script) : Done(Script[k])
    BY <2>1, ScriptAssumption DEF Inv, ScriptIsRun
  <2> QED
    BY <2>2, WholeScript DEF Inv
<1> QED
  BY Invariance, <1>1, PTL

\* Any number of starts leave exactly one broker, if nothing interferes
\* (broker.rs 88-101, lib.rs 42-43).
THEOREM OneBrokerLeft == Spec => []LeavesOneBroker
<1>1. Inv => LeavesOneBroker
  <2> SUFFICES ASSUME Inv, Undisturbed, NEW p \in Starts, proc[p] # "none",
                      \A q \in Starts : proc[q] # "starting"
               PROVE  Cardinality(Serving) = 1
    BY DEF LeavesOneBroker
  <2>1. Serving # {}
    BY DEF Inv, TypeOK, EndedByAnother, Serving
  <2>2. PICK q \in Serving : Serving = {q}
    BY <2>1 DEF Inv, OneServer
  <2> QED
    BY <2>2, FS_Singleton
<1> QED
  BY Invariance, <1>1, PTL

\* What a start says of the broker is so (broker.rs 89-92, 104-117).
THEOREM ReportsAreTrue == Spec => []ReportsHold
<1>1. Inv => ReportsHold
  BY DEF Inv
<1> QED
  BY Invariance, <1>1, PTL

\* Starting, stopping, failing and crashing implement the service: one broker
\* at a time, on a whole schema that is never taken away.
THEOREM ImplementsTheService == Spec => KeepsTheService
<1>1. Init => Service!Init
  BY DEF Init, Service!Init, Serving, Upgraded
<1>2. Inv /\ [Next]_vars => [Service!Next]_(Service!vars)
  <2> SUFFICES ASSUME Inv, [Next]_vars PROVE [Service!Next]_(Service!vars)
    OBVIOUS
  <2>1. Inv' /\ tables \subseteq tables' /\ columns \subseteq columns'
    BY NextInv
  <2>2. Upgraded => Upgraded'
    BY <2>1 DEF Upgraded, Inv, TypeOK
  <2>3. UNCHANGED schema => (Upgraded' <=> Upgraded)
    BY DEF schema, Upgraded
  <2>4. CASE Serving' = Serving
    BY <2>2, <2>4 DEF Service!Next, Service!Upgrade, Service!vars, Upgraded
  <2>5. CASE Serving' = {} /\ UNCHANGED schema
    BY <2>3, <2>5 DEF Service!Next, Service!Leave, Service!vars, Upgraded, schema
  <2>6. CASE Serving = {} /\ Upgraded /\ UNCHANGED schema /\ \E p \in Starts : Serving' = {p}
    BY <2>3, <2>6 DEF Service!Next, Service!Serve, Service!vars, Upgraded, schema
  <2> QED
    BY <2>4, <2>5, <2>6, NextInv
<1> QED
  BY Invariance, <1>1, <1>2, PTL DEF Spec, KeepsTheService, Service!Spec

-----------------------------------------------------------------------------
(* The processes go on.                                                    *)

\* What a step may do to process p.
GoesOn(p) ==
  /\ at'[p] >= at[p]
  /\ proc'[p] # proc[p] => \/ proc[p] = "none" /\ proc'[p] = "starting"
                           \/ proc[p] = "starting" /\ proc'[p] = "serving"
                           \/ proc[p] \in {"starting", "serving"} /\ proc'[p] = "exited"
  /\ Execute(p) \/ Bind(p) \/ Die(p) => at'[p] > at[p] \/ proc'[p] # proc[p]

LEMMA StepGoesOn ==
  ASSUME Inv, Next, NEW p \in Starts
  PROVE  GoesOn(p)
<1>0. /\ TypeOK /\ ScriptIsRun /\ NotSpawned /\ Len(Script) \in Nat
      /\ DOMAIN Script = 1 .. Len(Script) /\ at[p] \in 1 .. Len(Script) + 1
  BY ScriptAssumption DEF Inv, TypeOK
<1>1. ASSUME Execute(p)
      PROVE  at'[p] = at[p] + 1 /\ proc' = proc
  <2>1. PICK k \in 1 .. Len(Script) : at[p] = k
    BY <1>0, <1>1 DEF Execute
  <2>2. at' = [at EXCEPT ![p] = k + 1] /\ proc' = proc
    BY <1>0, <1>1, <2>1, ExecuteStep
  <2>. QED  BY <1>0, <2>1, <2>2 DEF TypeOK
<1>2. ASSUME Bind(p) \/ Die(p) \/ ExecuteFails(p) \/ Crash(p)
      PROVE  /\ proc[p] \in {"starting", "serving"} /\ at' = at
             /\ proc'[p] = "exited" \/ (proc[p] = "starting" /\ proc'[p] = "serving")
  BY <1>0, <1>2 DEF Bind, AtBind, Die, ExecuteFails, Crash, Alive, Exit, TypeOK
<1>3. ASSUME NEW q \in Starts, q # p, Process(q)
      PROVE  at'[p] = at[p] /\ proc'[p] = proc[p]
  <2>1. CASE Execute(q)
    <3>1. PICK k \in 1 .. Len(Script) : at[q] = k
      BY <1>0, <2>1 DEF Execute
    <3>2. at' = [at EXCEPT ![q] = k + 1] /\ proc' = proc
      BY <1>0, <2>1, <3>1, ExecuteStep
    <3>. QED  BY <1>3, <3>2 DEF TypeOK
  <2>2. CASE Bind(q) \/ Die(q) \/ ExecuteFails(q) \/ Crash(q)
    BY <1>0, <1>3, <2>2 DEF Bind, Die, ExecuteFails, Crash, Exit, TypeOK
  <2>. QED  BY <1>3, <2>1, <2>2 DEF Process
<1>4. ASSUME NEW c \in Starts, Command(c)
      PROVE  at' = at /\ (proc'[p] = proc[p] \/ (proc[p] = "none" /\ proc'[p] = "starting"))
  BY <1>0, <1>4 DEF Command, CheckBefore, Spawn, SpawnFails, CheckAfter, TryWait, TypeOK, NotSpawned
<1>5. ASSUME NEW c \in Stops, StopCheck(c) \/ Pkill(c)
      PROVE  at' = at /\ proc' = proc
  BY <1>5 DEF StopCheck, Pkill
<1>6. Execute(p) \/ Bind(p) \/ Die(p) => at'[p] = at[p] + 1 \/ proc'[p] # proc[p]
  BY <1>1, <1>2
<1>7. Process(p) => \/ at'[p] = at[p] + 1 /\ proc'[p] = proc[p]
                    \/ /\ proc[p] \in {"starting", "serving"} /\ at'[p] = at[p]
                       /\ proc'[p] = "exited" \/ (proc[p] = "starting" /\ proc'[p] = "serving")
  BY <1>1, <1>2 DEF Process
<1>8. \/ Process(p)
      \/ at'[p] = at[p] /\ proc'[p] = proc[p]
      \/ at'[p] = at[p] /\ proc[p] = "none" /\ proc'[p] = "starting"
  BY <1>3, <1>4, <1>5 DEF Next
<1>9. at[p] \in Nat
  BY <1>0
<1>. QED  BY <1>6, <1>7, <1>8, <1>9 DEF GoesOn

\* A process's statements are behind it for good and its end is the end: what a
\* start has left to do only shrinks.
THEOREM ProcessesGoOnCorrect == Spec => ProcessesGoOn
<1>1. Inv /\ [Next]_vars => [\A p \in Starts : GoesOn(p)]_vars
  BY StepGoesOn
<1>. QED  BY <1>1, Invariance, PTL DEF Spec, ProcessesGoOn, GoesOn
================================================================================
