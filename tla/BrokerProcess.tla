----------------------------- MODULE BrokerProcess -----------------------------
(***************************************************************************)
(* Starting and stopping the broker.  `creavor broker start` and `stop`    *)
(* (apps/creavor-cli/src/broker.rs) are commands of the user that may run  *)
(* at the same time; each start spawns at most one broker process.  A      *)
(* process (run() in apps/broker/src/lib.rs) opens the audit database,     *)
(* creates and migrates its tables statement by statement (storage.rs),    *)
(* and only then binds its port and serves.                                *)
(*                                                                         *)
(* Each SQL statement of initialize() commits on its own, so a kill, a     *)
(* crash or another process comes in between any two.  A process has the   *)
(* name of the start that spawned it.                                      *)
(***************************************************************************)
EXTENDS Integers, Sequences, FiniteSets

CONSTANTS
  Starts,      \* `broker start` commands, and the processes they spawn
  Stops,       \* `broker stop` commands
  Tables,      \* the tables of the audit database
  NewColumns,  \* the columns migrate_schema adds, as <<table, column>>
  Script,      \* the statements of initialize() that change the schema, in order
  OldTables,   \* the tables of an audit database of an earlier version
  MaxFaults    \* bound: statements that fail, and processes that die by themselves

Statement == [op : {"create", "add_column"}, table : STRING, column : STRING]
Create(table) == [op |-> "create", table |-> table, column |-> ""]
AddColumn(table, column) == [op |-> "add_column", table |-> table, column |-> column]

\* The script makes the whole schema, and a table before its columns.
ASSUME ScriptAssumption ==
  /\ Script \in Seq(Statement)
  /\ \A table \in Tables : \E i \in DOMAIN Script : Script[i] = Create(table)
  /\ \A column \in NewColumns :
       \E i \in DOMAIN Script : Script[i] = AddColumn(column[1], column[2])
  /\ \A i \in DOMAIN Script :
       /\ Script[i].op = "create" => Script[i].table \in Tables
       /\ Script[i].op = "add_column" =>
            /\ <<Script[i].table, Script[i].column>> \in NewColumns
            /\ \E j \in 1 .. i - 1 : Script[j] = Create(Script[i].table)
  /\ OldTables \subseteq Tables
ASSUME ColumnsAssumption == \A column \in NewColumns : column = <<column[1], column[2]>>
ASSUME BoundAssumption == MaxFaults \in Nat

VARIABLES
  same_port,  \* the CLI asks at the port the settings give the broker
  tables,     \* the tables of the database file
  columns,    \* those of NewColumns that its tables have
  proc,       \* the state of each process
  at,         \* the statement each process is at; past the last, the bind
  doomed,     \* the processes a SIGTERM was sent to
  start,      \* where each start command is, or what it said
  stop,       \* the same of each stop command
  faults      \* counter, for the bound

vars == <<same_port, tables, columns, proc, at, doomed, start, stop, faults>>
cli  == <<start, stop>>
schema == <<tables, columns>>

Init ==
  /\ same_port \in BOOLEAN
  /\ tables \in {{}, OldTables} /\ columns = {}
  /\ proc = [p \in Starts |-> "none"]
  /\ at = [p \in Starts |-> 1]
  /\ doomed = {}
  /\ start = [c \in Starts |-> "idle"]
  /\ stop = [c \in Stops |-> "idle"]
  /\ faults = 0

Serving == {p \in Starts : proc[p] = "serving"}
Alive   == {p \in Starts : proc[p] \in {"starting", "serving"}}

-----------------------------------------------------------------------------
(* A broker process. *)

ColumnsOf(table) == {column \in NewColumns : column[1] = table}

Exit(p) == proc' = [proc EXCEPT ![p] = "exited"]

\* Mutant: a statement is skipped.
AdvanceByTwo(p) == at' = [at EXCEPT ![p] = @ + 2] /\ UNCHANGED proc
Advance(p) == at' = [at EXCEPT ![p] = @ + 1] /\ UNCHANGED proc

\* Mutants: a duplicate column is an error like any other; it is tried again.
DuplicateStops(p) == Exit(p) /\ UNCHANGED at
DuplicateRetries(p) == UNCHANGED <<proc, at>>
\* migrate_schema goes on when the column is there.
DuplicateColumn(p) == Advance(p)

\* CREATE TABLE IF NOT EXISTS: a table made now has the new columns.
CreateTable(p, table) ==
  /\ Advance(p)
  /\ IF table \in tables THEN UNCHANGED schema
     ELSE /\ tables' = tables \cup {table}
          /\ columns' = columns \cup ColumnsOf(table)

\* ALTER TABLE ADD COLUMN.
AlterTable(p, column) ==
  /\ UNCHANGED tables
  /\ IF column \in columns THEN DuplicateColumn(p) /\ UNCHANGED columns
     ELSE Advance(p) /\ columns' = columns \cup {column}

\* One statement of initialize or migrate_schema.
Execute(p) ==
  /\ proc[p] = "starting" /\ at[p] \in DOMAIN Script
  /\ LET statement == Script[at[p]]
     IN  \/ statement.op = "create" /\ CreateTable(p, statement.table)
         \/ statement.op = "add_column" /\ AlterTable(p, <<statement.table, statement.column>>)
  /\ UNCHANGED <<same_port, doomed, cli, faults>>

\* It or a PRAGMA before it fails (the disk is full, another process kept the
\* database locked for more than the busy timeout): the `?`s end the process.
ExecuteFails(p) ==
  /\ proc[p] = "starting" /\ at[p] \in DOMAIN Script
  /\ faults < MaxFaults /\ faults' = faults + 1
  /\ Exit(p)
  /\ UNCHANGED <<same_port, schema, at, doomed, cli>>

\* Mutants: the port is bound before the tables are migrated; it is shared.
BindEarly(p) == proc[p] = "starting" /\ at[p] = 2
SharePort == TRUE
AtBind(p) == proc[p] = "starting" /\ at[p] = Len(Script) + 1
PortIsFree == Serving = {}

\* TcpListener::bind, and serving; or the port is taken and the process ends.
Bind(p) ==
  /\ AtBind(p)
  /\ IF PortIsFree THEN proc' = [proc EXCEPT ![p] = "serving"] ELSE Exit(p)
  /\ UNCHANGED <<same_port, schema, at, doomed, cli, faults>>

\* A signalled process dies, wherever it is.
Die(p) ==
  /\ p \in doomed \cap Alive
  /\ Exit(p)
  /\ UNCHANGED <<same_port, schema, at, doomed, cli, faults>>

Crash(p) ==
  /\ p \in Alive
  /\ faults < MaxFaults /\ faults' = faults + 1
  /\ Exit(p)
  /\ UNCHANGED <<same_port, schema, at, doomed, cli>>

-----------------------------------------------------------------------------
(* The commands.  health_check() asks the port of CREAVOR_BROKER_URL.       *)

Healthy == same_port /\ Serving # {}

Says(c, answer) == start' = [start EXCEPT ![c] = answer]

\* cmd_start: is one running already?
CheckBefore(c) ==
  /\ start[c] = "idle"
  /\ Says(c, IF Healthy THEN "already_running" ELSE "spawn")
  /\ UNCHANGED <<same_port, schema, proc, at, doomed, stop, faults>>

Spawn(c) ==
  /\ start[c] = "spawn"
  /\ Says(c, "wait")
  /\ proc' = [proc EXCEPT ![c] = "starting"]
  /\ UNCHANGED <<same_port, schema, at, doomed, stop, faults>>

\* find_broker_binary or the spawn is an error.
SpawnFails(c) ==
  /\ start[c] = "spawn"
  /\ Says(c, "error")
  /\ UNCHANGED <<same_port, schema, proc, at, doomed, stop, faults>>

\* After half a second, which may be too early or too late: whoever answers,
\* the broker "started successfully".
CheckAfter(c) ==
  /\ start[c] = "wait"
  /\ Says(c, IF Healthy THEN "started" ELSE "try_wait")
  /\ UNCHANGED <<same_port, schema, proc, at, doomed, stop, faults>>

\* Mutant: a child that does not serve yet counts as one that exited.
NotServing(c) == proc[c] # "serving"
HasExited(c) == proc[c] = "exited"

\* child.try_wait().
TryWait(c) ==
  /\ start[c] = "try_wait"
  /\ Says(c, IF HasExited(c) THEN "exited_prematurely" ELSE "waiting_for_health")
  /\ UNCHANGED <<same_port, schema, proc, at, doomed, stop, faults>>

\* cmd_stop.
StopCheck(c) ==
  /\ stop[c] = "idle"
  /\ stop' = [stop EXCEPT ![c] = IF Healthy THEN "pkill" ELSE "not_running"]
  /\ UNCHANGED <<same_port, schema, proc, at, doomed, start, faults>>

\* pkill -f creavor-broker: every process of that name, serving or not.  It
\* does not wait for them to end.
Pkill(c) ==
  /\ stop[c] = "pkill"
  /\ stop' = [stop EXCEPT ![c] = IF Alive # {} THEN "stopped" ELSE "could_not_stop"]
  /\ doomed' = doomed \cup Alive
  /\ UNCHANGED <<same_port, schema, proc, at, start, faults>>

Process(p) == Execute(p) \/ ExecuteFails(p) \/ Bind(p) \/ Die(p) \/ Crash(p)
Command(c) == CheckBefore(c) \/ Spawn(c) \/ SpawnFails(c) \/ CheckAfter(c) \/ TryWait(c)

Next ==
  \/ \E p \in Starts : Process(p) \/ Command(p)
  \/ \E c \in Stops : StopCheck(c) \/ Pkill(c)

Spec == Init /\ [][Next]_vars

\* The system runs a process that is ready, and delivers a signal.
Fairness == \A p \in Starts : WF_vars(Execute(p) \/ Bind(p)) /\ WF_vars(Die(p))
FairSpec == Spec /\ Fairness

-----------------------------------------------------------------------------
(* Properties. *)

TypeOK ==
  /\ same_port \in BOOLEAN
  /\ tables \subseteq Tables /\ columns \subseteq NewColumns
  /\ \A column \in columns : column[1] \in tables
  /\ proc \in [Starts -> {"none", "starting", "serving", "exited"}]
  /\ at \in [Starts -> 1 .. Len(Script) + 1]
  /\ doomed \subseteq Starts
  /\ start \in [Starts -> {"idle", "already_running", "spawn", "error", "wait", "started",
                           "try_wait", "exited_prematurely", "waiting_for_health"}]
  /\ stop \in [Stops -> {"idle", "not_running", "pkill", "stopped", "could_not_stop"}]
  /\ faults \in 0 .. MaxFaults

Upgraded == tables = Tables /\ columns = NewColumns

\* A broker that answers requests writes to a whole schema, whoever migrated
\* the database, at whatever statement an earlier or a concurrent process was
\* killed or failed in its migration (storage.rs 28-159 before lib.rs 41).
ServesWholeSchema == Serving # {} => Upgraded

Undisturbed == faults = 0 /\ doomed = {}

\* Two starts that both found no broker do not undo each other: their
\* processes may migrate the same database at the same time and race for the
\* port, and when all have got as far as they get one of them serves, the
\* others are gone (storage.rs 138-157, lib.rs 42, broker.rs 89-100).
LeavesOneBroker ==
  Undisturbed /\ (\E p \in Starts : proc[p] # "none") /\ (\A p \in Starts : proc[p] # "starting")
    => Cardinality(Serving) = 1

\* What a start tells the user holds when nobody interferes: one that finds a
\* broker running, reports success, or gives its own child up leaves a broker
\* that serves; a child that ended in between ended because another broker
\* has the port (broker.rs 89-92, 104-117).
ReportsHold ==
  \A c \in Starts :
    /\ start[c] = "exited_prematurely" => proc[c] = "exited"
    /\ Undisturbed /\ start[c] \in {"already_running", "started", "exited_prematurely"}
         => Serving # {}

\* A start takes nothing out of the database, serves it only when it is whole,
\* and never beside another.
Service == INSTANCE BrokerService WITH
  Brokers <- Starts, upgraded <- Upgraded, server <- Serving
KeepsTheService == Service!Spec

\* A process only ever goes on: no step of anyone takes it back in its script
\* or in its life, and each of its own takes it further, so a start has as many
\* steps as the script and one more, whatever other migrations find or leave
\* (storage.rs 28-159, lib.rs 41-42).
ProcessesGoOn ==
  [][\A p \in Starts :
       /\ at'[p] >= at[p]
       /\ proc'[p] # proc[p] => \/ proc[p] = "none" /\ proc'[p] = "starting"
                                \/ proc[p] = "starting" /\ proc'[p] = "serving"
                                \/ proc[p] \in {"starting", "serving"} /\ proc'[p] = "exited"
       /\ Execute(p) \/ Bind(p) \/ Die(p) => at'[p] > at[p] \/ proc'[p] # proc[p]]_vars

\* A spawned process ends up serving or gone, whatever the others do: the
\* migrations of several do not wait for each other.
StartupEnds == \A p \in Starts : proc[p] = "starting" ~> proc[p] \in {"serving", "exited"}
=============================================================================
