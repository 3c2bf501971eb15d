# A TLA+ model of OpenCreavor

OpenCreavor puts a local proxy, the *broker*, between AI coding tools and the
model APIs they call. The broker scans each request, blocks the dangerous ones,
forwards the rest and keeps an audit database. The *guard* lets a user decide
about blocked requests. A CLI starts tools with the broker in between. This
directory holds TLA+ modules translated from that code, TLC configurations that
check them, and TLAPS proofs about them. `PROJECT.json` maps every definition
to the lines it models; source lines below are relative to the repository root.

## The system

| Component | Source | State | Operations | Hard parts |
|---|---|---|---|---|
| Proxy handler | `apps/broker/src/router.rs` | one task per request; storage mutex | route, scan, block or forward, audit | handlers interleave, are dropped at an await, panic; errors are ignored; crashes |
| Audit storage | `storage.rs`, `audit.rs` | SQLite tables | insert start / violation / approval / payload, finalize | keys that refuse an insert; what a crash leaves |
| Streaming proxy | `proxy.rs` | body stream, two timers, completion signal | forward, poll, drop | a timer racing an answer; slow clients; one report per end |
| Events endpoint | `events.rs`, `audit.rs` | rate limiter per key, table `events` | post | concurrent posts, window boundaries, failing insert |
| Routing | `path_rewrite.rs`, `router.rs` 122-210, `libs/creavor-core/src/upstream.rs`, `settings.rs` | configuration, hash map orders | parse, resolve, fall back, join | priority order; unspecified order; two parsings of one path |
| Guard approval store | `apps/guard/src/approval.rs` | requests, actions, session approvals | create, decide, expire, list, ask | races to decide; expiry; a gap between two locks |
| Guard MCP server | `apps/guard/src/mcp.rs` | where its loop is; the store, shared | read a line, call a tool, answer | what it told against what others do to the store |
| Rule engine | `rule_engine.rs` | rule list | load, scan | first match wins; one bad rule file; files edited while they are read |
| Start-up | `lib.rs`, `storage.rs` 9-166, `apps/creavor-cli/src/broker.rs` | processes, the schema of the database, the port | start, stop, create, migrate, bind | two starts at once; a kill in the migration |
| Settings, runtime adapters | `settings.rs`, `runtime.rs`, `apps/creavor-cli/src/runtimes/` | a file shared by processes, a copy in each | load, set, register, save, launch | lost updates, half-written files, stale copies |
| CLI | `apps/creavor-cli/src/` | none | run, config, start, stop, doctor, cleanup | check, then spawn |

How they interact. The broker is one process on a multi-threaded runtime. Each
request is a task: a handler runs until an await, other handlers run beside it
on other threads, and hyper drops the handler of a connection that is closed.
All tasks share one `AuditStorage` behind one `std::sync::Mutex`; `post_events`
takes the same mutex. The rules are read once, at the start, before the
database is used, which is migrated before the port is bound. The handler calls `forward_upstream`, whose response body
(`ProxyBodyStream`) outlives the handler. The guard is another process. It
reads the database, but its approval store lives in its own memory and nothing
copies `approval_requests` into it. The CLI and the broker share the settings
file, which the broker reads once, at its start.

What makes each part correct:

- handler: nothing dangerous is sent, nothing is sent unaudited, records agree
  with each other and with what happened, and survive a crash in order;
- stream: the exchange ends, is reported once, with the reason it ended for;
- events: at most the limit in any window, no refusal below it, answers that
  agree with the table;
- routing: the best configured place and nowhere else, the path intact;
- approvals: one decision per request, recorded, final, traceable; and what the
  guard tells its client is so and stays so;
- rules: a builtin verdict stands, a custom policy is in force wholly or not at
  all, and no match is shown whole;
- start-up: one broker at a time, never on half a schema, and none lost because
  two were started;
- settings: commands add up, the broker is never its own upstream, an id means
  the same URL to a client and to the broker.

## The modules

| Module | Models | Notes |
|---|---|---|
| `AuditStorage` | tables as values, each storage call as an operator | no state of its own; a refused call leaves its table alone |
| `AuditTrail` | what the audit trail promises | the abstract specification, five variables |
| `Exchange` | what one exchange looks like to its client | an abstract specification, three variables |
| `Broker` | `proxy_request` for a set of requests | extends `AuditStorage`, implements `AuditTrail`, and `Exchange` for each request |
| `BrokerProofs` | theorems about `Broker` | |
| `ProxyStream` | one `forward_upstream` and its body stream | implements `Exchange` |
| `ProxyStreamProofs` | theorems about `ProxyStream` | |
| `DecisionRegister` | what whoever asks for an approval may count on | an abstract specification, without locks or callers |
| `ApprovalStore` | the guard's `ApprovalStore` | implements `DecisionRegister` |
| `Guard` | the MCP server's loop and tools | extends `ApprovalStore`, whose other callers run beside it |
| `GuardProofs` | theorems about `ApprovalStore` and `Guard` | |
| `Rules` | the rule set: loading, scanning, masking | |
| `RulesProofs` | theorems about `Rules` | |
| `BrokerService` | what starting and stopping promises | the abstract specification, two variables |
| `BrokerProcess` | `broker start` and `stop`, the processes they spawn, the migration | implements `BrokerService` |
| `BrokerProcessProofs` | theorems about `BrokerProcess` | |
| `EventService` | what posting an event promises | an abstract specification: a window over all that was let in |
| `Events` | `post_events` and `LocalRateLimiter` | implements `EventService` |
| `EventsProofs` | theorems about `Events` | |
| `Routing` | where a request goes | |
| `RoutingProofs` | theorems about `Routing` | |
| `Launch` | `run` and `config` of the adapters, the settings file, the broker that loads it | |
| `LaunchProofs` | theorems about `Launch` | |
| `MC*` | symmetry sets and constants for TLC | |

### Broker

A request is an element of `Requests` and stands for its `request_id`, a fresh
UUID. `pc[r]` is where its handler stands, one label per statement or await:

    idle -> read_body -+-> block_start -> block_violation -> [block_approval] -> block_finalize -> reply
                       +-> low_start -> low_violation -+
                       +-------------------------------+-> allow_start -> [allow_payload] -> forward
    forward -> await -> finalize -> reply / streaming   (an error of the buffered path too)
                                 -> buffering -> reply

`storage_lock` is the set of handlers inside the mutex. A `storage.lock()`
block is entered with its first statement, one action, and left with its last;
the statements in between are actions of their own, so a crash or other handlers
come between them. The scan is an input: `matched[r]` is `"none"` or the
severity of the first match (which rule that is, `Rules` says),
`"unrecognised"` for a severity string that `risk_level_from_severity` maps to
low. `stream_passthrough`, the forwarding mode, is a variable `Init` chooses. Every statement may fail (`Fails`); the
code drops the error and goes on, so the action goes on too, and `failed[r]`
remembers it. `MaxFaults` bounds the failures of a run, `MaxCrashes` the
crashes. A crash ends every handler and keeps the tables: each call is one
SQLite transaction. This is a crash of the process; a power failure, where
`synchronous = NORMAL` may lose the last transactions, is not modelled.

A handler that awaits may be dropped (`ClientGone`) and one whose body is not
UTF-8, or whose URL does not parse, panics. Neither happens while it holds the
mutex, as those blocks have no await. Mutex poisoning therefore has one source
only (see "Not modelled"). `upstream[r]` is what the upstream did, `outcome[r]` a
history variable: how the exchange really ended. `HeardOf`, `ShownOf` and
`ReasonOf` read one request's `Exchange` off `upstream`, `pc` and `outcome`.

### ProxyStream

`phase` is where `forward_upstream` stands, `head` and `source` what the
upstream has done, `produced` and `delivered` the chunks it sent and the client
got. `upstream_sleep` and `idle_sleep` are what is left of the timers. Time is
`Tick`, which runs down every timer that is set and hurries nobody: a client
that reads slowly is a `Poll` that comes late, and a timer that has run down is
noticed only then. `quiet` is a history variable, the length of the
upstream's silence. `poll_next` is atomic and split by outcome (`PollChunk`,
`PollEnd`, `PollPending`, `PollTimeout`). `Heard`, `Shown` and `Reason` make it
an `Exchange`. A future dropped while it still connects has no guard to report
through (`DroppedUnheard`), so the mapping, not the code, calls that end
`client_cancelled`. That both modules implement `Exchange` is what lets `Broker` leave
timers and chunks out.

### Events

`pc[p]` goes from `idle` over `limit` (authorised, not yet through the limiter)
and `persist` to `stored` and `done`. `recent_events` is the deque of each key;
`admissions` a history variable, everything ever let through by this process.
The clock is read under the limiter's lock (`allow(key, Instant::now())`
evaluates its arguments after the guard is taken), so reading and deciding are
one action; the mutant that reads it before waiting breaks `RateIsBounded`.
`form[p]` is what a post says of its sender and `CorrelationId` the key that
makes of it: the session, or else runtime, minute and working directory.
`EventService` has neither deque nor pruning, locks or statements: it counts
the admissions within the window. `StateOf` maps a post's place to it.

### Routing

The configuration (registry, defaults) and the two hash map orders are
variables that `Init` chooses and `RestartAndRetry` shuffles (the orders only),
so one run covers every configuration of the instance. A path is the sequence
of its segments after the protocol. Base URLs are equal or different;
`normalize_join` trims a trailing slash and keeps path and query, and this is
all the model says of it.

### ApprovalStore

`Decide` is the part of `decide` under the requests' lock, `RecordAction` the
push after it; `deciding[c]` is what a caller has still to push. `clock` and
`expires_at` are seconds, compared as the code does, as text: `TextLess` is
the lexical order of two-digit numerals here, and `ClockAssumption` states
that range; the code's ten digits stay equally long until the year 2286.
`DecisionRegister` has one outcome, choice and record for each request. The choice it
speaks of exists between the two locks as a caller's local variable only:
`ChosenFor` finds it in the log or, before that, with the caller about to push it.

### Guard

`Guard` extends `ApprovalStore`; the server is one of its `Callers`. `Handle` is
a line that takes one look at the store, `DecideApproval` and `RecordDecision`
the two steps of `decide` with the answer after the second. A read and a write
touch nothing that is shared, and the look at the store in between is under its
lock, so a line is one action where it has one such look. `told` is the history of
tool calls and answers, `Reply` may also find stdout closed, which ends the server.
Today's binary has no other caller and no creator of requests, as nothing
connects it to the broker's database; the store is an `Arc` whose methods take
`&self`, so the model has both and the theorems hold for any number of callers.

### Rules

`dir` is what the files of the rules directory hold. A start lists it
(`StartLoading`) and reads its files one by one (`LoadFile`), in an order the
file system chooses; the user may `Edit` a file between any two of these.
A rule is what it finds, its severity and whether its pattern compiles; a body the set
of things that can be found in it. `listed` and `read` are history variables: what the last
start found and read. A matched text of n characters is the sequence of their
places, so that what `Sanitize` shows of it can be told from what it hides.

### BrokerProcess

Each element of `Starts` is a start command and the process it spawns. `Script`
is the sequence of schema statements of `initialize`, which `at[p]` runs
through, each its own transaction: other processes, a `SIGTERM`, a failure or
a death come between any two. A table made new has all its columns, and the
`ALTER TABLE` that finds its column there goes on. Past the last statement the process
binds the port, or ends because it is taken. `doomed` are the processes `pkill
-f creavor-broker` has signalled, those still starting included. The commands
ask whoever serves (`Healthy`), if they ask at the right port at all
(`same_port`: they read `CREAVOR_BROKER_URL`, the broker its settings).
`BrokerService` knows two things, whether the schema is whole and who serves,
and promises that the first is never undone and the second is at most one, and only
on a whole schema.

### Launch

Each element of `Procs` is one command: `job[p]` says for which runtime, whether
`run` or `config`, and which URL the client had. The adapters are records, as
their files differ in nothing but the name and Claude's registration. `pc[p]`:

    load -> [save_upstream -> write_upstream] -> done           config
                                              -> launch         run
                                              -> resolve -> [save_registry -> write_registry] -> launch

`std::fs::write` is two steps, `Truncate` and `Write`; a command that loads in
between finds an empty file, which parses as the defaults. `SaveFails` leaves
nothing, rubbish, or a prefix that still parses: it ends in the digits of the
port or between two entries (`Torn`). `settings[p]` is a command's copy of the whole
file, so `Write` undoes what others wrote since its `Load`. `port` stands for the
port and for all else in the file. `LooksLike` is what the substring test of
`is_broker_address` takes for the broker at a port: port 8765 for that at 876 too. The
health check asks at a port of its own, `CREAVOR_BROKER_URL`'s or the default.
`expected` is a history variable: what a command found that was alone, and what
has been changed since. `disturbed` remembers that two commands overlapped or a save was
cut short, after which nothing is promised of the sum until a command is alone
again, and opens a new account on what is left.

## The runs

| Run | Question | Bounds |
|---|---|---|
| `broker` | do the tables tell the truth, are the trail and the exchanges implemented, does a streaming handler ever wait for ever | 2 requests, both modes, 1 failing statement, 1 crash, payloads stored |
| `proxy_stream` | is it one exchange, does it end, with the right reason, however timers race | timeouts 4 and 3, 3 chunks |
| `guard` | is the register kept: a decision unique, recorded, final; is what the server tells so, and does it stay so | 2 requests, 1 session, 1 rule, the server and a caller; 2 instants, 2 answers |
| `rules` | is a policy whole, does a builtin verdict stand, is a match masked | 3 things to find, 2 rule files and one that is none, 4 lengths of a match, 1 edit |
| `broker_process` | do starts, stops and deaths leave one broker on a whole schema, and true reports | 3 starts, 1 stop, 3 statements, 1 fault or death |
| `events` | is the rate bounded, and do queue, locks and statements decide as the window would | 4 posts, 2 keys, window 2, limit 2, 4 instants, 1 crash |
| `routing` | does a request go where it should, with its path | 2 protocols, 2 ids, 1 runtime, 2 bases, 1 path word |
| `launch` | what survives in a settings file that several commands write | 2 commands of 2 runtimes, 2 URLs, 2 ports that look alike, 4 ids (one shared, one given by hand), 1 hand-written file, 1 failure |

Why these bounds are enough to be worth running. Handlers meet only in the
mutex and the tables, and their rows are disjoint, so two show every pairwise
order; three would repeat it. One failing statement of each kind is tried at every
point. The timeouts differ, so that one timer cannot
stand in for the other, and three chunks let a timer be armed, used and re-armed.
Limit + 1 posts of one key are needed to violate the rate, four leave one for
the other key or for an event that left the window. Two entries, one protocol
each or both the same, are what the priority list can tell apart. Two commands
show every overlap of two; a port that is not the default shows a reset. Two answers of the server are what a
contradiction between answers takes, and two requests tell an answer about one
from an answer about the other. Two files give each an order, one can be
broken while the other is read, and seven characters are the shortest match
that is shown in part. Three starts are two that race and a third that meets what they
left; three statements are a new table, an old one and a column, the least
that a migration can be cut in. The theorems below have none of these bounds.

Some properties are proved and not run, as another that is run says as much of a
small instance: what a handler has written at each point (`HandlerInv`), that a
serving broker has a whole schema (`ServesWholeSchema`, part of what
`KeepsTheService` promises), that a deque is the window (`DequeIsTheWindow`,
behind `RateIsBounded`), that every end is reported and a reported end final
(`EveryEndIsReported`, `EndIsFinal`, parts of `IsOneExchange`), that decisions
have one record and outcomes stand (`OneRecordPerDecision`, `OutcomesAreFinal`,
parts of `KeepsTheRegister`), that tools/list offers what the tools understand
(`OfferedIsUnderstood`), and the types of the store (`TypeOK` of
`ApprovalStore`). Of what the liveness runs show, `NobodyGoesBack`,
`NothingPutsOffTimeouts` and `ProcessesGoOn` are the part that needs no
fairness.

Runs that find the code and its documents in disagreement, each with its line
in `PROJECT.json`:

| Run | What the documents say | What the code does |
|---|---|---|
| `broker_end` | every end is audited, early ones with their reason | a dropped handler leaves its row open |
| `approvals_late` | an expired request cannot be activated | `decide` does not look at `expires_at` |
| `routing_path_id` | the id in the path chooses the upstream | it is parsed, logged and ignored |
| `routing_query` | the tail keeps its query string | on a path with an upstream id it is lost |

`EveryEndIsAudited`, which `broker_end` checks, has two conjuncts, and each
fails alone: TLC's shortest counterexample breaks `CancelledIsFinal`; checked by
itself, `ReasonIsTruthful` fails too, as the streaming path closes every row as `ok`
when the head arrives (router.rs:381), a 504 of its own timeout included.

Some more, plain from the code, have no run of their own. `creavor broker start
--config F` hands F over in `CREAVOR_CONFIG` (broker.rs:97), which nothing
reads. A start whose child lost the port to another start's still says
"started successfully" (broker.rs:105); a stop during a start-up says "not
running" (broker.rs:123), and the broker comes up; a start right after a stop may
find the dying broker healthy. One line on the guard's stdin that is not UTF-8
ends it (mcp.rs:26), with every approval it holds in memory. The buffered path
has no timeout at all (router.rs:399, 472-480), so `Responds` is not asked of
it. `session_approvals` holds one rule per session (approval.rs:149), so that
allowing a second rule withdraws the first. Any first of two segments counts as an
upstream id (path_rewrite.rs:48), so /v1/openai/chat/completions is forwarded as
/completions, where router.rs:103 says that legacy routes have no id in their path;
a test in path_rewrite.rs expects the loss. A broker never reads its
settings again, so an id a command has just registered is unknown to a broker
that was running (claude.rs:32), where the design document (lines 657-682) has
the request go to it; it falls through to the protocol's first entry.
`creavor config claude` prints what to set (claude.rs:112-122), where
runtimes/claude-code/README.md:23 has the client changed for good. A client that already points
at the broker has that address entered in the registry (claude.rs:22-33), as
only the upstream table is guarded.

### Fairness

Safety is checked without any. `Responds` uses
`WF_vars(HandlerStep(r))` for each request: tokio polls every task that is
ready, and `std::sync::Mutex` is held for a bounded number of statements.
Weak fairness suffices because each holder leaves the mutex in finitely many
steps, whether its statements fail or not, and each of the finitely many
requests takes it finitely often. The client and the upstream (`PeerStep`) have no fairness: they may
be silent for ever, which is what the timeouts are for. `proxy_stream` has weak
fairness of the clock, of `Forward` and of `Poll`: tokio's timers fire, and the
client reads. `ExchangeEnds` needs the last once the head is there; a client that stops reading keeps
its stream, in the code as in the model. `StartupEnds` of `broker_process` has
weak fairness of a process's next statement or bind and of the death of a
signalled one: the system runs what is ready, SQLite's busy timeout ends a wait
for another process's lock. The commands have none.

## The proofs

`tlapm` proves the following for every value of the constants.

- **Broker.** `TypeOK` needs the verdict facts `Verdicts` with it. The mutex
  comes first (`LockInv`: a handler is at a locked label exactly when it is the one
  holder), then the invariant `IInv`: `TypeOK`, `LockInv`, and for every request what it
  has decided (`VerdictInv`), what the upstream has seen (`ExchangeInv`), what
  stands in its row (`RowInv`) and what else is on record (`EvidenceInv`), with
  the three safety properties that are inductive beside it. `StatementLocal`
  and `OthersKept` carry the frame: a statement of one request touches no other
  request's rows. `BlockedRecordsWhole` and the others follow; it needs
  `LockInv` because "the mutex is free" must rule out every locked label.
  `KeepsTheTrailCorrect` proves the refinement, one lemma per kind of step;
  scans map to `Block`, statements to `Open`, `Flag`, `Ask` and `Close`, the
  send to `Send`, everything else, crashes included, to a stutter.
  `ExchangesAreProperCorrect` does the same for `Exchange`, of all requests at once:
  a step moves one exchange and leaves the others, a crash loses every open
  one. It needs `OutcomeInv`, which ties `outcome` to where the handler stands,
  because the step that ends an exchange must find it open. `StoriesCorrect` then
  carries `OneStory` over: a 504 means a timeout before the head, a passed-on
  answer that the head came. `NobodyGoesBack` gives every place a number of steps
  left and shows that a handler's own step lowers it and nobody's raises it.
- **ProxyStream.** Types, the timer invariant `SilenceIsMeasured` and the
  report invariant are inductive together; `ReasonIsTrue` and `EndIsFinal` are
  action properties that follow step by step, the first from the timer
  invariant: a sleep at zero with nothing waiting means the full silence.
  `IsOneExchangeCorrect` is the refinement of `Exchange`, with `OneStory` as
  a consequence. `NothingPutsOffTimeouts` says that no step puts a timer back
  up while it runs, delivery of a chunk apart.
- **ApprovalStore.** Types, one record per decision, the source of a session's
  approval, and the finality of outcomes. The last needs `TextLess` to be the
  order on numbers, which is the lemma `TextLessIsLess`, by the assumption on the
  clock's range. `RegisterIsKept` is the refinement of `DecisionRegister`. That
  there is one record per decision is what locates the choice: where nobody or
  one caller has something to push, `ChosenFor` does not depend on which of
  several is looked at (`ChoiceFacts`), and a push moves the choice from the caller to
  the log without changing it (`ChoiceFrame`).
- **Guard.** `ServerUsesTheStore` shows that the whole, server and other
  callers, refines `ApprovalStore`'s `Spec`, so the theorems about the store
  carry over, the register too (`ServerKeepsTheRegister`). The other properties of the server need one invariant: every answer
  in `told` agrees with the store as it is now (`ToldOutcomesStand`, and that what was shown
  is not absent), which no step of anybody undoes because outcomes are final.
- **Rules.** The core is that in a concatenation the first sequence decides if it
  can (`ConcatMatch`). The inductive invariant says of a loading process that
  what it has collected is, file by file, what it has read; `BuiltinFirst`,
  `WholePolicy` and `FilesDecide` follow when it serves, and the first and the last make
  `VerdictHasItsSource`. `MatchesAreMasked` is
  arithmetic on places.
- **BrokerProcess.** The invariant is that a process past a statement has left
  its table or column there (`ScriptIsRun`) and that tables and columns only
  grow, so whoever reaches the bind has a whole schema, whatever others did.
  `OneServer` and `EndedByAnother` give `OneBrokerLeft`: an undisturbed
  process ends only because another serves. The refinement of `BrokerService` maps
  statements to the upgrade or to stutters. `ProcessesGoOn` bounds the steps of a
  start by the length of the script and one.
- **Events.** `KeyInv`, for each key: admissions are in order of time, the
  deque is their last part, what it forgot is out of the window, and admissions
  `Limit` apart are a window apart. The last is the theorem; the others
  make it inductive: when there is room in the deque, the admission `Limit`
  places back has been forgotten. `PoppedStops` shows that the pruning loop stops at
  a determined place, `PopKeepsKey` that entries it leaves are in the window. Both
  directions together are `TheWindowIsKept`: the pruned deque is full exactly when
  `Limit` admissions are in the window, as they are the deque's own
  entries and nothing else, so the queue decides as the abstract window does.
- **Launch.** `IInv` says that every copy of the settings, on disk, in a
  command or in the broker, is `Sound`, and ties each command's id to its URL.
  The two safety properties speak of the file and of the broker only, but what the
  file becomes comes from the commands' copies, and what an id means from the copy it was
  looked up in. Soundness is that no runtime's upstream is the broker and every id has
  one of its `Meanings`, the addresses it is derived from or was given by hand; an id
  with a single one can only mean that. A prefix of a sound copy is sound, which
  is why a failed save does no harm of this kind.
  `CommandsAddUp` has an invariant of its own, `AddsUp`: while nothing is disturbed one
  command at most is between its load and its last write, its copy is what the changes so far
  add up to and the one it is about to make, and a file being written is empty.
  A command that loads alone finds nobody between load and write, so the invariant
  holds again from there, whatever came before. What overlaps and cuts lose is not ruled
  out, as the code does lose it.
- **Routing.** An order of a finite set leaves out none of its elements
  (`OrderIsOnto`), so the first of some keys is one of them if there are any
  (`FirstFacts`). `BaseIsCandidate` goes down the priority list with that;
  the target is a function of configuration and orders (`TargetIsLocal`), and a
  restart keeps the former, so that it keeps the candidates, and a single one decides.

Assumptions: only those on the constants, each named in its module.
`DraftsAssumption`, that nobody writes the broker's own address into its settings by
hand, is the only one about people.

Left to TLC: liveness (`Responds`, `ExchangeEnds`, `StartupEnds`), as fairness
and `ENABLED` are out of the prover's reach, and the disagreements, which are
counterexamples. What could make liveness fail beside fairness, a handler that goes
round in a circle, a timer that is put off, a process that is thrown back, is
excluded by proof: `NobodyGoesBack`, `NothingPutsOffTimeouts`, `ProcessesGoOn`. TLC
adds that nobody is stuck.

## Not modelled

- YAML and regular expressions: a file loads or not, a rule finds what it finds.
  Block responses, redaction, header filtering, the guard's risk tables: formatting.
- Mutex poisoning: the one statement in a locked block that could panic is
  `now + timeout_secs` (router.rs:521), with an absurd timeout and overflow checks.
- The unbounded set of keys of the rate limiter (events.rs:140): a finite model
  has no growth to show, and the code no bound to state.
- Four storage methods, `migrate_from_legacy`, and `write_api_url` for Claude,
  which nothing calls. The session registry, which nothing fills.
- JSON-RPC ids and the wording of the guard's answers.
- Of the CLI, what only prints (`status`, `logs`, `rules-list`, `doctor`) or
  deletes leftovers (`cleanup`).

## What could come next

A composition of `Broker`, `Events` and the stream's tail, with the mutex
they share; and one of `Launch` and `Routing`, to follow an id from the command
that derives it to the upstream it reaches. `Launch` and `Routing` have no
abstract specification yet.
