------------------------------- MODULE Launch -------------------------------
(***************************************************************************)
(* `creavor run <runtime>` and `creavor config <runtime>`                  *)
(* (apps/creavor-cli/src/runtimes/), the settings file they change         *)
(* (libs/creavor-core/src/settings.rs) and the broker that reads it when   *)
(* it starts (apps/broker/src/lib.rs).                                     *)
(*                                                                         *)
(* Every command is a process of its own.  It loads the whole file,        *)
(* changes its copy and writes the whole copy back, with no lock:          *)
(* std::fs::write truncates the file when it opens it and fills it in a    *)
(* second step, so that other processes, a failure or a kill can come in   *)
(* between.                                                                *)
(*                                                                         *)
(* A client's API URL is an element of Urls, or a port, which stands for   *)
(* 127.0.0.1 and localhost at that port.                                   *)
(***************************************************************************)
EXTENDS Naturals

CONSTANTS
  Procs,        \* the processes; each runs one command
  Launched,     \* the runtimes they are started for
  Urls,         \* API URLs of providers
  Ports,        \* ports of the local broker
  DefaultPort,  \* BrokerSettings::default().port
  LooksLike,    \* for each port, the addresses whose text contains 127.0.0.1 or localhost at it
  Ids,          \* upstream ids
  DeriveId,     \* derive_upstream_id; URLs of one host share an id
  Drafts,       \* settings files written by hand
  MaxFaults,    \* bound on failed saves and killed processes
  None,         \* Option::None
  Absent, Empty, Broken, \* what a file is when it holds no settings
  Down          \* the broker, when it does not run

\* The adapters: each is the same pair of functions under another name.  Only
\* that of Claude Code also looks for an upstream id.
Claude   == [name |-> "claude-code", registers |-> TRUE]
Codex    == [name |-> "codex",       registers |-> FALSE]
Cline    == [name |-> "cline",       registers |-> FALSE]
Gemini   == [name |-> "gemini",      registers |-> FALSE]
OpenClaw == [name |-> "openclaw",    registers |-> FALSE]
OpenCode == [name |-> "opencode",    registers |-> FALSE]
Qwen     == [name |-> "qwen",        registers |-> FALSE]
Runtimes == {Claude, Codex, Cline, Gemini, OpenClaw, OpenCode, Qwen}

Names     == {runtime.name : runtime \in Launched}
Addresses == Urls \cup Ports

\* What the commands read and change: upstream, the registry (whose protocol
\* nothing here looks at), and the port for all the rest of the file.
Settings == [upstream : [Names -> Addresses \cup {None}],
             registry : [Ids -> Addresses \cup {None}],
             port     : Ports]
Default == [upstream |-> [name \in Names |-> None],
            registry |-> [id \in Ids |-> None],
            port     |-> DefaultPort]

Jobs == [runtime : Launched, command : {"run", "config"}, url : Addresses \cup {None}]

ASSUME LaunchedAssumption == Launched \subseteq Runtimes
ASSUME PortAssumption     == DefaultPort \in Ports /\ Ports \cap Urls = {}
\* A URL of port 8765 looks like one of port 876 too.
ASSUME LooksLikeAssumption ==
  LooksLike \in [Ports -> SUBSET Addresses] /\ \A port \in Ports : port \in LooksLike[port]
ASSUME DeriveIdAssumption == DeriveId \in [Addresses -> Ids]
ASSUME NoneAssumption     == None \notin Addresses \cup Ids \cup Names
ASSUME MarkAssumption     == {Absent, Empty, Broken, Down} \cap Settings = {}
\* Nobody writes the broker's own address into its settings by hand.
ASSUME DraftsAssumption ==
  /\ Drafts \subseteq Settings
  /\ \A draft \in Drafts, name \in Names : draft.upstream[name] # draft.port

VARIABLES
  file,         \* ~/.config/creavor/config.toml
  legacy,       \* ~/.opencreavor/settings.json, which nothing writes
  broker,       \* the settings the running broker loaded
  pc, job,      \* of a process: where it stands, and what it was started for
  settings,     \* its copy of the settings
  upstream_id,  \* the id it puts into X-Creavor-Upstream
  route,        \* how it launched its client
  faults,       \* failures so far
  expected,     \* history: what a command found alone, and what was changed since
  disturbed     \* history: since a command was last alone, two overlapped or a save was cut short

files   == <<file, legacy>>
locals  == <<pc, job, settings, upstream_id, route>>
history == <<faults, expected, disturbed>>
vars    == <<files, broker, locals, history>>
-----------------------------------------------------------------------------
(* settings.rs. *)

\* Mutant: the legacy file comes first.
LoadLegacyFirst(new, old) ==
  IF old \in Settings THEN old ELSE IF new \in Settings THEN new ELSE Default
\* Mutant: a file that does not parse is used as it is.
LoadUnparsed(new, old) ==
  IF new \notin {Absent, Empty} THEN new
  ELSE IF new # Empty /\ old \in Settings THEN old ELSE Default
\* load_or_default.  An empty file is valid TOML and gives the defaults.
LoadOrDefault(new, old) ==
  IF new \in Settings THEN new
  ELSE IF new # Empty /\ old \in Settings THEN old ELSE Default

Part(entries, keys) == [key \in DOMAIN entries |-> IF key \in keys THEN entries[key] ELSE None]
\* What a write that fails leaves: nothing, text that does not parse, or a prefix
\* that does.  That ends in the digits of the port, or between two entries of a
\* table, which are written in the order of a HashMap, the registry's last.
Torn(s) ==
  {Empty, Broken}
  \cup {[Default EXCEPT !.port = port] : port \in Ports}
  \cup {[s EXCEPT !.upstream = Part(s.upstream, names), !.registry = Default.registry] :
           names \in SUBSET Names}
  \cup {[s EXCEPT !.registry = Part(s.registry, ids)] : ids \in SUBSET Ids}

SetUpstream(s, name, url) == [s EXCEPT !.upstream[name] = url]

-----------------------------------------------------------------------------
(* runtime.rs and upstream.rs. *)

\* Mutant: only the default port is taken for the broker's.
IsDefaultAddress(url, s) == url \in LooksLike[DefaultPort]
IsBrokerAddress(url, s) == url \in LooksLike[s.port]

\* Mutant: any entry will do.
FindAny(s, url) == {id \in Ids : s.registry[id] # None}
\* find_by_url: the first in the order of a HashMap, so any.
FindByUrl(s, url) == {id \in Ids : s.registry[id] = url}

Register(s, id, url) == [s EXCEPT !.registry[id] = url]

-----------------------------------------------------------------------------
(* The commands. *)

Real(url, s) == url # None /\ ~IsBrokerAddress(url, s)

\* After the first save, or without one: what a command goes on with.
Continue(j) ==
  IF j.command = "config" THEN "done"
  ELSE IF j.runtime.registers THEN "resolve" ELSE "launch"

\* Between its load and its last write.
Changing == {"save_upstream", "write_upstream", "resolve", "save_registry", "write_registry"}
Overlaps(p) == \E q \in Procs \ {p} : pc[q] \in Changing

Init ==
  /\ file \in Drafts \cup {Absent, Empty, Broken}
  /\ legacy \in Drafts \cup {Absent, Broken}
  /\ broker = Down
  /\ pc = [p \in Procs |-> "load"]
  /\ job \in [Procs -> Jobs]
  /\ settings = [p \in Procs |-> Default]
  /\ upstream_id = [p \in Procs |-> None]
  /\ route = [p \in Procs |-> None]
  /\ faults = 0
  /\ expected = LoadOrDefault(file, legacy)
  /\ disturbed = FALSE

\* Load the settings and, if the client's URL is a provider's, set it.  A command
\* that finds no other at work opens a new account: what is there, plus changes.
Load(p) ==
  LET loaded == LoadOrDefault(file, legacy)
      j      == job[p]
  IN  /\ pc[p] = "load"
      /\ IF Real(j.url, loaded)
         THEN /\ settings' = [settings EXCEPT ![p] = SetUpstream(loaded, j.runtime.name, j.url)]
              /\ pc' = [pc EXCEPT ![p] = "save_upstream"]
         ELSE /\ settings' = [settings EXCEPT ![p] = loaded]
              /\ pc' = [pc EXCEPT ![p] = Continue(j)]
      /\ disturbed' = Overlaps(p)
      /\ expected' = IF Overlaps(p) THEN expected ELSE loaded
      /\ UNCHANGED <<files, broker, job, upstream_id, route, faults>>

\* save, first half: std::fs::write opens the file and truncates it.
Truncate(p) ==
  /\ \/ pc[p] = "save_upstream" /\ pc' = [pc EXCEPT ![p] = "write_upstream"]
     \/ pc[p] = "save_registry" /\ pc' = [pc EXCEPT ![p] = "write_registry"]
  /\ file' = Empty
  /\ UNCHANGED <<legacy, broker, job, settings, upstream_id, route, history>>

\* save, second half.  If the file is no longer empty, another process has
\* written since; of a longer text the end remains.
Write(p) ==
  LET j == job[p]
  IN  /\ \/ /\ pc[p] = "write_upstream"
            /\ pc' = [pc EXCEPT ![p] = Continue(j)]
            /\ expected' = SetUpstream(expected, j.runtime.name, j.url)
         \/ /\ pc[p] = "write_registry"
            /\ pc' = [pc EXCEPT ![p] = "launch"]
            /\ expected' = Register(expected, upstream_id[p], j.url)
      /\ file' \in {settings[p]} \cup IF file = Empty THEN {} ELSE {Broken}
      /\ UNCHANGED <<legacy, broker, job, settings, upstream_id, route, faults, disturbed>>

\* A save that fails to open the file leaves it alone, one that fails to write
\* it leaves a part.  The first save of a command ends it, the second is
\* ignored.
SaveFails(p) ==
  /\ faults < MaxFaults
  /\ faults' = faults + 1
  /\ \/ /\ pc[p] \in {"save_upstream", "save_registry"}
        /\ UNCHANGED <<file, disturbed>>
     \/ /\ pc[p] \in {"write_upstream", "write_registry"}
        /\ file' \in Torn(settings[p])
        /\ disturbed' = TRUE
  /\ pc' = [pc EXCEPT ![p] = IF @ \in {"save_upstream", "write_upstream"} THEN "done" ELSE "launch"]
  /\ UNCHANGED <<legacy, broker, job, settings, upstream_id, route, expected>>

\* No URL: the header gets the name of some configured runtime.
ResolveWithoutUrl(p) ==
  LET configured == {name \in Names : settings[p].upstream[name] # None}
  IN  /\ pc[p] = "resolve" /\ job[p].url = None
      /\ upstream_id' \in {[upstream_id EXCEPT ![p] = name] :
                             name \in IF configured = {} THEN {None} ELSE configured}
      /\ pc' = [pc EXCEPT ![p] = "launch"]
      /\ UNCHANGED <<files, broker, job, settings, route, history>>

\* The registry has an entry for the URL.
ResolveFound(p) ==
  /\ pc[p] = "resolve" /\ job[p].url # None
  /\ \E id \in FindByUrl(settings[p], job[p].url) :
       upstream_id' = [upstream_id EXCEPT ![p] = id]
  /\ pc' = [pc EXCEPT ![p] = "launch"]
  /\ UNCHANGED <<files, broker, job, settings, route, history>>

\* It has none: derive an id, and register the URL under it unless it is taken.
ResolveDerived(p) ==
  LET url == job[p].url
      id  == DeriveId[url]
  IN  /\ pc[p] = "resolve" /\ url # None
      /\ FindByUrl(settings[p], url) = {}
      /\ upstream_id' = [upstream_id EXCEPT ![p] = id]
      /\ IF settings[p].registry[id] = None
         THEN /\ settings' = [settings EXCEPT ![p] = Register(@, id, url)]
              /\ pc' = [pc EXCEPT ![p] = "save_registry"]
         ELSE /\ pc' = [pc EXCEPT ![p] = "launch"]
              /\ UNCHANGED settings
      /\ UNCHANGED <<files, broker, job, route, history>>

\* health_check: something is asked at a port, and the broker listens at its own.
Healthy(asked) == broker # Down /\ broker.port = asked

\* The client is started, through the broker if that answers at the port asked,
\* CREAVOR_BROKER_URL's or the default one: not the settings'.  The client's
\* binary may be missing.
LaunchClient(p) ==
  /\ pc[p] = "launch"
  /\ \/ \E asked \in Ports :
          route' = [route EXCEPT ![p] = IF Healthy(asked) THEN "proxied" ELSE "direct"]
     \/ UNCHANGED route
  /\ pc' = [pc EXCEPT ![p] = "done"]
  /\ UNCHANGED <<files, broker, job, settings, upstream_id, history>>

Kill(p) ==
  /\ pc[p] # "done"
  /\ faults < MaxFaults
  /\ faults' = faults + 1
  /\ pc' = [pc EXCEPT ![p] = "done"]
  /\ disturbed' = (disturbed \/ pc[p] \in {"write_upstream", "write_registry"})
  /\ UNCHANGED <<files, broker, job, settings, upstream_id, route, expected>>

\* The broker loads its settings once.
BrokerStart ==
  /\ broker = Down
  /\ broker' = LoadOrDefault(file, legacy)
  /\ UNCHANGED <<files, locals, history>>

BrokerStop ==
  /\ broker # Down
  /\ broker' = Down
  /\ UNCHANGED <<files, locals, history>>

Resolve(p) == ResolveWithoutUrl(p) \/ ResolveFound(p) \/ ResolveDerived(p)
Next ==
  \/ BrokerStart \/ BrokerStop
  \/ \E p \in Procs : \/ Load(p) \/ Truncate(p) \/ Write(p) \/ SaveFails(p)
                      \/ Resolve(p) \/ LaunchClient(p) \/ Kill(p)

Spec == Init /\ [][Next]_vars
-----------------------------------------------------------------------------
(* Properties. *)

Files == Settings \cup {Absent, Empty, Broken}
Steps == Changing \cup {"load", "launch", "done"}

TypeOK ==
  /\ file \in Files /\ legacy \in Files
  /\ broker \in Settings \cup {Down}
  /\ pc \in [Procs -> Steps]
  /\ job \in [Procs -> Jobs]
  /\ settings \in [Procs -> Settings]
  /\ upstream_id \in [Procs -> Ids \cup Names \cup {None}]
  /\ route \in [Procs -> {None, "direct", "proxied"}]
  /\ faults \in 0 .. MaxFaults
  /\ expected \in Settings /\ disturbed \in BOOLEAN

Loaded == LoadOrDefault(file, legacy)

\* Whatever happens to the file, a broker started on it does not have itself
\* for a runtime's upstream (the check with is_broker_address before every
\* set_upstream): not by a client that already points at it, not by two
\* commands at once, not by a copy of which only a part was saved.
NeverTheBrokerItself ==
  \A s \in {Loaded, broker} \ {Down} : \A name \in Names : s.upstream[name] # s.port

\* Commands that do not overlap and whose saves are not cut short add up: the
\* file holds what the first of them found, in either of its two homes, and what
\* each of them set, and has lost nothing (load_or_default, set_upstream, save).
\* That begins anew with the first command that is alone after an overlap or a
\* cut, on whatever these have left.
CommandsAddUp ==
  ~disturbed /\ (\A p \in Procs : pc[p] \notin {"write_upstream", "write_registry"}) =>
    Loaded = expected

\* The addresses an id may stand for: those it is derived from, which share a
\* host, and those somebody has given it by hand.
Meanings(id) ==
  {a \in Addresses : DeriveId[a] = id} \cup ({draft.registry[id] : draft \in Drafts} \ {None})

\* An id a client sends stands for the client's own URL, and the broker, if it
\* knows the id, takes it to the same place, whenever it started and whatever
\* became of the file since.  Only an id that several addresses share may take
\* it to another of these: derive_upstream_id looks at the host alone, and an id
\* that is taken is sent all the same.  Clients without a URL are left out, as
\* their header names a runtime.
IdNamesItsUpstream ==
  \A p \in Procs :
    LET id == upstream_id[p]
        shared == \E a, b \in Meanings(id) : a # b
    IN  broker # Down /\ route[p] = "proxied" /\ job[p].url # None /\ id \in Ids =>
          /\ job[p].url \in Meanings(id)
          /\ broker.registry[id] \in IF shared THEN Meanings(id) \cup {None}
                                      ELSE {job[p].url, None}
=============================================================================
