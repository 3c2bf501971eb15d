---------------------------- MODULE LaunchProofs ----------------------------
(***************************************************************************)
(* Theorems about Launch: its types, and that neither the settings file    *)
(* nor the registry ever points a client at the wrong place, for any       *)
(* number of processes, runtimes, addresses and failures.                  *)
(***************************************************************************)
EXTENDS Launch, TLAPS

\* What every copy of the settings has, on disk or in memory: no runtime's
\* upstream is the broker, and every id has an address it may stand for.
Sound(s) ==
  /\ s \in Settings
  /\ \A name \in Names : s.upstream[name] # s.port
  /\ \A id \in Ids : s.registry[id] # None => s.registry[id] \in Meanings(id)

Copies ==
  /\ file \in Settings => Sound(file)
  /\ legacy \in Settings => Sound(legacy)
  /\ broker # Down => Sound(broker)
  /\ \A p \in Procs : Sound(settings[p])

\* What a process knows of its own job at each step.
LocalInv ==
  \A p \in Procs :
    /\ pc[p] \in {"save_upstream", "write_upstream"} => job[p].url \in Addresses
    /\ pc[p] \in {"save_registry", "write_registry"} =>
         job[p].url \in Addresses /\ upstream_id[p] \in Ids
    /\ upstream_id[p] \in Ids /\ job[p].url # None => job[p].url \in Meanings(upstream_id[p])

IInv == TypeOK /\ Copies /\ LocalInv

-----------------------------------------------------------------------------
(* The operators on settings. *)

LEMMA DefaultSound == Sound(Default)
BY PortAssumption, NoneAssumption DEF Sound, Default, Settings, Addresses

\* Files written by hand are sound, by assumption and by what Meanings are.
LEMMA DraftSound == \A draft \in Drafts : Sound(draft)
<1> SUFFICES ASSUME NEW draft \in Drafts PROVE Sound(draft)
  OBVIOUS
<1>1. draft \in Settings /\ \A name \in Names : draft.upstream[name] # draft.port
  BY DraftsAssumption
<1>2. ASSUME NEW id \in Ids, draft.registry[id] # None
      PROVE  draft.registry[id] \in Meanings(id)
  BY <1>2 DEF Meanings
<1> QED BY <1>1, <1>2 DEF Sound

\* load_or_default returns sound settings if the files hold none but such.
LEMMA LoadSound ==
  ASSUME NEW new, NEW old, new \in Settings => Sound(new), old \in Settings => Sound(old)
  PROVE  Sound(LoadOrDefault(new, old))
<1>1. \/ new \in Settings /\ LoadOrDefault(new, old) = new
      \/ old \in Settings /\ LoadOrDefault(new, old) = old
      \/ LoadOrDefault(new, old) = Default
  BY DEF LoadOrDefault
<1> QED BY <1>1, DefaultSound

\* set_upstream behind its guard.
LEMMA SetUpstreamSound ==
  ASSUME NEW s, Sound(s), NEW name \in Names, NEW url \in Addresses, url # s.port
  PROVE  Sound(SetUpstream(s, name, url))
BY DEF Sound, SetUpstream, Settings

\* insert under the derived id.
LEMMA RegisterSound ==
  ASSUME NEW s, Sound(s), NEW url \in Addresses
  PROVE  Sound(Register(s, DeriveId[url], url))
<1>1. DeriveId[url] \in Ids /\ url \in Meanings(DeriveId[url])
  BY DeriveIdAssumption DEF Meanings
<1>. QED  BY <1>1 DEF Sound, Register, Settings

\* A part of a table holds none but the table's own entries.
LEMMA PartType ==
  ASSUME NEW D, NEW R, NEW keys, NEW entries \in [D -> R \cup {None}]
  PROVE  /\ Part(entries, keys) \in [D -> R \cup {None}]
         /\ \A key \in D : Part(entries, keys)[key] \in {entries[key], None}
BY DEF Part

\* What is left of a copy that was saved in part.
LEMMA TornSound ==
  ASSUME NEW s, Sound(s), NEW t \in Torn(s), t \in Settings
  PROVE  Sound(t)
<1>1. t # Empty /\ t # Broken
  BY MarkAssumption
<1>2. ASSUME NEW port \in Ports, t = [Default EXCEPT !.port = port] PROVE Sound(t)
  BY <1>2, NoneAssumption, DefaultSound DEF Sound, Default, Settings, Addresses
<1>3. ASSUME NEW names \in SUBSET Names,
             t = [s EXCEPT !.upstream = Part(s.upstream, names), !.registry = Default.registry]
      PROVE  Sound(t)
  <2>1. s \in Settings /\ s.port \in Addresses /\ s.port # None
    BY NoneAssumption DEF Sound, Settings, Addresses
  <2>2. s.upstream \in [Names -> Addresses \cup {None}]
    BY <2>1 DEF Settings
  <2>3. /\ Part(s.upstream, names) \in [Names -> Addresses \cup {None}]
        /\ \A name \in Names : Part(s.upstream, names)[name] \in {s.upstream[name], None}
    BY <2>2, PartType
  <2>4. \A name \in Names : Part(s.upstream, names)[name] # s.port
    BY <2>1, <2>3 DEF Sound
  <2>. QED  BY <1>3, <2>1, <2>3, <2>4, DefaultSound DEF Sound, Default, Settings
<1>4. ASSUME NEW ids \in SUBSET Ids, t = [s EXCEPT !.registry = Part(s.registry, ids)]
      PROVE  Sound(t)
  <2>1. /\ Part(s.registry, ids) \in [Ids -> Addresses \cup {None}]
        /\ \A id \in Ids : Part(s.registry, ids)[id] \in {s.registry[id], None}
    BY PartType DEF Sound, Settings
  <2>. QED  BY <1>4, <2>1 DEF Sound, Settings
<1> QED BY <1>1, <1>2, <1>3, <1>4 DEF Torn

LEMMA TornIsFile == ASSUME NEW s \in Settings PROVE Torn(s) \subseteq Files
<1>. SUFFICES ASSUME NEW t \in Torn(s) \ {Empty, Broken} PROVE t \in Settings
  BY DEF Files
<1>1. Default \in Settings
  BY DefaultSound DEF Sound
<1>2. ASSUME NEW port \in Ports, t = [Default EXCEPT !.port = port] PROVE t \in Settings
  BY <1>1, <1>2 DEF Settings
<1>3. ASSUME NEW names \in SUBSET Names,
             t = [s EXCEPT !.upstream = Part(s.upstream, names), !.registry = Default.registry]
      PROVE  t \in Settings
  <2>1. Part(s.upstream, names) \in [Names -> Addresses \cup {None}]
    BY PartType DEF Settings
  <2>. QED  BY <1>1, <1>3, <2>1 DEF Settings
<1>4. ASSUME NEW ids \in SUBSET Ids, t = [s EXCEPT !.registry = Part(s.registry, ids)]
      PROVE  t \in Settings
  <2>1. Part(s.registry, ids) \in [Ids -> Addresses \cup {None}]
    BY PartType DEF Settings
  <2>. QED  BY <1>4, <2>1 DEF Settings
<1> QED BY <1>2, <1>3, <1>4 DEF Torn

\* Types of the two changes, for the history.
LEMMA SetUpstreamType ==
  ASSUME NEW s \in Settings, NEW name \in Names, NEW url \in Addresses
  PROVE  SetUpstream(s, name, url) \in Settings
BY DEF SetUpstream, Settings

LEMMA RegisterType ==
  ASSUME NEW s \in Settings, NEW id \in Ids, NEW url \in Addresses
  PROVE  Register(s, id, url) \in Settings
BY DEF Register, Settings

LEMMA ContinueType == \A j \in Jobs : Continue(j) \in {"done", "resolve", "launch"}
BY DEF Continue

-----------------------------------------------------------------------------
(* The steps. *)

LEMMA InitIInv == ASSUME MaxFaults \in Nat, Init PROVE IInv
<1> USE DEF Init
<1>1. Copies
  BY DraftSound, DefaultSound, MarkAssumption DEF Copies
<1>2. expected \in Settings
  BY <1>1, LoadSound DEF Copies, Sound
<1>3. TypeOK
  <2>1. Default \in Settings
    BY DefaultSound DEF Sound
  <2>2. file \in Files /\ legacy \in Files
    BY DraftsAssumption DEF Files
  <2>3. faults \in 0 .. MaxFaults
    BY SMT
  <2>4. disturbed \in BOOLEAN
    BY Zenon
  <2>5. "load" \in Steps
    BY DEF Steps
  <2> QED BY <1>2, <2>1, <2>2, <2>3, <2>4, <2>5, Zenon DEF TypeOK
<1>4. LocalInv
  BY NoneAssumption DEF LocalInv
<1> QED BY <1>1, <1>3, <1>4 DEF IInv

LEMMA LoadStep == ASSUME IInv, NEW p \in Procs, Load(p) PROVE IInv'
<1> DEFINE loaded == LoadOrDefault(file, legacy)
           j == job[p]
<1> USE DEF Load
<1>1. Sound(loaded)
  BY LoadSound DEF IInv, Copies
<1>2. j \in Jobs /\ j.runtime.name \in Names
  BY DEF IInv, TypeOK, Jobs, Names
<1>3. settings \in [Procs -> Settings] /\ pc \in [Procs -> Steps]
  BY DEF IInv, TypeOK
<1>4. Sound(settings'[p]) /\ \A q \in Procs \ {p} : settings'[q] = settings[q]
  <2>1. CASE Real(j.url, loaded)
    <3>1. j.url \in Addresses /\ j.url # loaded.port
      BY <1>1, <1>2, <2>1, LooksLikeAssumption DEF Jobs, Real, IsBrokerAddress, Sound, Settings
    <3>2. Sound(SetUpstream(loaded, j.runtime.name, j.url))
      BY <1>1, <1>2, <3>1, SetUpstreamSound
    <3> HIDE DEF loaded, j
    <3> QED BY <1>3, <2>1, <3>2 DEF loaded, j
  <2>2. CASE ~Real(j.url, loaded)
    BY <1>1, <1>3, <2>2
  <2> QED BY <2>1, <2>2
<1>5. Copies'
  BY <1>4 DEF IInv, Copies, files
<1>6. /\ \/ pc'[p] = "save_upstream" /\ Real(j.url, loaded)
         \/ pc'[p] \in {"done", "resolve", "launch"}
      /\ pc' \in [Procs -> Steps]
      /\ \A q \in Procs \ {p} : pc'[q] = pc[q]
  BY <1>2, <1>3, ContinueType DEF Steps, Changing
<1>7. settings' \in [Procs -> Settings]
  <2>1. \A q \in Procs : settings'[q] \in Settings
    BY <1>3, <1>4 DEF Sound
  <2>2. settings' = [settings EXCEPT ![p] = settings'[p]]
    BY <1>3
  <2> QED BY <1>3, <2>1, <2>2
<1>8. TypeOK'
  <2>1. disturbed' \in BOOLEAN
    BY DEF Overlaps
  <2>2. expected' \in Settings
    BY <1>1 DEF IInv, TypeOK, Sound
  <2> QED BY <1>6, <1>7, <2>1, <2>2 DEF IInv, TypeOK, files
<1>9. LocalInv'
  <2>1. Real(j.url, loaded) => j.url \in Addresses
    BY <1>2 DEF Real, Jobs
  <2> QED BY <1>6, <2>1 DEF IInv, LocalInv
<1> QED BY <1>5, <1>8, <1>9 DEF IInv

LEMMA TruncateStep == ASSUME IInv, NEW p \in Procs, Truncate(p) PROVE IInv'
<1> USE DEF Truncate, history
<1>1. TypeOK'
  BY DEF IInv, TypeOK, Files, Steps, Changing
<1>2. Copies'
  BY MarkAssumption DEF IInv, Copies
<1>3. LocalInv'
  BY DEF IInv, TypeOK, LocalInv
<1> QED BY <1>1, <1>2, <1>3 DEF IInv

LEMMA WriteStep == ASSUME IInv, NEW p \in Procs, Write(p) PROVE IInv'
<1> USE DEF Write
<1>1. job[p] \in Jobs /\ job[p].runtime.name \in Names
  BY DEF IInv, TypeOK, Jobs, Names
<1>2. file' \in {settings[p], Broken}
  OBVIOUS
<1>3. Copies'
  BY <1>2, MarkAssumption DEF IInv, Copies
<1>4. expected' \in Settings
  BY <1>1, SetUpstreamType, RegisterType DEF IInv, TypeOK, LocalInv
<1>5. pc' \in [Procs -> Steps] /\ pc'[p] \in {"done", "resolve", "launch"}
      /\ \A q \in Procs \ {p} : pc'[q] = pc[q]
  BY <1>1, ContinueType DEF IInv, TypeOK, Steps, Changing
<1>6. TypeOK'
  BY <1>2, <1>4, <1>5 DEF IInv, TypeOK, Files
<1>7. LocalInv'
  BY <1>5 DEF IInv, LocalInv
<1> QED BY <1>3, <1>6, <1>7 DEF IInv

LEMMA SaveFailsStep ==
  ASSUME MaxFaults \in Nat, IInv, NEW p \in Procs, SaveFails(p) PROVE IInv'
<1> USE DEF SaveFails
<1>1. Sound(settings[p]) /\ settings[p] \in Settings
  BY DEF IInv, Copies, Sound
<1>2. file' = file \/ file' \in Torn(settings[p])
  OBVIOUS
<1>3. Copies'
  BY <1>1, <1>2, TornSound DEF IInv, Copies
<1>4. pc' \in [Procs -> Steps] /\ pc'[p] \in {"done", "launch"}
      /\ \A q \in Procs \ {p} : pc'[q] = pc[q]
  BY DEF IInv, TypeOK, Steps, Changing
<1>5. TypeOK'
  <2>1. file' \in Files
    BY <1>1, <1>2, TornIsFile DEF IInv, TypeOK
  <2>2. disturbed' \in BOOLEAN
    BY Zenon DEF IInv, TypeOK
  <2>3. faults' \in 0 .. MaxFaults
    BY SMT DEF IInv, TypeOK
  <2> QED BY <1>4, <2>1, <2>2, <2>3 DEF IInv, TypeOK
<1>6. LocalInv'
  BY <1>4 DEF IInv, LocalInv
<1> QED BY <1>3, <1>5, <1>6 DEF IInv

LEMMA ResolveStep == ASSUME IInv, NEW p \in Procs, Resolve(p) PROVE IInv'
<1> USE DEF history, files
<1>1. CASE ResolveWithoutUrl(p)
  <2> USE <1>1 DEF ResolveWithoutUrl
  <2>1. upstream_id' \in [Procs -> Ids \cup Names \cup {None}] /\ \A q \in Procs \ {p} : upstream_id'[q] = upstream_id[q]
    BY DEF IInv, TypeOK
  <2>2. pc' \in [Procs -> Steps] /\ pc'[p] = "launch" /\ \A q \in Procs \ {p} : pc'[q] = pc[q]
    BY DEF IInv, TypeOK, Steps, Changing
  <2>3. TypeOK' /\ Copies'
    BY <2>1, <2>2 DEF IInv, TypeOK, Copies
  <2>4. LocalInv'
    BY <2>1, <2>2 DEF IInv, LocalInv
  <2> QED BY <2>3, <2>4 DEF IInv
<1>2. CASE ResolveFound(p)
  <2> USE <1>2 DEF ResolveFound
  <2> PICK id \in FindByUrl(settings[p], job[p].url) :
        upstream_id' = [upstream_id EXCEPT ![p] = id]
    OBVIOUS
  <2>1. id \in Ids /\ settings[p].registry[id] = job[p].url /\ job[p].url # None
    BY DEF FindByUrl
  <2>2. job[p].url \in Meanings(id)
    BY <2>1 DEF IInv, Copies, Sound
  <2>3. upstream_id' \in [Procs -> Ids \cup Names \cup {None}] /\ upstream_id'[p] = id
        /\ \A q \in Procs \ {p} : upstream_id'[q] = upstream_id[q]
    BY <2>1 DEF IInv, TypeOK
  <2>4. pc' \in [Procs -> Steps] /\ pc'[p] = "launch" /\ \A q \in Procs \ {p} : pc'[q] = pc[q]
    BY DEF IInv, TypeOK, Steps, Changing
  <2>5. TypeOK' /\ Copies'
    BY <2>3, <2>4 DEF IInv, TypeOK, Copies
  <2>6. LocalInv'
    BY <2>2, <2>3, <2>4 DEF IInv, LocalInv
  <2> QED BY <2>5, <2>6 DEF IInv
<1>3. CASE ResolveDerived(p)
  <2> USE <1>3 DEF ResolveDerived
  <2>1. /\ job[p].url \in Addresses /\ DeriveId[job[p].url] \in Ids
        /\ job[p].url \in Meanings(DeriveId[job[p].url])
    BY DeriveIdAssumption DEF IInv, TypeOK, Jobs, Meanings
  <2>2. upstream_id' \in [Procs -> Ids \cup Names \cup {None}]
        /\ upstream_id'[p] = DeriveId[job[p].url]
        /\ \A q \in Procs \ {p} : upstream_id'[q] = upstream_id[q]
    BY <2>1 DEF IInv, TypeOK
  <2>3. pc' \in [Procs -> Steps] /\ pc'[p] \in {"save_registry", "launch"}
        /\ \A q \in Procs \ {p} : pc'[q] = pc[q]
    BY DEF IInv, TypeOK, Steps, Changing
  <2>4. Sound(Register(settings[p], DeriveId[job[p].url], job[p].url))
    BY <2>1, RegisterSound DEF IInv, Copies
  <2>5. settings' \in [Procs -> Settings] /\ \A q \in Procs : Sound(settings'[q])
    <3>1. CASE settings' = settings
      BY <3>1 DEF IInv, TypeOK, Copies
    <3>2. CASE settings' = [settings EXCEPT ![p] = Register(@, DeriveId[job[p].url], job[p].url)]
      BY <2>4, <3>2 DEF IInv, TypeOK, Copies, Sound
    <3> QED BY <3>1, <3>2
  <2>6. TypeOK' /\ Copies'
    BY <2>2, <2>3, <2>5 DEF IInv, TypeOK, Copies
  <2>7. LocalInv'
    BY <2>1, <2>2, <2>3 DEF IInv, LocalInv
  <2> QED BY <2>6, <2>7 DEF IInv
<1> QED BY <1>1, <1>2, <1>3 DEF Resolve

LEMMA LaunchStep == ASSUME IInv, NEW p \in Procs, LaunchClient(p) PROVE IInv'
<1> USE DEF LaunchClient, files, history
<1>1. TypeOK'
  BY DEF IInv, TypeOK, Steps
<1>2. Copies'
  BY DEF IInv, Copies
<1>3. LocalInv'
  BY DEF IInv, TypeOK, LocalInv
<1> QED BY <1>1, <1>2, <1>3 DEF IInv

LEMMA KillStep == ASSUME MaxFaults \in Nat, IInv, NEW p \in Procs, Kill(p) PROVE IInv'
<1> USE DEF Kill, files
<1>1. TypeOK'
  BY DEF IInv, TypeOK, Steps
<1>2. Copies'
  BY DEF IInv, Copies
<1>3. LocalInv'
  BY DEF IInv, TypeOK, LocalInv
<1> QED BY <1>1, <1>2, <1>3 DEF IInv

LEMMA BrokerStep == ASSUME IInv, BrokerStart \/ BrokerStop PROVE IInv'
<1> USE DEF BrokerStart, BrokerStop, files, locals, history
<1>1. Sound(LoadOrDefault(file, legacy))
  BY LoadSound DEF IInv, Copies
<1>2. broker' = LoadOrDefault(file, legacy) \/ broker' = Down
  OBVIOUS
<1>3. Copies'
  BY <1>1, <1>2 DEF IInv, Copies
<1>4. TypeOK'
  BY <1>1, <1>2 DEF IInv, TypeOK, Sound
<1>5. LocalInv'
  BY DEF IInv, LocalInv
<1> QED BY <1>3, <1>4, <1>5 DEF IInv

-----------------------------------------------------------------------------
(* The theorems. *)

\* The inductive invariant: every copy of the settings is sound, and every
\* process has the id its URL stands for.
THEOREM InvariantCorrect == MaxFaults \in Nat => (Spec => []IInv)
<1> SUFFICES ASSUME MaxFaults \in Nat PROVE Spec => []IInv
  OBVIOUS
<1>1. Init => IInv
  BY InitIInv
<1>2. IInv /\ [Next]_vars => IInv'
  <2> SUFFICES ASSUME IInv, [Next]_vars PROVE IInv'
    OBVIOUS
  <2>1. CASE BrokerStart \/ BrokerStop
    BY <2>1, BrokerStep
  <2>2. ASSUME NEW p \in Procs,
               Load(p) \/ Truncate(p) \/ Write(p) \/ SaveFails(p) \/ Resolve(p)
                 \/ LaunchClient(p) \/ Kill(p)
        PROVE  IInv'
    BY <2>2, LoadStep, TruncateStep, WriteStep, SaveFailsStep, ResolveStep, LaunchStep, KillStep
  <2>3. CASE UNCHANGED vars
    BY <2>3 DEF vars, files, locals, history, IInv, TypeOK, Copies, LocalInv
  <2> QED BY <2>1, <2>2, <2>3 DEF Next
<1> QED BY <1>1, <1>2, PTL DEF Spec

\* Types of the files, of the commands' copies and of what they send.
THEOREM TypeCorrect == MaxFaults \in Nat => (Spec => []TypeOK)
<1>1. IInv => TypeOK
  BY DEF IInv
<1> QED BY <1>1, InvariantCorrect, PTL

\* The guard before set_upstream keeps the broker's own address out of what a
\* broker loads, in every interleaving and after every failure.
THEOREM NeverTheBrokerItselfCorrect == MaxFaults \in Nat => (Spec => []NeverTheBrokerItself)
<1>1. IInv => NeverTheBrokerItself
  <2> SUFFICES ASSUME IInv, NEW s \in {Loaded, broker} \ {Down} PROVE \A name \in Names : s.upstream[name] # s.port
    BY DEF NeverTheBrokerItself
  <2>1. Sound(Loaded)
    BY LoadSound DEF IInv, Copies, Loaded
  <2>2. Sound(s)
    BY <2>1 DEF IInv, Copies
  <2> QED BY <2>2 DEF Sound
<1> QED BY <1>1, InvariantCorrect, PTL

\* The id a client sends stands for its own URL, and to a broker that knows it
\* for the same one, or one that shares the id.
THEOREM IdNamesItsUpstreamCorrect == MaxFaults \in Nat => (Spec => []IdNamesItsUpstream)
<1>1. IInv => IdNamesItsUpstream
  <2> SUFFICES ASSUME IInv, NEW p \in Procs, broker # Down, job[p].url # None, upstream_id[p] \in Ids
               PROVE  /\ job[p].url \in Meanings(upstream_id[p])
                      /\ broker.registry[upstream_id[p]] \in Meanings(upstream_id[p]) \cup {None}
    BY DEF IdNamesItsUpstream
  <2>1. Sound(broker)
    BY DEF IInv, Copies
  <2>2. broker.registry[upstream_id[p]] \in Meanings(upstream_id[p]) \cup {None}
    BY <2>1 DEF Sound
  <2>3. job[p].url \in Meanings(upstream_id[p])
    BY DEF IInv, LocalInv
  <2> QED BY <2>2, <2>3
<1> QED BY <1>1, InvariantCorrect, PTL

-----------------------------------------------------------------------------
(* That undisturbed commands add up.                                        *)

Writing == {"write_upstream", "write_registry"}

\* What a command has in hand of what all the changes so far add up to.
InHand(p) ==
  /\ pc[p] \in {"save_upstream", "write_upstream"} =>
       settings[p] = SetUpstream(expected, job[p].runtime.name, job[p].url)
  /\ pc[p] = "resolve" => settings[p] = expected
  /\ pc[p] \in {"save_registry", "write_registry"} =>
       settings[p] = Register(expected, upstream_id[p], job[p].url)
  /\ pc[p] \in Writing => file = Empty

OnFile == (\A p \in Procs : pc[p] \notin Writing) => Loaded = expected
OneChanges == \A p, q \in Procs : pc[p] \in Changing /\ pc[q] \in Changing => p = q

AddsUp == ~disturbed => OneChanges /\ OnFile /\ \A p \in Procs : InHand(p)

\* A command that is between its load and its last write is the only one, and
\* whatever it does leaves the others' part of the invariant empty.
LEMMA OthersIdle ==
  ASSUME IInv, OneChanges, NEW p \in Procs, pc[p] \in Changing,
         NEW label \in Steps, pc' = [pc EXCEPT ![p] = label]
  PROVE  /\ OneChanges'
         /\ \A q \in Procs \ {p} : pc[q] \notin Changing /\ InHand(q)'
         /\ pc'[p] = label
<1>1. pc \in [Procs -> Steps]
  BY DEF IInv, TypeOK
<1>2. \A q \in Procs \ {p} : pc'[q] = pc[q] /\ pc[q] \notin Changing
  BY <1>1 DEF OneChanges
<1>3. \A q \in Procs \ {p} : InHand(q)'
  BY <1>2 DEF InHand, Changing, Writing
<1>. QED  BY <1>1, <1>2, <1>3 DEF OneChanges

LEMMA LoadAddsUp ==
  ASSUME IInv, AddsUp, NEW p \in Procs, Load(p)
  PROVE  AddsUp'
<1>. DEFINE loaded == LoadOrDefault(file, legacy)
            j == job[p]
<1>. SUFFICES ASSUME ~disturbed'
              PROVE  OneChanges' /\ OnFile' /\ \A q \in Procs : InHand(q)'
  BY DEF AddsUp
<1>1. \A q \in Procs \ {p} : pc[q] \notin Changing
  BY DEF Load, Overlaps
<1>2. pc \in [Procs -> Steps] /\ settings \in [Procs -> Settings] /\ j \in Jobs
  BY DEF IInv, TypeOK
<1>3. pc[p] = "load" /\ expected' = loaded
  BY DEF Load
<1>4. \A q \in Procs \ {p} : pc'[q] = pc[q]
  BY <1>2 DEF Load
<1>5. \A q \in Procs \ {p} : InHand(q)'
  BY <1>1, <1>4 DEF InHand, Changing, Writing
<1>6. UNCHANGED <<files, job>>
  BY DEF Load
<1>7. InHand(p)' /\ pc'[p] \notin Writing
  <2>1. CASE Real(j.url, loaded)
    <3>1. pc'[p] = "save_upstream" /\ settings'[p] = SetUpstream(loaded, j.runtime.name, j.url)
      BY <1>2, <2>1 DEF Load
    <3>. QED  BY <1>3, <1>6, <3>1 DEF InHand, Writing
  <2>2. CASE ~Real(j.url, loaded)
    <3>1. pc'[p] \in {"done", "resolve", "launch"} /\ settings'[p] = loaded
      BY <1>2, <2>2, ContinueType DEF Load
    <3>. QED  BY <1>3, <1>6, <3>1 DEF InHand, Writing
  <2>. QED  BY <2>1, <2>2
<1>8. OneChanges'
  BY <1>1, <1>4 DEF OneChanges
<1>9. OnFile'
  BY <1>3, <1>6 DEF OnFile, Loaded, files
<1>. QED  BY <1>5, <1>7, <1>8, <1>9

LEMMA SaveAddsUp ==
  ASSUME IInv, AddsUp, NEW p \in Procs, Truncate(p) \/ Write(p) \/ SaveFails(p)
  PROVE  AddsUp'
<1>. SUFFICES ASSUME ~disturbed'
              PROVE  OneChanges' /\ OnFile' /\ \A q \in Procs : InHand(q)'
  BY DEF AddsUp
<1>1. ~disturbed /\ OneChanges /\ OnFile /\ InHand(p) /\ pc[p] \in Changing
  BY DEF AddsUp, Truncate, Write, SaveFails, history, Changing
<1>2. pc \in [Procs -> Steps] /\ settings[p] \in Settings /\ job[p] \in Jobs
  BY DEF IInv, TypeOK
<1>3. CASE Truncate(p)
  <2>1. PICK label \in Writing :
          /\ pc' = [pc EXCEPT ![p] = label]
          /\ \/ pc[p] = "save_upstream" /\ label = "write_upstream"
             \/ pc[p] = "save_registry" /\ label = "write_registry"
    BY <1>3 DEF Truncate, Writing
  <2>2. /\ OneChanges' /\ pc'[p] = label
        /\ \A q \in Procs \ {p} : InHand(q)'
    BY <1>1, <2>1, OthersIdle DEF Writing, Steps, Changing
  <2>3. InHand(p)'
    BY <1>1, <1>3, <2>1, <2>2 DEF InHand, Truncate, history, Writing
  <2>4. OnFile'
    BY <2>2 DEF OnFile
  <2>. QED  BY <2>2, <2>3, <2>4
<1>4. CASE Write(p)
  <2>1. PICK label \in {"done", "resolve", "launch"} : pc' = [pc EXCEPT ![p] = label]
    BY <1>2, <1>4, ContinueType DEF Write
  <2>2. /\ OneChanges' /\ pc'[p] = label
        /\ \A q \in Procs \ {p} : InHand(q)'
    BY <1>1, <2>1, OthersIdle DEF Steps, Changing
  <2>3. file' = settings[p] /\ expected' = settings[p] /\ settings' = settings
    BY <1>1, <1>4 DEF Write, InHand, Writing
  <2>4. InHand(p)'
    BY <2>1, <2>2, <2>3 DEF InHand, Writing
  <2>5. OnFile'
    BY <1>2, <2>3 DEF OnFile, Loaded, LoadOrDefault
  <2>. QED  BY <2>2, <2>4, <2>5
<1>5. CASE SaveFails(p)
  <2>1. PICK label \in {"done", "launch"} : pc' = [pc EXCEPT ![p] = label]
    BY <1>5 DEF SaveFails
  <2>2. /\ OneChanges' /\ pc'[p] = label
        /\ \A q \in Procs \ {p} : pc[q] \notin Changing /\ InHand(q)'
    BY <1>1, <2>1, OthersIdle DEF Steps, Changing
  <2>3. pc[p] \notin Writing /\ UNCHANGED <<file, legacy, expected>>
    BY <1>5 DEF SaveFails, Writing
  <2>4. InHand(p)'
    BY <2>1, <2>2 DEF InHand, Writing
  <2>5. OnFile'
    BY <1>1, <2>2, <2>3 DEF OnFile, Loaded, Writing, Changing
  <2>. QED  BY <2>2, <2>4, <2>5
<1>. QED  BY <1>3, <1>4, <1>5

LEMMA ResolveAddsUp ==
  ASSUME IInv, AddsUp, NEW p \in Procs, Resolve(p)
  PROVE  AddsUp'
<1>. SUFFICES ASSUME ~disturbed'
              PROVE  OneChanges' /\ OnFile' /\ \A q \in Procs : InHand(q)'
  BY DEF AddsUp
<1>0. pc[p] = "resolve" /\ UNCHANGED <<file, legacy, job, faults, expected, disturbed>>
  BY DEF Resolve, ResolveWithoutUrl, ResolveFound, ResolveDerived, history, files
<1>1. ~disturbed /\ OneChanges /\ OnFile /\ InHand(p) /\ pc[p] \in Changing
  BY <1>0 DEF AddsUp, Changing
<1>2. /\ pc \in [Procs -> Steps] /\ settings \in [Procs -> Settings]
      /\ upstream_id \in [Procs -> Ids \cup Names \cup {None}]
  BY DEF IInv, TypeOK
<1>3. PICK label \in {"launch", "save_registry"} : pc' = [pc EXCEPT ![p] = label]
  BY DEF Resolve, ResolveWithoutUrl, ResolveFound, ResolveDerived
<1>4. /\ OneChanges' /\ pc'[p] = label
      /\ \A q \in Procs \ {p} : pc[q] \notin Changing /\ InHand(q)'
  BY <1>1, <1>3, OthersIdle DEF Steps, Changing
<1>5. ASSUME label = "save_registry"
      PROVE  settings'[p] = Register(expected, upstream_id'[p], job[p].url)
  <2>1. pc' # [pc EXCEPT ![p] = "launch"]
    BY <1>2, <1>4, <1>5
  <2>2. settings' = [settings EXCEPT ![p] = Register(@, DeriveId[job[p].url], job[p].url)]
        /\ upstream_id' = [upstream_id EXCEPT ![p] = DeriveId[job[p].url]]
    BY <2>1 DEF Resolve, ResolveWithoutUrl, ResolveFound, ResolveDerived
  <2>. QED  BY <1>0, <1>1, <1>2, <2>2 DEF InHand
<1>6. InHand(p)'
  BY <1>0, <1>4, <1>5 DEF InHand, Writing
<1>7. OnFile'
  BY <1>0, <1>1, <1>4 DEF OnFile, Loaded, Writing, Changing
<1>. QED  BY <1>4, <1>6, <1>7

\* The client's start and the end of a command change nothing that adds up.
LEMMA EndAddsUp ==
  ASSUME IInv, AddsUp, NEW p \in Procs, LaunchClient(p) \/ Kill(p)
  PROVE  AddsUp'
<1>. SUFFICES ASSUME ~disturbed'
              PROVE  OneChanges' /\ OnFile' /\ \A q \in Procs : InHand(q)'
  BY DEF AddsUp
<1>1. /\ pc' = [pc EXCEPT ![p] = "done"] /\ pc[p] \notin Writing /\ ~disturbed
      /\ UNCHANGED <<file, legacy, job, settings, upstream_id, expected>>
  <2>1. CASE LaunchClient(p)
    BY <2>1 DEF LaunchClient, history, files, Writing
  <2>2. CASE Kill(p)
    <3>1. ~disturbed /\ pc[p] \notin Writing
      BY <2>2, Zenon DEF Kill, Writing
    <3>. QED  BY <2>2, <3>1 DEF Kill, files
  <2>. QED  BY <2>1, <2>2
<1>2. OneChanges /\ OnFile /\ \A q \in Procs : InHand(q)
  BY <1>1 DEF AddsUp
<1>3. pc'[p] = "done" /\ \A q \in Procs \ {p} : pc'[q] = pc[q]
  BY <1>1 DEF IInv, TypeOK
<1>4. OneChanges'
  BY <1>2, <1>3 DEF OneChanges, Changing
<1>5. OnFile'
  BY <1>1, <1>2, <1>3 DEF OnFile, Loaded
<1>6. \A q \in Procs : InHand(q)'
  BY <1>1, <1>2, <1>3 DEF InHand, Writing
<1>. QED  BY <1>4, <1>5, <1>6

\* CommandsAddUp: without an overlap and a save cut short, the file holds what it
\* held when a command was last alone and what each has set (settings.rs 82-115).
THEOREM CommandsAddUpCorrect == MaxFaults \in Nat => (Spec => []CommandsAddUp)
<1>1. Init => AddsUp
  BY DEF Init, AddsUp, OneChanges, OnFile, InHand, Loaded, Changing, Writing
<1>2. ASSUME IInv, AddsUp, [Next]_vars  PROVE AddsUp'
  <2>1. ASSUME NEW p \in Procs,
               Load(p) \/ Truncate(p) \/ Write(p) \/ SaveFails(p) \/ Resolve(p)
                 \/ LaunchClient(p) \/ Kill(p)
        PROVE  AddsUp'
    BY <1>2, <2>1, LoadAddsUp, SaveAddsUp, ResolveAddsUp, EndAddsUp
  <2>2. CASE BrokerStart \/ BrokerStop \/ UNCHANGED vars
    BY <1>2, <2>2 DEF BrokerStart, BrokerStop, vars, files, locals, history,
                      AddsUp, OneChanges, OnFile, InHand, Loaded
  <2>. QED  BY <1>2, <2>1, <2>2 DEF Next
<1>3. AddsUp => CommandsAddUp
  BY DEF AddsUp, OnFile, CommandsAddUp, Writing
<1>. QED  BY <1>1, <1>2, <1>3, InvariantCorrect, PTL DEF Spec
=============================================================================
