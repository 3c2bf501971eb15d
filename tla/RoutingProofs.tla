---------------------------- MODULE RoutingProofs ----------------------------
(***************************************************************************)
(* What TLAPS proves of Routing, for every configuration and every order   *)
(* of the two maps.                                                        *)
(***************************************************************************)
EXTENDS Routing, FiniteSetTheorems, WellFoundedInduction, TLAPS

-----------------------------------------------------------------------------
(* The first key in the order of a map.                                     *)

LEMMA MinFacts ==
  ASSUME NEW places \in SUBSET Nat, places # {}
  PROVE  Min(places) \in places
<1>1. PICK i \in places : \A j \in places : <<j, i>> \notin OpToRel(<, Nat)
  BY WFMin, NatLessThanWellFounded, Zenon
<1>2. \A j \in places : ~(j < i)
  BY <1>1 DEF OpToRel
<1>3. \A j \in places : i =< j
  BY <1>2
<1>. QED  BY <1>3 DEF Min

\* An order of a finite set leaves out none of its elements.
LEMMA OrderIsOnto ==
  ASSUME NEW S, IsFiniteSet(S), NEW order \in Orders(S), NEW key \in S
  PROVE  \E i \in DOMAIN order : order[i] = key
<1>. DEFINE n == Cardinality(S)
<1>1. n \in Nat
  BY FS_CardinalityType
<1>2. order \in [1 .. n -> S] /\ \A i, j \in 1 .. n : order[i] = order[j] => i = j
  BY DEF Orders
<1>3. order \in Injection(1 .. n, S)
  BY <1>2 DEF Injection, IsInjective
<1>4. Cardinality(1 .. n) = n
  BY <1>1, FS_Interval
<1>5. order \in Surjection(1 .. n, S)
  BY <1>3, <1>4, FS_Injection
<1>. QED  BY <1>2, <1>5 DEF Surjection

\* First finds a key if there is one to find.
LEMMA FirstFacts ==
  ASSUME NEW S, IsFiniteSet(S), NEW order \in Orders(S), NEW keys \in SUBSET S
  PROVE  /\ keys = {} => First(order, keys) = None
         /\ keys # {} => First(order, keys) \in keys
<1>. DEFINE places == {i \in DOMAIN order : order[i] \in keys}
<1>1. keys = {} => places = {}
  OBVIOUS
<1>2. places \in SUBSET Nat
  <2>1. Cardinality(S) \in Nat
    BY FS_CardinalityType
  <2>. QED  BY <2>1 DEF Orders
<1>3. ASSUME keys # {}  PROVE  Min(places) \in places
  <2>1. PICK key \in keys : TRUE
    BY <1>3
  <2>2. places # {}
    BY <2>1, OrderIsOnto
  <2>. QED  BY <1>2, <2>2, MinFacts
<1>4. ASSUME keys # {}  PROVE  First(order, keys) = order[Min(places)]
  BY <1>3, <1>4 DEF First
<1>. QED  BY <1>1, <1>3, <1>4 DEF First

-----------------------------------------------------------------------------
(* Where a request goes.                                                    *)

\* The orders of the maps, apart from what is in them.
Ordered == id_order \in Orders(Ids) /\ name_order \in Orders(Names)
ConfigOK ==
  /\ upstream_registry \in [Ids -> Entry \cup {NoEntry}]
  /\ upstream \in [Names -> Bases \cup {None}]

\* The first entry of the protocol, if there is one, is one of those speaking it.
LEMMA ByProtocol ==
  ASSUME ConfigOK, Ordered, NEW r \in Request
  PROVE  LET id == FindByProtocol(r.protocol)
         IN  \/ id = None /\ Speaking(r) = {}
             \/ id \in Ids /\ upstream_registry[id].upstream \in Speaking(r)
<1>. DEFINE ids == {id \in Ids : Registered(id) /\ upstream_registry[id].protocol = r.protocol}
<1>1. r.protocol \in Protocols
  BY DEF Request
<1>2. \A id \in Ids : upstream_registry[id].protocol = r.protocol =>
         Registered(id) /\ upstream_registry[id].upstream \in Bases
  BY <1>1, NoneAssumption DEF ConfigOK, Entry, NoEntry, Registered
<1>3. ids = {} => First(id_order, ids) = None
  BY FirstFacts, FiniteAssumption DEF Ordered
<1>4. ids # {} => First(id_order, ids) \in ids
  BY FirstFacts, FiniteAssumption DEF Ordered
<1>5. Speaking(r) = {upstream_registry[id].upstream : id \in ids} \ {None}
  BY <1>2 DEF Speaking, BasesOf
<1>6. \A id \in ids : upstream_registry[id].upstream \in Speaking(r)
  BY <1>2, <1>5, NoneAssumption
<1>. HIDE DEF ids
<1>7. FindByProtocol(r.protocol) = First(id_order, ids)
  BY DEF FindByProtocol, ids
<1>8. CASE ids = {}
  BY <1>3, <1>5, <1>7, <1>8
<1>9. CASE ids # {}
  <2>1. First(id_order, ids) \in Ids
    BY <1>4, <1>9 DEF ids
  <2>. QED  BY <1>4, <1>6, <1>7, <1>9, <2>1
<1>. QED  BY <1>8, <1>9

\* An entry found by a URL has that URL.
LEMMA ByUrl ==
  ASSUME ConfigOK, Ordered, NEW url
  PROVE  LET id == FindByUrl(url)
         IN  id # None => id \in Ids /\ upstream_registry[id].upstream = url
<1>. DEFINE ids == {id \in Ids : Registered(id) /\ upstream_registry[id].upstream = url}
<1>1. ids \in SUBSET Ids
  OBVIOUS
<1>2. First(id_order, ids) = None \/ First(id_order, ids) \in ids
  <2>. HIDE DEF ids
  <2>. QED  BY <1>1, FirstFacts, FiniteAssumption DEF Ordered
<1>3. FindByUrl(url) = First(id_order, ids)
  BY DEF FindByUrl
<1>4. \A id \in ids : id \in Ids /\ upstream_registry[id].upstream = url
  OBVIOUS
<1>. HIDE DEF ids
<1>5. FindByUrl(url) = None \/ FindByUrl(url) \in ids
  BY <1>2, <1>3
<1>. QED  BY <1>4, <1>5

\* The last resort takes one of the configured URLs, if there is any.
LEMMA LastResort ==
  ASSUME ConfigOK, Ordered
  PROVE  \/ FirstUpstream = None /\ Anything = {}
         \/ FirstUpstream \in Anything
<1>. DEFINE names == {name \in Names : Configured(name)}
<1>0. IsFiniteSet(Names)
  BY FiniteAssumption DEF Names
<1>1. names = {} => First(name_order, names) = None
  BY <1>0, FirstFacts DEF Ordered
<1>2. names # {} => First(name_order, names) \in names
  BY <1>0, FirstFacts DEF Ordered
<1>3. \A name \in names : name # None /\ upstream[name] \in Anything
  BY NoneAssumption DEF Anything, Default, Configured, Names
<1>4. names = {} => Anything = {}
  BY DEF Anything, Default, Configured
<1>5. FirstUpstream = LET name == First(name_order, names)
                      IN  IF name = None THEN None ELSE upstream[name]
  BY DEF FirstUpstream
<1>. HIDE DEF names
<1>6. CASE names = {}
  BY <1>1, <1>4, <1>5, <1>6
<1>7. CASE names # {}
  BY <1>2, <1>3, <1>5, <1>7
<1>. QED  BY <1>6, <1>7

\* The base a request is sent to is among its candidates; it has none only if
\* it has no candidate.
LEMMA BaseIsCandidate ==
  ASSUME ConfigOK, Ordered, NEW r \in Request
  PROVE  \/ UpstreamBase(r) = None /\ Candidates(r) = {}
         \/ UpstreamBase(r) \in Candidates(r)
<1>. DEFINE byProtocol == FindByProtocol(r.protocol)
            byUrl == FindByUrl(upstream[r.runtime])
<1>0. r.header \in Ids \cup {None} /\ r.runtime \in Names /\ r.protocol \in Names
  BY DEF Request, Names
<1>1. \A id \in Ids : Registered(id) <=> upstream_registry[id].upstream # None
  BY NoneAssumption DEF ConfigOK, Registered, Entry, NoEntry
<1>2. Named(r) = IF r.header # None /\ Registered(r.header)
                 THEN {upstream_registry[r.header].upstream} ELSE {}
  <2>1. CASE r.header = None
    BY <2>1, NoneAssumption DEF Named, BasesOf
  <2>2. CASE r.header # None
    <3>1. {r.header} \cap Ids = {r.header}
      BY <1>0, <2>2
    <3>2. Named(r) = {upstream_registry[r.header].upstream} \ {None}
      BY <3>1 DEF Named, BasesOf
    <3>. QED  BY <1>0, <1>1, <2>2, <3>2
  <2>. QED  BY <2>1, <2>2
<1>3. \A name \in Names : Default(name) = IF Configured(name) THEN {upstream[name]} ELSE {}
  BY DEF Default, Configured
<1>4. CASE r.header # None /\ Registered(r.header)
  BY <1>0, <1>2, <1>4, NoneAssumption DEF UpstreamBase, ResolveUpstream, Candidates, Else
<1>5. CASE ~(r.header # None /\ Registered(r.header)) /\ byProtocol # None
  <2>1. byProtocol \in Ids /\ upstream_registry[byProtocol].upstream \in Speaking(r)
    BY <1>5, ByProtocol
  <2>2. ResolveUpstream(r) = byProtocol
    BY <1>5 DEF ResolveUpstream
  <2>3. Candidates(r) = Speaking(r)
    BY <1>2, <1>5, <2>1 DEF Candidates, Else
  <2>. QED  BY <1>5, <2>1, <2>2, <2>3 DEF UpstreamBase
<1>6. CASE ~(r.header # None /\ Registered(r.header)) /\ byProtocol = None
  <2>1. Candidates(r) = Else(Default(r.runtime), Else(Default(r.protocol), Anything))
    BY <1>2, <1>6, ByProtocol, NoneAssumption DEF Candidates, Else
  <2>2. UpstreamBase(r) = LegacyUpstream(r)
    <3>1. CASE Configured(r.runtime)
      <4>1. ResolveUpstream(r) = byUrl
        BY <1>6, <3>1 DEF ResolveUpstream
      <4>2. byUrl = None \/ upstream_registry[byUrl].upstream = upstream[r.runtime]
        BY ByUrl
      <4>. QED  BY <3>1, <4>1, <4>2 DEF UpstreamBase, LegacyUpstream
    <3>2. CASE ~Configured(r.runtime)
      BY <1>6, <3>2 DEF ResolveUpstream, UpstreamBase
    <3>. QED  BY <3>1, <3>2
  <2>. QED  BY <1>0, <1>3, <2>1, <2>2, LastResort DEF LegacyUpstream, Else
<1>. QED  BY <1>4, <1>5, <1>6

\* The same in a form whose primed version is at hand.
PlaceOK ==
  \A r \in Request : \/ UpstreamBase(r) = None /\ Candidates(r) = {}
                     \/ UpstreamBase(r) \in Candidates(r)

LEMMA PlaceAlways == ConfigOK /\ Ordered => PlaceOK
BY BaseIsCandidate DEF PlaceOK

LEMMA CandidatesAreBases ==
  ASSUME ConfigOK, NEW r \in Request
  PROVE  Candidates(r) \subseteq Bases
<1>1. \A id \in Ids : upstream_registry[id].upstream \in Bases \cup {None}
  BY DEF ConfigOK, Entry, NoEntry
<1>2. Named(r) \subseteq Bases /\ Speaking(r) \subseteq Bases
  BY <1>1 DEF Named, Speaking, BasesOf
<1>3. \A name \in Names : Default(name) \subseteq Bases
  BY DEF ConfigOK, Default
<1>4. Anything \subseteq Bases
  BY <1>3 DEF Anything
<1>. QED  BY <1>2, <1>3, <1>4 DEF Candidates, Else, Request, Names

-----------------------------------------------------------------------------
(* The invariant: what a request was answered is what its target is in the  *)
(* configuration and the orders there are.                                  *)

Answered == target # Idle => request \in Request /\ target = Target(request)
IInv == TypeOK /\ Answered

TargetOK(r) ==
  /\ \/ Target(r) \in {Rejected("not_found"), Rejected("bad_gateway")}
     \/ /\ Target(r).status = "forwarded" /\ Target(r).base \in Bases
        /\ Target(r).tail \in Seq(Ids \cup Words) /\ Target(r).query \in BOOLEAN
  /\ Target(r) # Idle

LEMMA TargetType ==
  ASSUME ConfigOK, Ordered, NEW r \in Request
  PROVE  TargetOK(r)
<1>. USE DEF TargetOK
<1>. DEFINE base == UpstreamBase(r)
            parsed == ParseRequestPath(r.path)
<1>1. base = None \/ base \in Bases
  BY BaseIsCandidate, CandidatesAreBases
<1>2. r.path \in Seq(Ids \cup Words) /\ r.query \in BOOLEAN
  <2>1. \A w \in Words : <<w>> \in Seq(Ids \cup Words)
    OBVIOUS
  <2>2. \A i \in Ids \cup Words, w \in Words : <<i, w>> \in Seq(Ids \cup Words)
    OBVIOUS
  <2>3. <<>> \in Seq(Ids \cup Words)
    OBVIOUS
  <2>4. \A path \in (Ids \cup Words) \X Words : path = <<path[1], path[2]>>
    OBVIOUS
  <2>5. \A path \in (Ids \cup Words) \X Words : path[1] \in Ids \cup Words /\ path[2] \in Words
    OBVIOUS
  <2>6. r.path \in Paths /\ r.query \in BOOLEAN
    BY DEF Request
  <2>7. Paths \subseteq Seq(Ids \cup Words)
    <3>1. ASSUME NEW path \in (Ids \cup Words) \X Words  PROVE path \in Seq(Ids \cup Words)
      <4>. DEFINE i == path[1]
                  w == path[2]
      <4>1. i \in Ids \cup Words /\ w \in Words /\ path = <<i, w>>
        BY <2>4, <2>5
      <4>. HIDE DEF i, w
      <4>. QED  BY <2>2, <4>1
    <3>. QED  BY <2>1, <2>3, <3>1 DEF Paths
  <2>. QED  BY <2>6, <2>7
<1>3. parsed.tail \in Seq(Ids \cup Words)
  BY <1>2 DEF ParseRequestPath
<1>4. CASE r.path = <<>>
  BY <1>4 DEF Target, Rejected, Idle
<1>5. CASE r.path # <<>> /\ base = None
  BY <1>5 DEF Target, Rejected, Idle
<1>6. CASE r.path # <<>> /\ base # None
  <2>1. Target(r) = Forwarded(base, parsed.tail, r.query /\ parsed.upstream_id = None)
    BY <1>6 DEF Target, Join
  <2>2. (r.query /\ parsed.upstream_id = None) \in BOOLEAN
    BY <1>2
  <2>3. Target(r).status = "forwarded" /\ Target(r).base = base /\ Target(r).tail = parsed.tail
        /\ Target(r).query = (r.query /\ parsed.upstream_id = None)
    BY <2>1 DEF Forwarded
  <2>4. Target(r) # Idle
    BY <2>3 DEF Idle, Rejected
  <2>. QED  BY <1>1, <1>3, <1>6, <2>2, <2>3, <2>4
<1>. QED  BY <1>4, <1>5, <1>6

LEMMA TargetTypeAlways == ConfigOK /\ Ordered => \A r \in Request : TargetOK(r)
BY TargetType

\* Where a request goes is a matter of the configuration and the orders alone.
LEMMA TargetIsLocal ==
  ASSUME NEW r, UNCHANGED <<config, id_order, name_order>>
  PROVE  Target(r)' = Target(r)
BY DEF config, Target, Join, UpstreamBase, ResolveUpstream, LegacyUpstream, FirstUpstream,
       FindByProtocol, FindByUrl, Registered, Configured

LEMMA Invariant == Spec => []IInv
<1>1. Init => IInv
  BY DEF Init, IInv, TypeOK, Answered
<1>2. ASSUME IInv, [Next]_vars  PROVE IInv'
  <2>1. TypeOK <=> /\ ConfigOK /\ Ordered /\ request \in Request \cup {NoRequest}
                   /\ \/ target \in {Idle, Rejected("not_found"), Rejected("bad_gateway")}
                      \/ /\ target.status = "forwarded" /\ target.base \in Bases
                         /\ target.tail \in Seq(Ids \cup Words) /\ target.query \in BOOLEAN
    BY DEF TypeOK, ConfigOK, Ordered
  <2>2. ConfigOK /\ Ordered
    BY <1>2, <2>1 DEF IInv
  <2>3. ASSUME NEW r \in Request, Route(r)  PROVE IInv'
    <3>1. request' = r /\ target' = Target(r) /\ UNCHANGED <<config, id_order, name_order>>
      BY <2>3 DEF Route
    <3>2. ConfigOK' /\ Ordered'
      BY <2>2, <3>1 DEF config, ConfigOK, Ordered
    <3>3. TypeOK'
      BY <2>2, <3>1, <3>2, TargetType DEF TargetOK, TypeOK, ConfigOK, Ordered
    <3>4. Target(r)' = Target(r)
      BY <3>1, TargetIsLocal
    <3>5. Answered'
      BY <2>3, <3>1, <3>4 DEF Answered
    <3>. QED  BY <3>3, <3>5 DEF IInv
  <2>4. CASE RestartAndRetry
    <3>1. /\ target # Idle /\ request' = request /\ UNCHANGED config
          /\ Ordered' /\ target' = Target(request)'
      BY <2>4 DEF RestartAndRetry, Ordered
    <3>2. request \in Request
      BY <1>2, <3>1 DEF IInv, Answered
    <3>3. ConfigOK'
      BY <2>2, <3>1 DEF config, ConfigOK
    <3>4. request' \in Request
      BY <3>1, <3>2
    <3>5. (ConfigOK /\ Ordered => \A r \in Request : TargetOK(r))'
      BY TargetTypeAlways, PTL
    <3>6. TargetOK(request)'
      BY <3>1, <3>3, <3>4, <3>5
    <3>. QED  BY <3>1, <3>3, <3>4, <3>6 DEF TargetOK, IInv, Answered, TypeOK, ConfigOK, Ordered
  <2>5. CASE UNCHANGED vars
    <3>1. UNCHANGED <<config, id_order, name_order>> /\ request' = request /\ target' = target
      BY <2>5 DEF vars
    <3>2. Target(request)' = Target(request)
      BY <3>1, TargetIsLocal
    <3>. QED  BY <1>2, <3>1, <3>2 DEF IInv, Answered, TypeOK, config
  <2>. QED  BY <1>2, <2>3, <2>4, <2>5 DEF Next
<1>. QED  BY <1>1, <1>2, PTL DEF Spec

-----------------------------------------------------------------------------
(* The theorems.                                                            *)

\* Types of the configuration, the request and its target: TypeOK of Routing.
THEOREM TypeCorrect == Spec => []TypeOK
<1>1. IInv => TypeOK
  BY DEF IInv
<1>. QED  BY <1>1, Invariant, PTL

\* RoutesByPriority: in every configuration a request goes to the best place the
\* priority list leaves it (upstream.rs 157-218, router.rs 154-187), whatever the
\* orders of the maps, and is turned away only if there is none.
THEOREM RoutesByPriorityCorrect == Spec => []RoutesByPriority
<1>1. ASSUME IInv  PROVE RoutesByPriority
  <2>1. ConfigOK /\ Ordered
    BY <1>1 DEF IInv, TypeOK, ConfigOK, Ordered
  <2>2. CASE target = Idle
    BY <2>2 DEF RoutesByPriority, Sent, Idle, Rejected
  <2>3. CASE target # Idle
    <3>1. request \in Request /\ target = Target(request)
      BY <1>1, <2>3 DEF IInv, Answered
    <3>2. \/ UpstreamBase(request) = None /\ Candidates(request) = {}
          \/ UpstreamBase(request) \in Candidates(request)
      BY <2>1, <3>1, BaseIsCandidate
    <3>3. Candidates(request) \subseteq Bases
      BY <2>1, <3>1, CandidatesAreBases
    <3>. QED  BY <3>1, <3>2, <3>3, NoneAssumption
              DEF RoutesByPriority, Sent, Target, Join, Forwarded, Rejected
  <2>. QED  BY <2>2, <2>3
<1>. QED  BY <1>1, Invariant, PTL

\* UpstreamPathIsKept: what is forwarded is the whole of a one-segment path with
\* its query, or what follows the upstream id (path_rewrite.rs 25-64).
THEOREM UpstreamPathIsKeptCorrect == Spec => []UpstreamPathIsKept
<1>1. ASSUME IInv  PROVE UpstreamPathIsKept
  <2>1. SUFFICES ASSUME Sent  PROVE UpstreamPathIsKept
    BY DEF UpstreamPathIsKept
  <2>2. request \in Request /\ target = Target(request)
    BY <1>1, <2>1 DEF IInv, Answered, Sent, Idle, Rejected
  <2>3. target = Join(request, UpstreamBase(request)) /\ request.path # <<>>
    BY <2>1, <2>2 DEF Sent, Target, Rejected
  <2>4. request.path \in Paths /\ request.query \in BOOLEAN
    BY <2>2 DEF Request
  <2>5. CASE \E w \in Words : request.path = <<w>>
    BY <2>1, <2>3, <2>4, <2>5, WordsAssumption
       DEF UpstreamPathIsKept, Join, Forwarded, ParseRequestPath
  <2>6. CASE request.path \in (Ids \cup Words) \X Words
    <3>1. Len(request.path) = 2
      BY <2>6
    <3>2. target.tail = Tail(request.path)
      BY <2>3, <3>1 DEF Join, Forwarded, ParseRequestPath
    <3>. QED  BY <3>1, <3>2 DEF UpstreamPathIsKept
  <2>. QED  BY <2>3, <2>4, <2>5, <2>6 DEF Paths
<1>. QED  BY <1>1, Invariant, PTL

\* RestartMovesNothing: a request whose candidates are one place, or none, goes
\* there again after every restart, however the maps are shuffled.
THEOREM RestartMovesNothingCorrect == Spec => RestartMovesNothing
<1>. DEFINE Settled == \A b, c \in Candidates(request) : b = c
<1>1. ASSUME IInv, IInv', [Next]_vars, target # Idle, Settled
      PROVE  target' = target
  <2>1. ConfigOK /\ Ordered /\ request \in Request /\ target = Target(request)
    BY <1>1 DEF IInv, TypeOK, ConfigOK, Ordered, Answered
  <2>2. CASE RestartAndRetry
    <3>1. request' = request /\ UNCHANGED config /\ Ordered' /\ target' = Target(request)'
      BY <2>2 DEF RestartAndRetry, Ordered
    <3>2. ConfigOK'
      BY <2>1, <3>1 DEF config, ConfigOK
    <3>3. Candidates(request)' = Candidates(request)
      BY <3>1 DEF config, Candidates, Else, Named, Speaking, Default, Anything, BasesOf
    <3>4. PlaceOK /\ PlaceOK'
      BY <2>1, <3>1, <3>2, PlaceAlways, PTL
    <3>5. UpstreamBase(request)' = UpstreamBase(request)
      BY <1>1, <2>1, <3>1, <3>3, <3>4 DEF PlaceOK
    <3>. QED  BY <2>1, <3>1, <3>5 DEF Target, Join
  <2>3. CASE UNCHANGED vars
    BY <2>3 DEF vars
  <2>4. ASSUME NEW r \in Request, Route(r)  PROVE FALSE
    BY <1>1, <2>4 DEF Route
  <2>. QED  BY <1>1, <2>2, <2>3, <2>4 DEF Next
<1>2. IInv /\ IInv' /\ [Next]_vars => [target # Idle /\ Settled => target' = target]_vars
  BY <1>1
<1>. QED  BY <1>2, Invariant, PTL DEF Spec, RestartMovesNothing
=============================================================================
