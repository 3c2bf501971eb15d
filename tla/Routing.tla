------------------------------- MODULE Routing -------------------------------
(***************************************************************************)
(* Where the broker sends a request: the path parser and the URL join of   *)
(* apps/broker/src/path_rewrite.rs, the priority chain of                  *)
(* libs/creavor-core/src/upstream.rs, and the fallbacks with which         *)
(* proxy_request (apps/broker/src/router.rs) puts them together.           *)
(*                                                                         *)
(* The configuration is read once, at the start.  It is held in HashMaps,  *)
(* whose iteration order is arbitrary, fixed for the life of the process   *)
(* and another one after a restart; the order is a variable here.          *)
(*                                                                         *)
(* A path is the sequence of its segments after /v1/{protocol}/; a URL its *)
(* text without trailing slashes, which find_by_url and normalize_join     *)
(* trim on both sides; a query string is there or not.                     *)
(***************************************************************************)
EXTENDS Integers, SequencesExt

CONSTANTS
  Protocols,   \* the protocol families of the routes, and provider names
  Ids,         \* upstream ids
  Runtimes,    \* values of X-Creavor-Runtime; "unknown" when it is missing
  Bases,       \* base URLs, without trailing slashes
  Words,       \* path segments that are no upstream id
  None         \* Option::None

ASSUME NoneAssumption == None \notin Ids \cup Bases \cup Runtimes \cup Protocols
ASSUME FiniteAssumption == IsFiniteSet(Ids) /\ IsFiniteSet(Runtimes \cup Protocols)
ASSUME WordsAssumption == Words \cap Ids = {}

VARIABLES
  upstream_registry,  \* settings.upstream_registry: UpstreamRegistry
  upstream,           \* settings.upstream: HashMap<runtime or provider, URL>
  id_order,           \* the order in which the two maps are iterated over
  name_order,
  request,            \* the request being routed
  target              \* what becomes of it

config == <<upstream_registry, upstream>>
vars == <<config, id_order, name_order, request, target>>

Names == Runtimes \cup Protocols
Entry == [protocol : Protocols, upstream : Bases]
NoEntry == [protocol |-> None, upstream |-> None]

Registered(id)   == upstream_registry[id] # NoEntry
Configured(name) == upstream[name] # None

\* What the router lets through to proxy_request, read by its parts.
Paths   == {<<>>} \cup {<<w>> : w \in Words} \cup ((Ids \cup Words) \X Words)
Request == [header : Ids \cup {None}, runtime : Runtimes, protocol : Protocols,
            path : Paths, query : BOOLEAN]
NoRequest == [path |-> <<>>]

Rejected(status) == [status |-> status]
Forwarded(url, tail, query) ==
  [status |-> "forwarded", base |-> url, tail |-> tail, query |-> query]
Idle == Rejected("idle")

-----------------------------------------------------------------------------
(* path_rewrite.rs. *)

\* Mutant: no segment is ever an upstream id.
ParseNoId(path) == [upstream_id |-> None, tail |-> path]
\* parse_request_path: with two segments or more, the first is the upstream id.
ParseRequestPath(path) ==
  IF Len(path) >= 2
  THEN [upstream_id |-> Head(path), tail |-> Tail(path)]
  ELSE [upstream_id |-> None, tail |-> path]

-----------------------------------------------------------------------------
(* upstream.rs.  The session registry has no entry: no code of the broker   *)
(* inserts one.                                                            *)

\* The first of some keys in the order of a map, or None.
First(order, keys) ==
  LET places == {i \in DOMAIN order : order[i] \in keys}
  IN  IF places = {} THEN None ELSE order[Min(places)]

FindByProtocol(protocol) ==
  First(id_order, {id \in Ids : Registered(id) /\ upstream_registry[id].protocol = protocol})

FindByUrl(url) ==
  First(id_order, {id \in Ids : Registered(id) /\ upstream_registry[id].upstream = url})

\* Mutant: the protocol of the path comes before the header.
ResolveByProtocolFirst(r) ==
  LET byProtocol == FindByProtocol(r.protocol)
  IN  IF byProtocol # None THEN byProtocol
      ELSE IF r.header # None /\ Registered(r.header) THEN r.header
      ELSE IF Configured(r.runtime) THEN FindByUrl(upstream[r.runtime])
      ELSE None

\* resolve_upstream, priorities 1, 3 and 4.
ResolveUpstream(r) ==
  LET byProtocol == FindByProtocol(r.protocol)
  IN  IF r.header # None /\ Registered(r.header) THEN r.header
      ELSE IF byProtocol # None THEN byProtocol
      ELSE IF Configured(r.runtime) THEN FindByUrl(upstream[r.runtime])
      ELSE None

-----------------------------------------------------------------------------
(* router.rs. *)

FirstUpstream ==
  LET name == First(name_order, {n \in Names : Configured(n)}) IN IF name = None THEN None ELSE upstream[name]

\* Mutant: without its own default a request goes to whatever comes first.
LegacyUpstreamAny(r) ==
  IF Configured(r.runtime) THEN upstream[r.runtime] ELSE FirstUpstream
\* The fallback: by runtime, by provider name, else the first one there is.
LegacyUpstream(r) ==
  IF Configured(r.runtime) THEN upstream[r.runtime]
  ELSE IF Configured(r.protocol) THEN upstream[r.protocol]
  ELSE FirstUpstream

UpstreamBase(r) ==
  LET id == ResolveUpstream(r)
  IN  IF id # None THEN upstream_registry[id].upstream ELSE LegacyUpstream(r)

\* The tail of a full path is taken from the path alone; that of a simplified
\* one from path and query.  normalize_join trims the base's slashes.
Join(r, url) ==
  LET parsed == ParseRequestPath(r.path)
  IN  Forwarded(url, parsed.tail, r.query /\ parsed.upstream_id = None)

\* Mutant: the missing upstream is not noticed.
TargetUnchecked(r) ==
  IF r.path = <<>> THEN Rejected("not_found") ELSE Join(r, UpstreamBase(r))
\* proxy_request, steps 1 to 4.
Target(r) ==
  IF r.path = <<>> THEN Rejected("not_found")
  ELSE LET url == UpstreamBase(r)
       IN  IF url = None THEN Rejected("bad_gateway") ELSE Join(r, url)

Orders(S) == {s \in [1 .. Cardinality(S) -> S] : \A i, j \in DOMAIN s : s[i] = s[j] => i = j}

Init ==
  /\ upstream_registry \in [Ids -> Entry \cup {NoEntry}]
  /\ upstream \in [Names -> Bases \cup {None}]
  /\ id_order \in Orders(Ids) /\ name_order \in Orders(Names)
  /\ request = NoRequest /\ target = Idle

Route(r) ==
  /\ target = Idle
  /\ request' = r
  /\ target' = Target(r)
  /\ UNCHANGED <<config, id_order, name_order>>

\* The broker is started again, reads the same settings into other maps, and
\* the client makes the same request again.
RestartAndRetry ==
  /\ target # Idle
  /\ id_order' \in Orders(Ids) /\ name_order' \in Orders(Names)
  /\ UNCHANGED <<config, request>>
  /\ target' = Target(request)'

Next == RestartAndRetry \/ \E r \in Request : Route(r)
Spec == Init /\ [][Next]_vars

-----------------------------------------------------------------------------
(* Properties. *)

TypeOK ==
  /\ upstream_registry \in [Ids -> Entry \cup {NoEntry}]
  /\ upstream \in [Names -> Bases \cup {None}]
  /\ id_order \in Orders(Ids) /\ name_order \in Orders(Names)
  /\ request \in Request \cup {NoRequest}
  /\ \/ target \in {Idle, Rejected("not_found"), Rejected("bad_gateway")}
     \/ /\ target.status = "forwarded" /\ target.base \in Bases
        /\ target.tail \in Seq(Ids \cup Words) /\ target.query \in BOOLEAN

Sent == target.status = "forwarded"

\* The bases the design's priority list (docs/broker代理功能技术方案-v1.3.2.md:69)
\* and the fallbacks leave open for r, as sets and whatever the maps' order.
BasesOf(ids) == {upstream_registry[id].upstream : id \in ids} \ {None}
Named(r)     == BasesOf({r.header} \cap Ids)
Speaking(r)  == BasesOf({id \in Ids : upstream_registry[id].protocol = r.protocol})
Default(name) == {upstream[name]} \ {None}
Anything     == UNION {Default(name) : name \in Names}
Else(bases, others) == IF bases # {} THEN bases ELSE others
Candidates(r) ==
  Else(Named(r), Else(Speaking(r), Else(Default(r.runtime), Else(Default(r.protocol), Anything))))

\* A request goes to the best configured place and nowhere else, and is turned
\* away only if nothing at all is configured for it.
RoutesByPriority ==
  /\ Sent => target.base \in Candidates(request)
  /\ target.status = "bad_gateway" => Candidates(request) = {}

\* A restart, which shuffles the maps, moves no request whose place the
\* configuration determines: two entries for a protocol are needed for that, or
\* a request nothing is configured for in particular.
RestartMovesNothing ==
  [][target # Idle /\ (\A b, c \in Candidates(request) : b = c) => target' = target]_vars

\* The upstream gets the path it knows: the whole of a one-segment path, with
\* its query, or what follows an upstream id.
UpstreamPathIsKept ==
  Sent => /\ Len(request.path) = 1 =>
               target.tail = request.path /\ target.query = request.query
          /\ Head(request.path) \in Ids => target.tail = Tail(request.path)

-----------------------------------------------------------------------------
(* What the documents and comments say and the code does not do.           *)

\* docs/broker代理功能技术方案-v1.3.2.md:576: the upstream id of the path
\* locates the upstream in the registry.  The parsed id is only logged.
PathNamesUpstream ==
  Sent /\ request.header = None /\ Len(request.path) = 2 =>
    \A id \in Ids : Head(request.path) = id /\ Registered(id) =>
      target.base = upstream_registry[id].upstream

\* docs/broker代理功能技术方案-v1.3.2.md:589: the tail keeps the original query
\* string.  normalize_join keeps what it is given, but the tail of a path with an
\* upstream id was parsed from the bare path.
QueryIsKept == Sent => target.query = request.query
=============================================================================
