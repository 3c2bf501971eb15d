------------------------------ MODULE RulesProofs ------------------------------
(***************************************************************************)
(* What TLAPS proves of Rules, for every set of rules, files and contents. *)
(***************************************************************************)
EXTENDS Rules, FiniteSetTheorems, SequenceTheorems, WellFoundedInduction, TLAPS

-----------------------------------------------------------------------------
(* First match. *)

LEMMA LeastIndex ==
  ASSUME NEW set \in SUBSET Nat, set # {}
  PROVE  \E i \in set : \A j \in set : i <= j
<1>1. PICK i \in set : \A j \in set : <<j, i>> \notin OpToRel(<, Nat)
  BY WFMin, NatLessThanWellFounded, Zenon
<1>2. \A j \in set : ~(j < i)
  BY <1>1 DEF OpToRel
<1>. QED  BY <1>2

\* The rule FirstMatch returns is the one at the least hit.
LEMMA FirstIs ==
  ASSUME NEW rs \in Seq(Rule), NEW body, NEW i \in Hits(rs, body),
         \A j \in Hits(rs, body) : i <= j
  PROVE  FirstMatch(rs, body) = rs[i]
<1>. DEFINE first == CHOOSE k \in Hits(rs, body) : \A j \in Hits(rs, body) : k <= j
<1>1. Hits(rs, body) \in SUBSET Nat
  BY DEF Hits
<1>2. first \in Hits(rs, body) /\ \A j \in Hits(rs, body) : first <= j
  OBVIOUS
<1>3. first = i
  BY <1>1, <1>2
<1>. QED  BY <1>3 DEF FirstMatch

\* A match is a rule of the sequence that finds something in the body, and
\* there is one exactly if some rule does.
LEMMA MatchOf ==
  ASSUME NEW rs \in Seq(Rule), NEW body
  PROVE  /\ FirstMatch(rs, body) = NoRule <=> Hits(rs, body) = {}
         /\ Hits(rs, body) # {} => FirstMatch(rs, body) \in Rule
<1>1. CASE Hits(rs, body) = {}
  BY <1>1 DEF FirstMatch
<1>2. CASE Hits(rs, body) # {}
  <2>0. Hits(rs, body) \in SUBSET Nat
    BY DEF Hits
  <2>1. PICK i \in Hits(rs, body) : \A j \in Hits(rs, body) : i <= j
    BY <1>2, <2>0, LeastIndex
  <2>2. FirstMatch(rs, body) = rs[i]
    BY <2>1, FirstIs
  <2>3. rs[i] \in Rule
    BY <2>1 DEF Hits
  <2>4. NoRule \notin Rule
    BY DEF NoRule, Rule
  <2>. QED  BY <1>2, <2>2, <2>3, <2>4
<1>. QED  BY <1>1, <1>2

\* In a concatenation the first sequence decides if it can.
LEMMA ConcatMatch ==
  ASSUME NEW a \in Seq(Rule), NEW b \in Seq(Rule), NEW body
  PROVE  /\ FirstMatch(a \o b, body) =
              IF Hits(a, body) # {} THEN FirstMatch(a, body) ELSE FirstMatch(b, body)
         /\ Hits(a \o b, body) = {} <=> Hits(a, body) = {} /\ Hits(b, body) = {}
<1>. DEFINE c == a \o b
<1>1. /\ c \in Seq(Rule) /\ Len(c) = Len(a) + Len(b)
      /\ \A i \in 1 .. Len(a) : c[i] = a[i]
      /\ \A i \in 1 .. Len(b) : c[Len(a) + i] = b[i]
      /\ \A i \in 1 .. Len(c) : i <= Len(a) \/ \E j \in 1 .. Len(b) : i = Len(a) + j
  <2>1. /\ c \in Seq(Rule) /\ Len(c) = Len(a) + Len(b)
        /\ \A i \in 1 .. Len(a) + Len(b) : c[i] = IF i <= Len(a) THEN a[i] ELSE b[i - Len(a)]
    BY ConcatProperties
  <2>2. \A i \in 1 .. Len(c) : i > Len(a) => i - Len(a) \in 1 .. Len(b) /\ i = Len(a) + (i - Len(a))
    BY <2>1
  <2>. QED  BY <2>1, <2>2
<1>. HIDE DEF c
<1>2. \A i \in 1 .. Len(a) : i \in Hits(a, body) <=> i \in Hits(c, body)
  BY <1>1 DEF Hits
<1>3. \A i \in 1 .. Len(b) : i \in Hits(b, body) <=> Len(a) + i \in Hits(c, body)
  BY <1>1 DEF Hits
<1>4. /\ Hits(a, body) \subseteq 1 .. Len(a) /\ Hits(b, body) \subseteq 1 .. Len(b)
      /\ Hits(c, body) \subseteq 1 .. Len(c)
  BY <1>1 DEF Hits
<1>5. CASE Hits(a, body) # {}
  <2>1. PICK i \in Hits(a, body) : \A j \in Hits(a, body) : i <= j
    BY <1>4, <1>5, LeastIndex
  <2>2. i \in Hits(c, body) /\ \A j \in Hits(c, body) : i <= j
    BY <1>1, <1>2, <1>4, <2>1
  <2>3. FirstMatch(a, body) = a[i]
    BY <2>1, FirstIs
  <2>4. FirstMatch(c, body) = c[i]
    BY <1>1, <2>2, FirstIs
  <2>. QED  BY <1>1, <1>4, <1>5, <2>2, <2>3, <2>4 DEF c
<1>6. CASE Hits(a, body) = {} /\ Hits(b, body) # {}
  <2>1. PICK i \in Hits(b, body) : \A j \in Hits(b, body) : i <= j
    BY <1>4, <1>6, LeastIndex
  <2>2. Len(a) + i \in Hits(c, body) /\ \A j \in Hits(c, body) : Len(a) + i <= j
    <3>1. Len(a) + i \in Hits(c, body)
      BY <1>3, <1>4
    <3>2. ASSUME NEW j \in Hits(c, body)  PROVE  Len(a) + i <= j
      <4>1. j \in 1 .. Len(c) /\ j \notin 1 .. Len(a)
        BY <1>2, <1>4, <1>6
      <4>2. PICK k \in 1 .. Len(b) : j = Len(a) + k
        BY <1>1, <4>1
      <4>3. k \in Hits(b, body)
        BY <1>3, <4>2
      <4>. QED  BY <1>4, <2>1, <4>2, <4>3
    <3>. QED  BY <3>1, <3>2
  <2>3. FirstMatch(b, body) = b[i]
    BY <2>1, FirstIs
  <2>4. FirstMatch(c, body) = c[Len(a) + i]
    BY <1>1, <2>2, FirstIs
  <2>. QED  BY <1>1, <1>4, <1>6, <2>1, <2>2, <2>3, <2>4 DEF c
<1>7. CASE Hits(a, body) = {} /\ Hits(b, body) = {}
  <2>1. Hits(c, body) = {}
    BY <1>1, <1>2, <1>3, <1>4, <1>7
  <2>. QED  BY <1>7, <2>1 DEF c, FirstMatch
<1>. QED  BY <1>5, <1>6, <1>7

-----------------------------------------------------------------------------
(* The inductive invariant: the rules collected so far are those of the     *)
(* files done, in their order.                                              *)

FirstOfAFile(reads, rule, body, done) ==
  LET verdicts == {FirstMatch(reads[f].rules, body) : f \in done} \ {NoRule}
  IN  IF verdicts = {} THEN rule = NoRule ELSE rule \in verdicts

Policy(reads, c, done) ==
  /\ c \in Seq(CompiledRule)
  /\ \A f \in done : Loads(reads[f])
  /\ Range(c) = UNION {Range(reads[f].rules) : f \in done}
  /\ \A body \in SUBSET Things : FirstOfAFile(reads, FirstMatch(c, body), body, done)

LoadingInv ==
  pc = "loading" =>
    /\ IsInjective(entries)
    /\ Range(entries) \cap YamlFiles \subseteq listed
    /\ Policy(read, custom, listed \ Range(entries))

ServingInv ==
  pc = "serving" =>
    \/ rules = Builtin
    \/ \E c \in Seq(CompiledRule) : rules = Builtin \o c /\ Policy(read, c, listed)

ScanInv ==
  /\ Scanned => pc = "serving" /\ scanned.rule = FirstMatch(rules, scanned.body)
  /\ \/ scanned.text = <<>> /\ scanned.shown = <<>>
     \/ \E n \in Nat : scanned.text = Text(n) /\ scanned.shown = Sanitize(Text(n))

IInv == TypeOK /\ LoadingInv /\ ServingInv /\ ScanInv

\* One more file, read whole, and the policy is that of one more file.
LEMMA PolicyGrows ==
  ASSUME NEW reads \in [Files -> Content], NEW c, NEW done \in SUBSET Files,
         Policy(reads, c, done),
         NEW file \in Files \ done, NEW content \in Content, Loads(content)
  PROVE  Policy([reads EXCEPT ![file] = content], c \o content.rules, done \cup {file})
<1>. DEFINE more == content.rules
            reads2 == [reads EXCEPT ![file] = content]
            done2 == done \cup {file}
<1>1. c \in Seq(CompiledRule) /\ more \in Seq(CompiledRule)
  <2>1. more \in Seq(Rule) /\ \A i \in 1 .. Len(more) : more[i] \in CompiledRule
    BY DEF Loads, Content, CompiledRule
  <2>. QED  BY <2>1 DEF Policy
<1>2. c \in Seq(Rule) /\ more \in Seq(Rule)
  BY <1>1, SeqMonotonic DEF CompiledRule
<1>3. c \o more \in Seq(CompiledRule)
  BY <1>1, ConcatProperties
<1>4. (\A f \in done : reads2[f] = reads[f]) /\ reads2[file] = content
  OBVIOUS
<1>5. \A f \in done2 : Loads(reads2[f])
  BY <1>4 DEF Policy
<1>6. Range(c \o more) = UNION {Range(reads2[f].rules) : f \in done2}
  <2>1. Range(c \o more) = Range(c) \cup Range(more)
    BY <1>2, RangeConcatenation
  <2>2. {Range(reads2[f].rules) : f \in done2} = {Range(reads[f].rules) : f \in done} \cup {Range(more)}
    BY <1>4
  <2>3. Range(c) = UNION {Range(reads[f].rules) : f \in done}
    BY DEF Policy
  <2>. HIDE DEF more, reads2, done2
  <2>. QED  BY <2>1, <2>2, <2>3
<1>7. ASSUME NEW body \in SUBSET Things
      PROVE  FirstOfAFile(reads2, FirstMatch(c \o more, body), body, done2)
  <2>. DEFINE verdicts == {FirstMatch(reads[f].rules, body) : f \in done} \ {NoRule}
              verdicts2 == {FirstMatch(reads2[f].rules, body) : f \in done2} \ {NoRule}
  <2>1. verdicts2 = verdicts \cup ({FirstMatch(more, body)} \ {NoRule})
    BY <1>4
  <2>2. IF verdicts = {} THEN FirstMatch(c, body) = NoRule ELSE FirstMatch(c, body) \in verdicts
    BY DEF Policy, FirstOfAFile
  <2>3. FirstMatch(c \o more, body) =
          IF FirstMatch(c, body) # NoRule THEN FirstMatch(c, body) ELSE FirstMatch(more, body)
    BY <1>2, ConcatMatch, MatchOf
  <2>4. NoRule \notin verdicts
    OBVIOUS
  <2>. HIDE DEF verdicts, verdicts2, more
  <2>5. IF verdicts2 = {} THEN FirstMatch(c \o more, body) = NoRule
                          ELSE FirstMatch(c \o more, body) \in verdicts2
    BY <2>1, <2>2, <2>3, <2>4
  <2>. QED  BY <2>5 DEF FirstOfAFile, verdicts2
<1>. QED  BY <1>3, <1>5, <1>6, <1>7 DEF Policy

LEMMA EmptyPolicy ==
  ASSUME NEW reads  PROVE  Policy(reads, <<>>, {})
BY DEF Policy, Loads, FirstOfAFile, FirstMatch, Hits, Range

-----------------------------------------------------------------------------
(* Every step keeps it.                                                     *)

LEMMA BuiltinRules == Builtin \in Seq(Rule) /\ \A c \in Seq(CompiledRule) : c \in Seq(Rule)
BY RulesAssumption, SeqMonotonic DEF CompiledRule

LEMMA NoRuleIsNone == NoRule \notin Rule
BY DEF NoRule, Rule

LEMMA Initially == Init => IInv
<1>. SUFFICES ASSUME Init  PROVE  IInv
  OBVIOUS
<1>1. TypeOK
  BY RulesAssumption DEF Init, TypeOK, Unread, NoScan, CompiledRule
<1>2. LoadingInv /\ ServingInv /\ ScanInv
  BY DEF Init, LoadingInv, ServingInv, ScanInv, NoScan, Scanned
<1>. QED  BY <1>1, <1>2 DEF IInv

\* What a start serves with is the builtin rules and the policy collected.
LEMMA ServeKeeps ==
  ASSUME IInv, pc # "serving", NEW c, Serve(c), scanned' = scanned,
         c = <<>> \/ (c \in Seq(CompiledRule) /\ Policy(read', c, listed'))
  PROVE  /\ pc' = "serving" /\ rules' \in Seq(CompiledRule)
         /\ entries' \in Seq(Files) /\ custom' \in Seq(CompiledRule)
         /\ LoadingInv' /\ ServingInv' /\ ScanInv'
<1>1. c \in Seq(CompiledRule)
  <2>1. <<>> \in Seq(CompiledRule)
    BY EmptySeq
  <2>. QED  BY <2>1
<1>2. pc' = "serving" /\ rules' = Builtin \o c /\ entries' = <<>> /\ custom' = <<>>
  BY DEF Serve, Merged
<1>3. rules' \in Seq(CompiledRule)
  BY <1>1, <1>2, RulesAssumption, ConcatProperties
<1>4. c = <<>> => rules' = Builtin
  BY <1>2, RulesAssumption, ConcatEmptySeq
<1>5. ServingInv'
  BY <1>1, <1>2, <1>4 DEF ServingInv
<1>6. ScanInv'
  BY <1>2 DEF IInv, ScanInv, Scanned
<1>. QED  BY <1>2, <1>3, <1>5, <1>6 DEF LoadingInv

LEMMA Stepwise == IInv /\ [Next]_vars => IInv'
<1>. SUFFICES ASSUME IInv, [Next]_vars  PROVE  IInv'
  OBVIOUS
<1>. USE RulesAssumption
<1>1. CASE StartBuiltinOnly
  <2>1. TypeOK' /\ LoadingInv' /\ ServingInv' /\ ScanInv'
    BY <1>1, ServeKeeps DEF StartBuiltinOnly, IInv, TypeOK, Unread
  <2>. QED  BY <2>1 DEF IInv
<1>2. CASE StartLoading
  <2>. DEFINE present == {file \in Files : dir[file].state # "absent"}
  <2>1. /\ entries' \in Seq(Files) /\ Range(entries') = present /\ IsInjective(entries')
    <3>1. Cardinality(present) \in Nat
      BY FS_Subset, FS_CardinalityType
    <3>. HIDE DEF present
    <3>2. entries' \in Orders(present)
      BY <1>2 DEF StartLoading, present
    <3>3. entries' \in [1 .. Cardinality(present) -> Files]
      BY <3>2 DEF Orders, present
    <3>. QED  BY <3>1, <3>2, <3>3 DEF Orders
  <2>2. listed' \ Range(entries') = {} /\ listed' = present \cap YamlFiles
    BY <1>2, <2>1 DEF StartLoading
  <2>3. LoadingInv'
    BY <1>2, <2>1, <2>2, EmptyPolicy DEF StartLoading, LoadingInv
  <2>4. TypeOK'
    BY <1>2, <2>1, <2>2 DEF StartLoading, IInv, TypeOK, Unread
  <2>5. ServingInv' /\ ScanInv'
    BY <1>2 DEF StartLoading, IInv, ServingInv, ScanInv, Scanned
  <2>. QED  BY <2>3, <2>4, <2>5 DEF IInv
<1>3. CASE LoadFile
  <2>. DEFINE file == Head(entries)
              done == listed \ Range(entries)
              rest == Tail(entries)
  <2>1. /\ pc = "loading" /\ file \in Files /\ rest \in Seq(Files)
        /\ file \in Range(entries) /\ Range(rest) = Range(entries) \ {file}
        /\ IsInjective(rest)
    <3>1. pc = "loading" /\ entries \in Seq(Files) /\ entries # <<>> /\ IsInjective(entries)
      BY <1>3 DEF LoadFile, IInv, TypeOK, LoadingInv
    <3>2. /\ file = entries[1] /\ Len(entries) > 0 /\ rest \in Seq(Files)
          /\ Len(rest) = Len(entries) - 1 /\ \A i \in 1 .. Len(rest) : rest[i] = entries[i + 1]
      BY <3>1, HeadTailProperties
    <3>. HIDE DEF file, rest
    <3>3. \A i \in 1 .. Len(entries) : i = 1 \/ (i - 1 \in 1 .. Len(rest) /\ entries[i] = rest[i - 1])
      BY <3>1, <3>2
    <3>4. \A i \in 1 .. Len(rest) : i + 1 \in 1 .. Len(entries) /\ i + 1 # 1
      BY <3>1, <3>2
    <3>a. \A i, j \in 1 .. Len(entries) : entries[i] = entries[j] => i = j
      BY <3>1, LenProperties DEF IsInjective
    <3>b. DOMAIN rest = 1 .. Len(rest)
      BY <3>2, LenProperties
    <3>5. IsInjective(rest)
      BY <3>a, <3>b, <3>2, <3>4 DEF IsInjective
    <3>6. \A i \in 1 .. Len(rest) : rest[i] # file
      BY <3>a, <3>2, <3>4
    <3>7. Range(entries) = {entries[i] : i \in 1 .. Len(entries)} /\ Range(rest) = {rest[i] : i \in 1 .. Len(rest)}
      BY <3>1, <3>2, RangeEquality
    <3>8. Range(rest) \subseteq Range(entries) /\ file \in Range(entries) /\ file \notin Range(rest)
      BY <3>1, <3>2, <3>4, <3>6, <3>7
    <3>9. Range(entries) \subseteq Range(rest) \cup {file}
      BY <3>2, <3>3, <3>7
    <3>. QED  BY <3>1, <3>2, <3>5, <3>8, <3>9
  <2>2. /\ Policy(read, custom, done) /\ Range(entries) \cap YamlFiles \subseteq listed
        /\ read \in [Files -> Contents] /\ dir[file] \in Contents /\ listed \subseteq YamlFiles
        /\ read \in [Files -> Content] /\ dir[file] \in Content
    BY <2>1 DEF IInv, TypeOK, LoadingInv
  <2>3. CASE file \in YamlFiles /\ Loads(dir[file])
    <3>1. /\ read' = [read EXCEPT ![file] = dir[file]] /\ custom' = custom \o dir[file].rules
          /\ entries' = rest /\ UNCHANGED <<dir, pc, rules, scanned, listed, edits>>
      BY <1>3, <2>3 DEF LoadFile, Collected
    <3>2. listed' \ Range(entries') = done \cup {file}
      BY <2>1, <2>2, <2>3, <3>1
    <3>3. Policy(read', custom', done \cup {file})
      <4>. HIDE DEF file
      <4>. QED  BY <2>1, <2>2, <2>3, <3>1, PolicyGrows
    <3>4. LoadingInv'
      BY <2>1, <2>2, <3>1, <3>2, <3>3 DEF LoadingInv
    <3>5. custom' \in Seq(CompiledRule)
      BY <3>3 DEF Policy
    <3>6. read' \in [Files -> Contents]
      BY <2>1, <2>2, <3>1
    <3>7. TypeOK'
      BY <2>1, <3>1, <3>5, <3>6 DEF IInv, TypeOK
    <3>8. ServingInv' /\ ScanInv'
      BY <2>1, <3>1 DEF IInv, ServingInv, ScanInv, Scanned
    <3>. QED  BY <3>4, <3>7, <3>8 DEF IInv
  <2>4. CASE file \in YamlFiles /\ ~Loads(dir[file])
    <3>1. /\ read' = [read EXCEPT ![file] = dir[file]] /\ Serve(<<>>)
          /\ UNCHANGED <<dir, scanned, listed, edits>>
      BY <1>3, <2>4 DEF LoadFile, FallBack
    <3>2. /\ pc' = "serving" /\ rules' \in Seq(CompiledRule)
          /\ entries' \in Seq(Files) /\ custom' \in Seq(CompiledRule)
          /\ LoadingInv' /\ ServingInv' /\ ScanInv'
      BY <2>1, <3>1, ServeKeeps
    <3>3. read' \in [Files -> Contents]
      BY <2>1, <2>2, <3>1
    <3>4. TypeOK'
      BY <3>1, <3>2, <3>3 DEF IInv, TypeOK
    <3>. QED  BY <3>2, <3>4 DEF IInv
  <2>5. CASE file \notin YamlFiles
    <3>1. entries' = rest /\ UNCHANGED <<dir, pc, custom, rules, scanned, listed, read, edits>>
      BY <1>3, <2>5 DEF LoadFile
    <3>2. listed' \ Range(entries') = done
      BY <2>1, <2>2, <2>5, <3>1
    <3>3. LoadingInv'
      BY <2>1, <2>2, <3>1, <3>2 DEF LoadingInv
    <3>4. TypeOK' /\ ServingInv' /\ ScanInv'
      BY <2>1, <3>1 DEF IInv, TypeOK, ServingInv, ScanInv, Scanned
    <3>. QED  BY <3>3, <3>4 DEF IInv
  <2>. QED  BY <2>3, <2>4, <2>5
<1>4. CASE ReadDirFails
  <2>1. TypeOK' /\ LoadingInv' /\ ServingInv' /\ ScanInv'
    BY <1>4, ServeKeeps DEF ReadDirFails, FallBack, IInv, TypeOK
  <2>. QED  BY <2>1 DEF IInv
<1>5. CASE LoadingEnds
  <2>1. pc = "loading" /\ Serve(custom) /\ UNCHANGED <<dir, scanned, listed, read, edits>>
    BY <1>5 DEF LoadingEnds
  <2>2. listed \ Range(entries) = listed
    BY <1>5 DEF LoadingEnds, Range
  <2>3. custom \in Seq(CompiledRule) /\ Policy(read', custom, listed')
    BY <2>1, <2>2 DEF IInv, LoadingInv, TypeOK
  <2>4. TypeOK' /\ LoadingInv' /\ ServingInv' /\ ScanInv'
    BY <2>1, <2>3, ServeKeeps DEF IInv, TypeOK
  <2>. QED  BY <2>4 DEF IInv
<1>6. ASSUME NEW body \in SUBSET Things, NEW n \in Lengths, ScanRequest(body, n)
      PROVE  IInv'
  <2>1. pc = "serving" /\ UNCHANGED <<dir, pc, entries, custom, rules, listed, read, edits>>
    BY <1>6 DEF ScanRequest
  <2>2. rules \in Seq(Rule)
    BY BuiltinRules DEF IInv, TypeOK
  <2>3. FirstMatch(rules, body) \in Rule \cup {NoRule}
    BY <2>2, MatchOf
  <2>4. CASE FirstMatch(rules, body) = NoRule
    <3>1. /\ scanned'.body = body /\ scanned'.rule = NoRule
          /\ scanned'.text = <<>> /\ scanned'.shown = <<>>
      BY <1>6, <2>4 DEF ScanRequest, NoScan
    <3>. QED  BY <2>1, <2>4, <3>1 DEF IInv, TypeOK, LoadingInv, ServingInv, ScanInv
  <2>5. CASE FirstMatch(rules, body) # NoRule
    <3>1. /\ scanned'.body = body /\ scanned'.rule = FirstMatch(rules, body)
          /\ scanned'.text = Text(n) /\ scanned'.shown = Sanitize(Text(n)) /\ n \in Nat
      BY <1>6, <2>5 DEF ScanRequest
    <3>. QED  BY <2>1, <2>3, <3>1 DEF IInv, TypeOK, LoadingInv, ServingInv, ScanInv
  <2>. QED  BY <2>4, <2>5
<1>7. ASSUME NEW file \in Files, NEW content \in Contents, Edit(file, content)
      PROVE  IInv'
  <2>1. TypeOK'
    BY <1>7 DEF Edit, IInv, TypeOK
  <2>2. LoadingInv' /\ ServingInv' /\ ScanInv'
    BY <1>7 DEF Edit, IInv, LoadingInv, ServingInv, ScanInv, Scanned
  <2>. QED  BY <2>1, <2>2 DEF IInv
<1>8. CASE Stop
  BY <1>8 DEF Stop, IInv, TypeOK, LoadingInv, ServingInv, ScanInv, Scanned, NoScan
<1>9. CASE UNCHANGED vars
  BY <1>9 DEF vars, IInv, TypeOK, LoadingInv, ServingInv, ScanInv, Scanned
<1>. QED
  BY <1>1, <1>2, <1>3, <1>4, <1>5, <1>6, <1>7, <1>8, <1>9 DEF Next

-----------------------------------------------------------------------------
(* The theorems.                                                            *)

LEMMA Invariant == Spec => []IInv
BY Initially, Stepwise, PTL DEF Spec

\* Whatever was loaded, the rules in force are compiled rules.
THEOREM TypeCorrect == Spec => []TypeOK
<1>1. IInv => TypeOK
  BY DEF IInv
<1>. QED  BY <1>1, Invariant, PTL

\* No custom rule ever changes the verdict of a builtin rule.
THEOREM BuiltinFirst == Spec => []BuiltinVerdictStands
<1>1. IInv => BuiltinVerdictStands
  <2>. SUFFICES ASSUME IInv, Scanned, Hits(Builtin, scanned.body) # {}
                PROVE  scanned.rule = FirstMatch(Builtin, scanned.body)
    BY DEF BuiltinVerdictStands
  <2>1. scanned.rule = FirstMatch(rules, scanned.body) /\ pc = "serving"
    BY DEF IInv, ScanInv
  <2>2. CASE rules = Builtin
    BY <2>1, <2>2
  <2>3. CASE \E c \in Seq(CompiledRule) : rules = Builtin \o c
    BY <2>1, <2>3, BuiltinRules, ConcatMatch
  <2>. QED  BY <2>1, <2>2, <2>3 DEF IInv, ServingInv
<1>. QED  BY <1>1, Invariant, PTL

\* A directory of rule files is in force whole or not at all.
THEOREM WholePolicy == Spec => []AllOrNothing
<1>1. IInv => AllOrNothing
  <2>. SUFFICES ASSUME IInv, pc = "serving", rules # Builtin
                PROVE  /\ \A f \in listed : Loads(read[f])
                       /\ Range(rules) = Range(Builtin) \cup UNION {Range(read[f].rules) : f \in listed}
    BY DEF AllOrNothing
  <2>1. PICK c \in Seq(CompiledRule) : rules = Builtin \o c /\ Policy(read, c, listed)
    BY DEF IInv, ServingInv
  <2>2. Range(rules) = Range(Builtin) \cup Range(c)
    BY <2>1, BuiltinRules, RangeConcatenation
  <2>. QED  BY <2>1, <2>2 DEF Policy
<1>. QED  BY <1>1, Invariant, PTL

\* The verdict on any other body is the first match of one of the files.
THEOREM FilesDecide == Spec => []VerdictIsOfAFile
<1>1. IInv => VerdictIsOfAFile
  <2>. SUFFICES ASSUME IInv, Scanned, Hits(Builtin, scanned.body) = {}, rules # Builtin
                PROVE  FirstOfAFile(read, scanned.rule, scanned.body, listed)
    BY DEF VerdictIsOfAFile, FirstOfAFile
  <2>1. scanned.rule = FirstMatch(rules, scanned.body) /\ pc = "serving"
        /\ scanned.body \in SUBSET Things
    BY DEF IInv, ScanInv, TypeOK
  <2>2. PICK c \in Seq(CompiledRule) : rules = Builtin \o c /\ Policy(read, c, listed)
    BY <2>1 DEF IInv, ServingInv
  <2>3. FirstMatch(rules, scanned.body) = FirstMatch(c, scanned.body)
    BY <2>2, BuiltinRules, ConcatMatch
  <2>. QED  BY <2>1, <2>2, <2>3 DEF Policy
<1>. QED  BY <1>1, Invariant, PTL

\* Every verdict has its source: VerdictHasItsSource of Rules, in any broker, on any
\* body, whatever is edited while it starts.
THEOREM VerdictsHaveSources == Spec => []VerdictHasItsSource
<1>1. BuiltinVerdictStands /\ VerdictIsOfAFile => VerdictHasItsSource
  BY DEF VerdictHasItsSource
<1>. QED  BY <1>1, BuiltinFirst, FilesDecide, PTL

\* No match is ever shown whole, whatever its length.
THEOREM MatchesAreMasked == Spec => []MatchStaysSecret
<1>1. ASSUME NEW n \in Nat, scanned.text = Text(n), scanned.shown = Sanitize(Text(n))
      PROVE  MatchStaysSecret
  <2>1. Text(n) \in Seq(Int) /\ Len(Text(n)) = n /\ Range(Text(n)) = 1 .. n
    BY DEF Text, Range
  <2>2. CASE n <= 6
    <3>1. Range(Sanitize(Text(n))) = {0}
      BY <2>1, <2>2 DEF Sanitize, Mask, Range
    <3>. QED  BY <1>1, <2>1, <3>1 DEF MatchStaysSecret
  <2>3. CASE n > 6
    <3>. DEFINE front == SubSeq(Text(n), 1, 3)
                back  == SubSeq(Text(n), n - 2, n)
    <3>1. /\ front \in Seq(Int) /\ Len(front) = 3 /\ \A i \in 1 .. 3 : front[i] = i
          /\ back \in Seq(Int) /\ Len(back) = 3 /\ \A i \in 1 .. 3 : back[i] = n - 3 + i
      <4>1. \A i \in 1 .. n : Text(n)[i] = i
        BY DEF Text
      <4>. QED  BY <2>1, <2>3, <4>1, SubSeqProperties
    <3>2. Sanitize(Text(n)) = (front \o <<0>>) \o back
      BY <2>1, <2>3 DEF Sanitize, Mask
    <3>. HIDE DEF front, back
    <3>3. Range(Sanitize(Text(n))) = Range(front) \cup {0} \cup Range(back)
      <4>. DEFINE mask == <<0>>
                  head == front \o mask
      <4>1. mask \in Seq(Int) /\ Range(mask) = {0}
        BY DEF Range
      <4>. HIDE DEF mask
      <4>2. head \in Seq(Int) /\ Range(head) = Range(front) \cup Range(mask)
        BY <3>1, <4>1, ConcatProperties, RangeConcatenation
      <4>. HIDE DEF head
      <4>3. Range(head \o back) = Range(head) \cup Range(back)
        BY <3>1, <4>2, RangeConcatenation
      <4>. QED  BY <3>2, <4>1, <4>2, <4>3 DEF head, mask
    <3>4. Range(front) = 1 .. 3 /\ Range(back) = (n - 2) .. n
      <4>1. Range(front) = {front[i] : i \in 1 .. 3} /\ Range(back) = {back[i] : i \in 1 .. 3}
        BY <3>1, RangeEquality
      <4>2. \A k \in (n - 2) .. n : k - (n - 3) \in 1 .. 3 /\ k = n - 3 + (k - (n - 3))
        BY <2>3
      <4>3. (n - 2) .. n \subseteq Range(back)
        <5>1. ASSUME NEW k \in (n - 2) .. n  PROVE  k \in Range(back)
          BY <3>1, <4>1, <4>2
        <5>. QED  BY <5>1
      <4>. QED  BY <2>3, <3>1, <4>1, <4>3
    <3>5. 4 \in 1 .. n /\ 4 \notin Range(Sanitize(Text(n)))
      BY <2>3, <3>3, <3>4
    <3>6. \A i \in Range(Sanitize(Text(n))) \cap 1 .. n : i <= 3 \/ i > n - 3
      BY <2>3, <3>3, <3>4
    <3>. QED  BY <1>1, <2>1, <3>5, <3>6 DEF MatchStaysSecret
  <2>. QED  BY <2>2, <2>3
<1>2. ASSUME scanned.text = <<>>, scanned.shown = <<>>
      PROVE  MatchStaysSecret
  BY <1>2 DEF MatchStaysSecret, Range
<1>3. IInv => MatchStaysSecret
  BY <1>1, <1>2 DEF IInv, ScanInv
<1>. QED  BY <1>3, Invariant, PTL
=============================================================================
