--------------------------------- MODULE Rules ---------------------------------
(***************************************************************************)
(* The broker's rule set (apps/broker/src/rule_engine.rs): the builtin     *)
(* rules, the custom rules read once from a directory when the broker      *)
(* starts (app() in router.rs), and the scan of a body, first match wins.  *)
(* The directory belongs to the user, who may edit it at any time, also    *)
(* while it is being read.                                                 *)
(*                                                                         *)
(* A body appears as the set of things in it that a pattern may find, a    *)
(* rule by what it finds, its severity, and whether its pattern is a valid *)
(* regular expression.                                                     *)
(***************************************************************************)
EXTENDS Integers, SequencesExt

CONSTANTS
  Things,     \* what a body may contain and a pattern may find
  Builtin,    \* the rules of secrets.yaml, pii.yaml and enterprise.yaml, in order
  Files,      \* names in the custom directory
  YamlFiles,  \* those that end in .yml or .yaml
  Contents,   \* bound: what a file may hold
  Lengths,    \* bound: lengths of a matched text
  MaxEdits    \* bound: edits of the directory

Rule == [finds : Things, severity : {"critical", "high", "medium", "low"}, valid : BOOLEAN]
CompiledRule == {rule \in Rule : rule.valid}
Content == [state : {"absent", "unreadable", "not_yaml", "yaml"}, rules : Seq(Rule)]
Absent  == [state |-> "absent", rules |-> <<>>]

ASSUME RulesAssumption ==
  /\ Builtin \in Seq(CompiledRule)
  /\ YamlFiles \subseteq Files
  /\ IsFiniteSet(Files)
  /\ Contents \subseteq Content /\ Absent \in Contents
  /\ Lengths \subseteq Nat /\ MaxEdits \in Nat

VARIABLES
  dir,      \* the content of each file of rules_dir
  pc,       \* "down", "loading" (load_custom_rules) or "serving"
  entries,  \* what read_dir has yet to yield
  custom,   \* the rules load_custom_rules has collected
  rules,    \* AppState.rules
  scanned,  \* the last scan: the body, the rule it matched, the text it showed
  listed,   \* history: the rule files the last start found
  read,     \* history: what it read of them
  edits     \* counter, for the bound

vars == <<dir, pc, entries, custom, rules, scanned, listed, read, edits>>

NoRule == [finds |-> "nothing", severity |-> "none", valid |-> FALSE]
NoScan == [body |-> {}, rule |-> NoRule, text |-> <<>>, shown |-> <<>>]
Unread == [f \in Files |-> Absent]

Init ==
  /\ dir \in [Files -> Contents]
  /\ pc = "down"
  /\ entries = <<>> /\ custom = <<>> /\ rules = <<>>
  /\ scanned = NoScan
  /\ listed = {} /\ read = Unread
  /\ edits = 0

-----------------------------------------------------------------------------
(* Loading. *)

\* Mutant: the patterns are not compiled.
LoadsAnyway(content) == content.state = "yaml"
\* load_rule_file, and reading the file before it: one bad rule spoils a file.
Loads(content) ==
  /\ content.state = "yaml"
  /\ \A i \in DOMAIN content.rules : content.rules[i].valid

\* Mutant: the custom rules come first.
MergedCustomFirst(loaded) == loaded \o Builtin
Merged(loaded) == Builtin \o loaded

Serve(loaded) ==
  /\ pc' = "serving"
  /\ rules' = Merged(loaded)
  /\ entries' = <<>> /\ custom' = <<>>

\* app(): no rules_dir, or one that is no directory.
StartBuiltinOnly ==
  /\ pc = "down"
  /\ Serve(<<>>)
  /\ listed' = {} /\ read' = Unread
  /\ UNCHANGED <<dir, scanned, edits>>

Orders(set) == {s \in [1 .. Cardinality(set) -> set] : IsInjective(s) /\ Range(s) = set}

\* app() and read_dir: the entries come in whatever order the file system has.
StartLoading ==
  LET present == {file \in Files : dir[file].state # "absent"}
  IN  /\ pc = "down"
      /\ pc' = "loading"
      /\ entries' \in Orders(present)
      /\ custom' = <<>>
      /\ listed' = present \cap YamlFiles
      /\ read' = Unread
      /\ UNCHANGED <<dir, rules, scanned, edits>>

\* Mutant: the rules of a file take the place of those of the files before.
CollectedLast(collected, more) == more
Collected(collected, more) == collected \o more

\* Mutant: what was collected before the error is used.
FallBackToCollected == Serve(custom)
\* builtin_with_custom_dir, when load_custom_rules returns an error.
FallBack == Serve(<<>>)

\* One turn of the loop of load_custom_rules.  A file that does not load, or
\* was removed since it was listed, ends the loop with an error.
LoadFile ==
  /\ pc = "loading" /\ entries # <<>>
  /\ LET file == Head(entries)
     IN  IF file \in YamlFiles
         THEN /\ read' = [read EXCEPT ![file] = dir[file]]
              /\ IF Loads(dir[file])
                 THEN /\ custom' = Collected(custom, dir[file].rules)
                      /\ entries' = Tail(entries) /\ UNCHANGED <<pc, rules>>
                 ELSE FallBack
         ELSE entries' = Tail(entries) /\ UNCHANGED <<pc, custom, rules, read>>
  /\ UNCHANGED <<dir, scanned, listed, edits>>

\* read_dir, or an entry of it, is an error.
ReadDirFails ==
  /\ pc = "loading"
  /\ FallBack
  /\ UNCHANGED <<dir, scanned, listed, read, edits>>

LoadingEnds ==
  /\ pc = "loading" /\ entries = <<>>
  /\ Serve(custom)
  /\ UNCHANGED <<dir, scanned, listed, read, edits>>

-----------------------------------------------------------------------------
(* The scan. *)

Hits(some_rules, body) == {i \in DOMAIN some_rules : some_rules[i].finds \in body}

\* scan_request: rules in order, the first whose pattern finds something.
FirstMatch(some_rules, body) ==
  LET hits == Hits(some_rules, body)
  IN  IF hits = {} THEN NoRule ELSE some_rules[CHOOSE i \in hits : \A j \in hits : i <= j]

\* A text of n characters, each known by its place; Mask is "***".
Mask == 0
Text(n) == [i \in 1 .. n |-> i]

\* Mutant: the two ends may overlap.
SanitizeShorter(text) ==
  IF Len(text) <= 4 THEN <<Mask>>
  ELSE SubSeq(text, 1, 3) \o <<Mask>> \o SubSeq(text, Len(text) - 2, Len(text))
\* sanitize_matched_content.
Sanitize(text) ==
  IF Len(text) <= 6 THEN <<Mask>>
  ELSE SubSeq(text, 1, 3) \o <<Mask>> \o SubSeq(text, Len(text) - 2, Len(text))

\* A request is scanned; its pattern matched n characters of the body.
ScanRequest(body, n) ==
  /\ pc = "serving"
  /\ LET rule == FirstMatch(rules, body)
     IN  scanned' = IF rule = NoRule THEN [NoScan EXCEPT !.body = body]
                    ELSE [body |-> body, rule |-> rule, text |-> Text(n),
                          shown |-> Sanitize(Text(n))]
  /\ UNCHANGED <<dir, pc, entries, custom, rules, listed, read, edits>>

-----------------------------------------------------------------------------
(* The user and the process. *)

\* The user writes, repairs, breaks or removes a file.
Edit(file, content) ==
  /\ edits < MaxEdits
  /\ edits' = edits + 1
  /\ content # dir[file]
  /\ dir' = [dir EXCEPT ![file] = content]
  /\ UNCHANGED <<pc, entries, custom, rules, scanned, listed, read>>

\* The broker stops, or dies: its rules live in memory alone.
Stop ==
  /\ pc # "down"
  /\ pc' = "down"
  /\ entries' = <<>> /\ custom' = <<>> /\ rules' = <<>>
  /\ scanned' = NoScan
  /\ UNCHANGED <<dir, listed, read, edits>>

Next ==
  \/ StartBuiltinOnly \/ StartLoading \/ LoadFile \/ ReadDirFails \/ LoadingEnds
  \/ \E body \in SUBSET Things, n \in Lengths : ScanRequest(body, n)
  \/ \E file \in Files, content \in Contents : Edit(file, content)
  \/ Stop

Spec == Init /\ [][Next]_vars

-----------------------------------------------------------------------------
(* Properties. *)

TypeOK ==
  /\ dir \in [Files -> Contents]
  /\ pc \in {"down", "loading", "serving"}
  /\ entries \in Seq(Files)
  /\ custom \in Seq(CompiledRule) /\ rules \in Seq(CompiledRule)
  /\ scanned.body \subseteq Things /\ scanned.rule \in Rule \cup {NoRule}
  /\ listed \subseteq YamlFiles /\ read \in [Files -> Contents]
  /\ edits \in 0 .. MaxEdits

Scanned == scanned # NoScan

\* No custom rule, whatever its severity and whatever file it is in, changes
\* the verdict on a body that a builtin rule matches (rule_engine.rs 46-67).
BuiltinVerdictStands ==
  Scanned /\ Hits(Builtin, scanned.body) # {} =>
    scanned.rule = FirstMatch(Builtin, scanned.body)

\* Half a custom policy is never in force: a broker that serves with any custom
\* rule has read every rule file it listed, all of each, and one that met a
\* file it could not load has none, whatever was edited meanwhile (78-96).
AllOrNothing ==
  pc = "serving" =>
    \/ rules = Builtin
    \/ /\ \A f \in listed : Loads(read[f])
       /\ Range(rules) = Range(Builtin) \cup UNION {Range(read[f].rules) : f \in listed}

\* A body no builtin rule matches gets the first match of some file that was
\* read, so a low rule may hide a critical one only from another file's place
\* in the listing; it passes only if no file has a rule for it (99-108).
VerdictIsOfAFile ==
  Scanned /\ Hits(Builtin, scanned.body) = {} /\ rules # Builtin =>
    LET verdicts == {FirstMatch(read[f].rules, scanned.body) : f \in listed} \ {NoRule}
    IN  IF verdicts = {} THEN scanned.rule = NoRule ELSE scanned.rule \in verdicts

\* A verdict comes from where it should: from the builtin rules if any of them
\* matches, and otherwise from a custom file, if any of them has one.
VerdictHasItsSource == BuiltinVerdictStands /\ VerdictIsOfAFile

\* What the violation row and the error body show of a match is its two ends,
\* and never all of it, however short it is (131-142).
MatchStaysSecret ==
  LET text == Range(scanned.text)  shown == Range(scanned.shown) \cap text
  IN  /\ \A i \in shown : i <= 3 \/ i > Len(scanned.text) - 3
      /\ text # {} => shown # text
=============================================================================
