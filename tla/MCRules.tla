------------------------------- MODULE MCRules -------------------------------
(* A model-checking instance of Rules: a key and a phone number, which the  *)
(* builtin rules find, and a code word, which only custom rules find.       *)
EXTENDS Rules

rule(finds, severity) == [finds |-> finds, severity |-> severity, valid |-> TRUE]

MCThings  == {"key", "phone", "word"}
MCBuiltin == <<rule("key", "high"), rule("phone", "medium")>>
MCFiles   == {"a.yaml", "b.yml", "c.txt"}
MCYaml    == {"a.yaml", "b.yml"}

yaml(some_rules) == [state |-> "yaml", rules |-> some_rules]
MCContents ==
  {Absent, [Absent EXCEPT !.state = "not_yaml"], [Absent EXCEPT !.state = "unreadable"],
   yaml(<<rule("word", "low")>>), yaml(<<rule("key", "low")>>),
   yaml(<<rule("word", "critical")>>),
   yaml(<<rule("word", "critical"), [rule("phone", "high") EXCEPT !.valid = FALSE]>>)}
=============================================================================
