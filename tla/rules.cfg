SPECIFICATION Spec
CONSTANTS
  Things <- MCThings
  Builtin <- MCBuiltin
  Files <- MCFiles
  YamlFiles <- MCYaml
  Contents <- MCContents
  Lengths = {0, 5, 6, 7}
  MaxEdits = 1
INVARIANTS TypeOK VerdictHasItsSource AllOrNothing MatchStaysSecret
