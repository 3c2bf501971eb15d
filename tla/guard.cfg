SPECIFICATION GuardSpec
CONSTANTS
  a1 = a1
  a2 = a2
  Ids = {a1, a2}
  Sessions = {s1}
  Rules = {rule1}
  None = None
  Callers = {c1, mcp}
  Server = mcp
  Lines <- MCLines
  MaxAnswers = 2
  FirstClock = 10
  LastClock = 11
INVARIANTS SessionApprovalHasSource
INVARIANTS GuardTypeOK ToldOutcomesStand ShownStaysKnown
PROPERTY KeepsTheRegister
\* The server may have ended and every request be decided.
CHECK_DEADLOCK FALSE
