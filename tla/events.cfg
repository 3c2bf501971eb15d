SPECIFICATION Spec
CONSTANTS
  s1 = s1
  m1 = m1
  claude = claude
  dir = dir
  None = None
  Posts = {p1, p2, p3, p4}
  Forms <- MCForms
  Window = 2
  Limit = 2
  LastClock = 3
  MaxCrashes = 1
SYMMETRY Symmetry
INVARIANTS TypeOK RateIsBounded AnswersMatchTheTable
PROPERTY KeepsTheWindow
\* Every post has been answered and the clock has stopped.
CHECK_DEADLOCK FALSE
