SPECIFICATION Spec
CONSTANTS
  Ids = {a1}
  Sessions = {s1}
  Rules = {rule1, rule2}
  None = None
  Callers = {c1}
  FirstClock = 10
  LastClock = 12
SYMMETRY Symmetry
PROPERTY NoLateApproval
CHECK_DEADLOCK FALSE
