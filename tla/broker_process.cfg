SPECIFICATION FairSpec
CONSTANTS
  Starts = {p1, p2, p3}
  Stops = {q1}
  Tables <- MCTables
  NewColumns <- MCNewColumns
  Script <- MCScript
  OldTables <- MCOldTables
  MaxFaults = 1
INVARIANTS TypeOK LeavesOneBroker ReportsHold
PROPERTIES KeepsTheService StartupEnds
CHECK_DEADLOCK FALSE
