CONSTANTS
  Callers = {c1, c2}
  MaxCalls = 1
  PipeCap = 1
  MaxEvents = 1
  ReadErrors = FALSE
  None = None
  Launches = {l1, l2}
SPECIFICATION LiveSpec
INVARIANTS
  DropWaitsForOthers
PROPERTIES
  SendReturns
  ReaderServes
  LaunchesEnd
CHECK_DEADLOCK FALSE
