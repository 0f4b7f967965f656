CONSTANTS
  Callers = {c1, c2}
  MaxCalls = 2
  PipeCap = 1
  MaxEvents = 1
  ReadErrors = FALSE
  None = None
SPECIFICATION Spec
SYMMETRY Symmetry
INVARIANTS
  OwnAnswer
  NoLeakedSlot
  WaiterReachable
CHECK_DEADLOCK FALSE
