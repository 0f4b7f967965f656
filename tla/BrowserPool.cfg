CONSTANTS
  Callers = {c1, c2, c3}
  Items = {b1, b2, b3}
  Capacity = 1
  MaxLost = 1
  MaxLeft = 1
  Proxies = {p1}
  NoItem = NoItem
SPECIFICATION FairSpec
INVARIANTS
  PoolInv
  NoOrphan
  FailedNotReused
  ProcessBound
PROPERTIES
  ImplementsLease
  KeepsServing
