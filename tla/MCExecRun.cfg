\* A command is run once.
CHECK_DEADLOCK FALSE
SPECIFICATION FairSpec
CONSTANTS
  k1 = k1
  k2 = k2
  Child = Child
  Kids = {k1, k2}
  PipeCap = 1
  ChanCap = 1
  MaxWrites = 2
INVARIANTS
  OutputComplete
  GroupCleared
PROPERTIES
  CompletedSpares
  Returns
