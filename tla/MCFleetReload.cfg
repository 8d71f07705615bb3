\* Every call is made once, so a run ends.
CHECK_DEADLOCK FALSE
SPECIFICATION FairSpec
CONSTANTS
  c1 = c1  c2 = c2  w1 = w1  e1 = e1  e2 = e2
  None = None
  Bad = Bad
  Calls = {c1, c2}
  Workspaces = {w1}
  Endpoints = {e1, e2}
  Target <- MCTarget
  Attempts = 2
  MaxWrites = 2
INVARIANTS
  OneServer
  FreshEnough
PROPERTIES
  CallsEnd
