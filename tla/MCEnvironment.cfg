SPECIFICATION FairSpec
CONSTANTS
  None = None  p1 = p1  x = x  y = y  h1 = h1  h2 = h2
  c1 = c1  e1 = e1  e2 = e2  d1 = d1  r1 = r1  g1 = g1
  Paths = {p1}
  Contents = {x, y}
  Handlers = {h1, h2}
  Requests = {e1, e2}
  Body <- MCBody
  HistoryLimit = 1
  MaxOps = 4
  MaxFaults = 1
  MaxSends = 4
  MaxCrashes = 1
  MaxLosses = 1
  MaxExternal = 1
  MaxSteps = 1
  MaxBack = 2
  MaxOutside = 1
INVARIANTS AtMostOnce
PROPERTIES StartSettles
\* the number of sends is bounded, so a run ends
CHECK_DEADLOCK FALSE
