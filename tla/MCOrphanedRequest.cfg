SPECIFICATION Spec
CONSTANTS
  None = None  p1 = p1  x = x  y = y  h1 = h1  h2 = h2
  c1 = c1  e1 = e1  e2 = e2  d1 = d1  r1 = r1  g1 = g1
  Paths = {p1}
  Contents = {x, y}
  Handlers = {h1, h2}
  Requests = {e1, e2, g1}
  Body <- MCBody
  HistoryLimit = None
  MaxOps = 3
  MaxFaults = 0
  MaxSends = 4
  MaxCrashes = 1
  MaxLosses = 0
  MaxExternal = 0
  MaxSteps = 0
  MaxBack = 0
  MaxOutside = 0
SYMMETRY Symmetry
INVARIANTS RunsOnceUnlessForgotten
\* the number of sends is bounded, so a run ends
CHECK_DEADLOCK FALSE
