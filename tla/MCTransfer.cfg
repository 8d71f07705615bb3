\* Every upload is made once, so a run ends.
CHECK_DEADLOCK FALSE
SPECIFICATION Spec
CONSTANTS
  u1 = u1
  u2 = u2
  p1 = p1
  None = None
  Foreign = Foreign
  Gc = Gc
  Uploads = {u1, u2}
  Paths = {p1}
  TargetOf <- OneTarget
  Overwrite = {u1}
  Scratch = {}
  MaxFaults = 1
  MaxDeaths = 1
  MaxForeign = 1
  MaxGcs = 1
INVARIANTS
  PreparedIsRegistered
  AbortedStaysGone
  OkIsSettled
PROPERTIES
  SweepSparesRegistered
  NoClobber
