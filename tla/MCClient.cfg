\* The number of calls is bounded, so a run ends.
CHECK_DEADLOCK FALSE
SPECIFICATION FairSpec
CONSTANTS
  c1 = c1
  c2 = c2
  None = None
  Callers = {c1, c2}
  PipeSize = 1
  MaxCalls = 3
INVARIANTS
  SerialOneInFlight
  AnsweredIsTold
PROPERTIES
  CallsReturn
  DeathWakesAll
  NoOrphan
