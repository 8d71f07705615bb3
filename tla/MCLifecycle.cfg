\* Every server is started once, so a run ends.
CHECK_DEADLOCK FALSE
SPECIFICATION FairSpec
CONSTANTS
  s1 = s1
  s2 = s2
  s3 = s3
  None = None
  Servers = {s1, s2}
  IdleTimeout = 2
  ShutdownDrain = 2
  AbortGrace = 1
  LockGrace = 5
  Room = 1
  MaxRequests = 2
INVARIANTS
  HandOver
PROPERTIES
  IdleIsIdle
  DeadLinkFrees
