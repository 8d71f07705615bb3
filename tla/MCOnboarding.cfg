\* Every client runs once, so a run ends.
CHECK_DEADLOCK FALSE
SPECIFICATION Spec
CONSTANTS
  a1 = a1
  a2 = a2
  a3 = a3
  u1 = u1
  None = None
  Absent = Absent
  Legacy = Legacy
  Garbled = Garbled
  Clients = {a1, a2, a3, u1}
  Adders = {a1, a2, a3}
  Hosts = {"h", "g"}
  Names = {"n0", "n1", "n2"}
  Roots = {"r1", "r2"}
  Protocols = {1, 2}
  Softwares = {0, 1, 2}
  Release <- MCRelease
  Want <- MCWant
  Typed <- MCTyped
  Custom <- MCCustom
  Found <- MCFound
  Fleet0 <- MCFleet0
INVARIANTS
  OutcomeTrue
  RegisteredIsServed
  NoLostEntry
PROPERTIES
  NoDowngrade
