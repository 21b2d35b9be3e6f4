SPECIFICATION FairSpec
CHECK_DEADLOCK FALSE
CONSTANTS
  Calls = {c1, c2, c3}
  Sessions = {s1, s2}
  Tools = {"edit", "create", "write", "read"}
  None = None
  Tolerance = 0
  MaxTime = 2
INVARIANTS
  LockIsSound
PROPERTIES
  LockedEditsBuildOnDisk
  TurnsInOrder
  EveryCallEnds
