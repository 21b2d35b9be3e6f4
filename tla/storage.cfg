SPECIFICATION FairSpec
CONSTANTS
  Clients = {c1, c2, c3}
  Ops = {"read", "write", "update", "derive", "remove"}
  Nobody = Nobody
  Restarts = 1
INVARIANTS
  ReadsAreWhole
PROPERTIES
  UpdateBuildsOnFile
  LockIsShared
  NobodyStarves
