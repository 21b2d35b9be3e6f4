SPECIFICATION FairSpec
CHECK_DEADLOCK FALSE
CONSTANTS
  Dirs = {d1}
  Requests = {r1, r2}
  Kinds = {k1}
  Pass = Pass
  MaxConfig = 3
INVARIANTS
  CachedIsNewest
PROPERTIES
  EachIsDisposedOnce
  PassLeavesNothingStale
  PassEnds
