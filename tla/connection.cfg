SPECIFICATION FairSpec
CONSTANT
  MaxConnects = 4
CHECK_DEADLOCK FALSE
INVARIANTS
  OneServerOneLoop
  StateIsOfTheAdapter
  NothingOutlivesDispose
PROPERTIES
  StreamIsWatched
