SPECIFICATION FairSpec
CHECK_DEADLOCK FALSE
CONSTANTS
  Keys = {message, part}
  Requests = {q1, q2}
  Budget = 2
  MaxVersion = 3
INVARIANTS
  DueRespectsBackoff
  LastGivenIsKeptInTurn
PROPERTIES
  SendsLastGivenInTurn
  SyncingEnds
