SPECIFICATION Spec
CONSTANTS
  Calls = {c1, c2, c3}
  Kinds = {"prompt", "noReply", "shell"}
  None = None
  MaxAborts = 1
  MaxSteps = 0
  MaxOverflows = 0
  MaxThrows = 1
  MaxEvents = 2
  MaxMessages = 5
  ClientIds = FALSE
  Unlimited = Unlimited
  RetryLimit = Unlimited
SYMMETRY Symmetry
INVARIANTS
  EntryFollowsTurns
  OneLiveLoop
  AbortsBeginWithAClient
  NothingImpossible
