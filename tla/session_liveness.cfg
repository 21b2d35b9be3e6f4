SPECIFICATION FairSpec
CONSTANTS
  Calls = {c1, c2}
  Kinds = {"prompt", "shell"}
  None = None
  MaxAborts = 1
  MaxSteps = 1
  MaxOverflows = 1
  MaxThrows = 1
  MaxEvents = 2
  MaxMessages = 30
  ClientIds = FALSE
  Unlimited = Unlimited
  RetryLimit = Unlimited
PROPERTIES
  EveryTurnEnds
  WaiterIsAnswered
