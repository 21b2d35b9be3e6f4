SPECIFICATION FairSpec
CONSTANTS
  Calls = {c1, c2}
  Kinds = {"prompt"}
  None = None
  MaxAborts = 0
  MaxSteps = 0
  MaxOverflows = 0
  MaxThrows = 0
  MaxEvents = 2
  MaxMessages = 20
  ClientIds = FALSE
  Unlimited = Unlimited
  RetryLimit = 1
PROPERTIES
  EveryPromptReturns
