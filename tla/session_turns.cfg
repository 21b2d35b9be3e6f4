SPECIFICATION Spec
CONSTANTS
  Calls = {c1, c2}
  Kinds = {"prompt", "command", "summarize"}
  None = None
  MaxAborts = 1
  MaxSteps = 1
  MaxOverflows = 1
  MaxThrows = 0
  MaxEvents = 2
  MaxMessages = 6
  ClientIds = TRUE
  Unlimited = Unlimited
  RetryLimit = Unlimited
SYMMETRY Symmetry
INVARIANTS
  NonIdleHasLoop
  FreshReply
