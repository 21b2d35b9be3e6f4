SPECIFICATION FairSpec
CONSTANTS
  Calls = {c1, c2}
  Batches = {c2}
  RetryLimit = 1
  Unlimited = Unlimited
  ShouldBreak = TRUE
CHECK_DEADLOCK FALSE
INVARIANTS
  NothingIsLeftOpen
  RejectionStopsUnlessFull
PROPERTIES
  OutcomesStay
  AbortEnds
