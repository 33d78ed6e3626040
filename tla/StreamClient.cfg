SPECIFICATION FairSpec
CONSTANTS
  MaxSeq = 3
  MaxAttempts = 2
  Overlap = 1
  Gaps = FALSE
INVARIANT EndsForCause
PROPERTIES
  IsFeed
  Delivered
CHECK_DEADLOCK FALSE
