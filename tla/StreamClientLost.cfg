SPECIFICATION Spec
CONSTANTS
  MaxSeq = 3
  MaxAttempts = 2
  Overlap = 1
  Gaps = FALSE
INVARIANT NoneLostSinceConnected
CHECK_DEADLOCK FALSE
