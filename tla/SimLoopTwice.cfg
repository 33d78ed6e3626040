SPECIFICATION Spec
CONSTANTS
  N = 2
  MaxQty = 1
  MaxStart = 0
  MaxAttempts = 1
  Gaps = FALSE
INVARIANT FilledOnce
CHECK_DEADLOCK FALSE
