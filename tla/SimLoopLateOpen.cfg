SPECIFICATION Spec
CONSTANTS
  N = 1
  MaxQty = 2
  MaxStart = 0
  MaxAttempts = 1
  Gaps = FALSE
INVARIANT ReconcileGuarantees
CHECK_DEADLOCK FALSE
