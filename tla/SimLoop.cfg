SPECIFICATION FairSpec
CONSTANTS
  N = 2
  MaxQty = 2
  MaxStart = 1
  MaxAttempts = 2
  Gaps = TRUE
INVARIANTS
  TypeOK
  OutcomeExact
  OutcomeTrue
  Ledger
  BooksMatchEngine
PROPERTY LoopEnds
CHECK_DEADLOCK FALSE
