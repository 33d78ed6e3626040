SPECIFICATION Spec
CONSTANTS
  K = 3
  MonthLength = 2
  Offset = 2
  MonthEnd <- EndOfMonth
  Business <- OpenDays
  Days <- BarDays
  Closes = {0, 1}
  Volumes = {1, 2}
INVARIANTS RollsAdvance RolledOutIsGone NothingLost JoinsTheNext
CHECK_DEADLOCK FALSE
