SPECIFICATION LabelSpec
CONSTANTS
  MaxPrice = 7
  MaxAtr = 2
  KAtr = 1
  TpR = 1
  Whole = 2
  Buffer = 0
  TrailAtr = 1
  TimeStopBars = 3
  TpMult = 1
  SlMult = 1
  Horizon = 3
INVARIANTS
  LossAtMostOneR
  BankedIsKept
  LabelIsTheTrade
PROPERTY StopNeverWidened
CHECK_DEADLOCK FALSE
