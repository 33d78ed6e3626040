SPECIFICATION RunSpec
CONSTANTS
  Targets = {"trend_continuation", "fake_breakout"}
  Loaders = {"l1", "l2"}
  MaxSaves = 3
  OldColumns = {2}
  None = None
  Missing = Missing
  Undefined = Undefined
  NoRegime = NoRegime
  Multiplier = 2
  Commission = 1
  ClearingFee = 1
  SlippagePerAtr = 1
  IlliquidMult = 2
  Spread = 1
  RollCommission = 1
  RollSpread = 1
  MonthDays = 28
  BarsPerDay = 8
  RUnit = 8
  MaxSignals = 3
  MaxTrades = 4
  MaxRows = 6
  Instants = {1, 2}
  Score <- Percent
  Threshold <- Thresholds
  Codes <- Structures
  Holidays <- Fridays
  QuarterEnds <- MonthEnds
  Signals <- Detected
  Frames <- AlignedFrames
  Bare <- BareFrames
  Outcomes <- Trades
  Configs <- Spans
INVARIANTS LoadSound FilterExact CurveExact CostsNeverFlatter FoldsInTime TestedOnce
CHECK_DEADLOCK FALSE
