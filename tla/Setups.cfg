SPECIFICATION SignalSpec
CONSTANTS
  NULL = NULL
  LastDay = 1
  DayLength = 2
  DailyRows <- Days
  HourlyRows <- Hourly
  PanicRv = 9
  PanicVolume = 3
  RangeLowRv = 3
  SlopeDeadband = 1
  VwapDeadband = 1
  NeutralRegimes = {}
  PullbackBand = 1
  AtrContractionMax = 1
  VolumeContractionMax = 1
  SqueezeMax = 1
  AtrCompressionMax = 0
  VolumeExpansionMin = 1
  RequireStructureShift = TRUE
  Enabled = {"A", "B", "C"}
  Gates <- GateConfigs
  Null = NULL
  Holidays <- OpenHolidays
  Instants <- BarTimes
  Candles <- BarCandles
  MaxBars = 5
  MinBars = 3
  swing_lookback = 1
  liquidity_lookback = 2
  liquidity_confirm_bars = 1
  opening_range_minutes = 60
  initial_balance_minutes = 30
  close_auction_minutes = 15
  swing_window = 2
  Trailing <- TrailingColumns
INVARIANTS NoSetupInWarmUp NoLookAhead Permitted StopBehind SessionsAgree
PROPERTY PastStands
CHECK_DEADLOCK FALSE
