SPECIFICATION Spec
CONSTANTS
  RiskPer = 3  DailyLossLimit = 3  MaxLosses = 2  MaxTrades = 3
  KillSwitchOn = FALSE  PanicNoTrade = FALSE  HighVolHalves = 1
  MicroCap = 1  ValidatedCap = 2  ScaleCap = 3
  ValidatedMonths = 1  ScaleMonths = 2
  Start = 1  End = 9  DayLen = 2
  TrainDays = 1  TestDays = 2  StepDays = 2
  StartEquity = 6
  WindowFloor <- MCFloor
  WorstR = 2
  Outcomes <- MCOutcomes
  Dists = {1}  Regimes <- MCRegimes
  MaxCandidates = 4
  Stages = {"scale", "validated"}
  Evidences <- MCEvidences
INVARIANTS DayLimits WindowLimit Solvent
PROPERTY WithinBudget
CHECK_DEADLOCK FALSE
