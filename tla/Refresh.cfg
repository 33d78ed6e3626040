SPECIFICATION JobsSpec
CONSTANTS
  Contracts = {"H", "M"}
  Timeframes = {"h1", "h4"}
  Revisions = {1, 2}
  Unserved = {"h4"}
  MaxAttempts = 2
  MaxRuns = 2
  None = None
  Torn = Torn
  Hourly = "h1"
  Daily = "h4"
  Batch = 2
  S501 = S501
  History <- FirstBars
  Grown <- MoreBars
  Payloads <- DailyReports
  Holidays <- OpenHolidays
  Minutes <- TfMinutes
  Slots <- TimeSlots
  Jobs <- Commands
  Answers <- SourceAnswers
  References <- SourceReferences
INVARIANTS TypeOK Mirrored CrossCheckInPlace ReportTrue MissingExact HistoryWhole
PROPERTY CommandsEnd
CHECK_DEADLOCK FALSE
