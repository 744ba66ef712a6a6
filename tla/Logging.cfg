SPECIFICATION LogSpec
CONSTANTS
  SecondsPerMinute = 2
  MinutesPerHour = 2
  HoursPerDay = 4
  Walks <- MCWalks
  t1 = t1
  t2 = t2
  Loggers = {t1, t2}
  None = None
  MaxSettings = 1
  kSmallBuffer = 4000
  kMaxNumericSize = 48
  kFormattedTime = 17
  kMicroseconds = 8
  kTidString = 6
  kLevelName = 6
  kStrerror = 32
  kBasename = 20
  SourceLine = 100
INVARIANTS CalendarAgrees LocalTimeReturns StampsTrue LineWhole
CHECK_DEADLOCK FALSE
