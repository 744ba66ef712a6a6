SPECIFICATION FairSpec
CONSTANTS
  Capacity = 1
  DropAbove = 3
  MaxMessages = 5
  RollSize = 2
  CheckEveryN = 2
  FlushInterval = 1
  SecondsPerDay = 2
  MaxTime = 4
  MaxFaults = 1
INVARIANTS InOrderOnce RollsOnTime
PROPERTIES LoggingGoesOn
CHECK_DEADLOCK FALSE
