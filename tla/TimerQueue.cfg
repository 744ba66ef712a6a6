SPECIFICATION FairSpec
CONSTANTS
  c1 = c1
  Callers <- MCCallers
  Addrs = {1, 2}
  Delays = {0, 2}
  Intervals = {0, 1}
  MaxTimers = 2
  MaxSetBacks = 1
INVARIANTS TimersKept NotSleptThrough CancelSticks
PROPERTIES EveryTimerRuns
CHECK_DEADLOCK FALSE
