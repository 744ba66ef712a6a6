SPECIFICATION FairSpec
CONSTANTS
  Size = 2
  HighWater = 3
  MaxSends = 3
  MaxFiles = 2
  PeerMayReset = TRUE
INVARIANTS NothingLostOrReordered WatchesWhenNeeded ClosesInTime
PROPERTIES OutputGoesOn
CHECK_DEADLOCK FALSE
