SPECIFICATION StartFairSpec
CONSTANTS
  Sizes = {0, 1, 3}
  DestroyEarly = FALSE
  MaxPeers = 5
  MaxFds = 3
  MaxFaults = 1
  SpareTaken = FALSE
INVARIANTS LoopsUsable
PROPERTIES PeersServed ComesAndGoes
CHECK_DEADLOCK FALSE
