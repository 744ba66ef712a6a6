SPECIFICATION FairSpec
CONSTANTS
  Ids = {1, 2, 3, 4}
  Reconnects = FALSE
  RacingStop = FALSE
  DestroyEarly = FALSE
  MaxCalls = 3
INVARIANTS SocketsAgree KeepsTrying
PROPERTIES AttemptsAreDue
CHECK_DEADLOCK FALSE
