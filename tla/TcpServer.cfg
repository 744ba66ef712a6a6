SPECIFICATION FairSpec
CONSTANTS
  u1 = u1
  u2 = u2
  Users <- MCUsers
  Uses <- SafeUses
  MaxCalls = 4
INVARIANTS NoDanglingThis EndsOnce
PROPERTIES ClosedIsDestroyed
CHECK_DEADLOCK FALSE
