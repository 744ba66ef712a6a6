SPECIFICATION FairSpec
CONSTANTS
  c1 = c1
  c2 = c2
  Loop = Loop
  Callers <- MCCallers
  MaxCalls <- MCMaxCalls
  MaxLoops = 2
INVARIANTS NoLostWakeup
PROPERTIES BatchBounded ImplementsExecutor NothingSleptOn
