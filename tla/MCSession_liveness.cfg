CONSTANTS
  c1 = c1
  c2 = c2
  Callers = {c1, c2}
  Ops <- EveryEntry
  Configs <- LivenessConfigs
  MaxCalls = 1
  MaxHours = 1
SPECIFICATION FairSpec
PROPERTY EveryCallReturns
CHECK_DEADLOCK FALSE
