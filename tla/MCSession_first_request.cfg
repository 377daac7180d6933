CONSTANTS
  c1 = c1
  c2 = c2
  Callers = {c1, c2}
  Ops = {"get"}
  Configs <- PlainConfigs
  MaxCalls = 1
  MaxHours = 0
SPECIFICATION Spec
INVARIANT RetriedWithTheTicket
CHECK_DEADLOCK FALSE
