CONSTANTS
  c1 = c1
  c2 = c2
  Callers = {c1, c2}
  Ops <- LockedCalls
  Configs <- PasswordConfigs
  MaxCalls = 1
  MaxHours = 1
SPECIFICATION Spec
SYMMETRY Symmetric
INVARIANTS
  TypeOK
  OtpPostedOnce
  SessionWhole
  ResendBound
  OtpSessionRenewed
PROPERTY ImplementsTicketCell
CHECK_DEADLOCK FALSE
