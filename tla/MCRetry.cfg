CONSTANTS
  Requests <- LibraryRequests
  Policies <- LibraryPolicies
  RetryAfters <- ServerHeaders
  Half = 512
  Second = 4
SPECIFICATION Spec
INVARIANTS
  TypeOK
  BodyIntact
  NoLeak
  DelayWithinCap
  CancelObserved
PROPERTY ImplementsRoundTrip
CHECK_DEADLOCK FALSE
