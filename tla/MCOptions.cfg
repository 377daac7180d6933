SPECIFICATION Spec
CONSTANTS
  c1 = c1  c2 = c2  h1 = h1  h2 = h2
  Clients <- MCClients
  HTTPClients <- MCHTTPClients
  OwnTransports = {own}
  OwnPools = {pem}
  Files = {ca, junk}
  EmptyFiles = {junk}
  MaxOptions = 3
  None = None
SYMMETRY Symmetric
INVARIANTS TypeOK BuiltAsAsked
PROPERTY OthersLeftAlone
CHECK_DEADLOCK FALSE
