SPECIFICATION Spec
CONSTANTS
  w1 = w1  w2 = w2  h1 = h1  h2 = h2
  Workers = {w1, w2}
  Handles = {h1}
  Plans <- OneHandle
  Page = 2
  MaxLines = 1
INVARIANT NoNilClient
CHECK_DEADLOCK FALSE
