SPECIFICATION Spec
CONSTANTS
  a = a  b = b  c = c
  Storages = {a, b, c}
  TakesISO = {a, b}
  Ids = {100, 101}
  Programs <- InitialiseAndDelete
  NoStorage = NoStorage
  NoId = 0
INVARIANT DeleteRemovesTheISO
CHECK_DEADLOCK FALSE
