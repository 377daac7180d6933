SPECIFICATION FairSpec
CONSTANTS
  a = a  b = b  c = c
  Storages = {a, b, c}
  TakesISO = {a, b}
  Ids = {100, 101}
  Programs <- TwoPrograms
  NoStorage = NoStorage
  NoId = 0
INVARIANTS TypeOK NothingLeftBehind InitialisedMeansDone RepeatMakesNoSecondGuest
PROPERTIES EveryCallReturns
CHECK_DEADLOCK FALSE
