SPECIFICATION FairSpec
CONSTANTS
  w1 = w1  w2 = w2  h1 = h1  h2 = h2
  Workers = {w1, w2}
  Handles = {h1, h2}
  Plans <- Instances
  Page = 2
  MaxLines = 4
INVARIANTS TypeOK FlagsTellTheEnd FlagsFollowStatus VerdictsHold WatchedOnce OwnClientKept
PROPERTIES EveryWaitReturns WatchCloses
CHECK_DEADLOCK FALSE
