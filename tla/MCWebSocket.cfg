SPECIFICATION FairSpec
CONSTANTS
  Kinds = {"term", "vnc"}
  Habits = {"drains"}
  Handshakes = {"ok", "token", "dial", "greet", "reply", "refused", "size"}
  Endings = {"going_away", "lost"}
  Quiet = TRUE
  MaxMessages = 2
  MaxPosts = 2
  RereadLimit = 3
INVARIANTS TypeOK ClosingIsSafe SentInOrder ReadIsReceived
PROPERTIES PostIsTaken ClosedEnds EndIsReported
CHECK_DEADLOCK FALSE
