SPECIFICATION Spec
CONSTANTS
  Kinds = {"term", "vnc"}
  Habits = {"first_error"}
  Handshakes = {"ok", "token", "dial", "greet", "reply", "refused", "size"}
  Endings = {"going_away", "lost"}
  Quiet = TRUE
  MaxMessages = 2
  MaxPosts = 2
  RereadLimit = 3
INVARIANTS ClosingIsSafe
CHECK_DEADLOCK FALSE
