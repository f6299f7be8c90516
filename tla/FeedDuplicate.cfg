SPECIFICATION Spec
CONSTANTS
  N = 2
  NULL = NULL
  Conns = {a, b, c}
  Urls = {u}
  MaxPackets = 3
  MaxAccepts = 4
  Hangups = FALSE
  DuplicatePosts = TRUE
  EarlyPlayers = FALSE
INVARIANTS OneFeeder
SYMMETRY ConnSymmetry
CHECK_DEADLOCK FALSE
