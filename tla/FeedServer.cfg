SPECIFICATION Spec
CONSTANTS
  N = 2
  NULL = NULL
  Conns = {a, b, c}
  Urls = {u, v}
  MaxPackets = 3
  MaxAccepts = 5
  Hangups = FALSE
  DuplicatePosts = FALSE
  EarlyPlayers = TRUE
INVARIANTS FeedAlive RefCountExact HeaderFirst NoLostWakeup
PROPERTIES DrainedAtTrailer ImplementsLiveFeeds
SYMMETRY ConnSymmetry
CHECK_DEADLOCK FALSE
