SPECIFICATION FairSpec
CONSTANTS
  N = 2
  NULL = NULL
  Conns = {a, b, c}
  Urls = {u}
  MaxPackets = 1
  MaxAccepts = 4
  Hangups = TRUE
  DuplicatePosts = TRUE
  EarlyPlayers = TRUE
INVARIANTS NoPhantomPlayers
PROPERTIES FeederReleased
CHECK_DEADLOCK FALSE
