SPECIFICATION FairSpec
CONSTANTS
  NULL = NULL
  Conns = {a, b}
  nb_max_connections = 2
  nb_max_http_connections = 2
  Timeout = 1
  Builds <- Served
  MaxPeers = 3
INVARIANTS TableFits Polled RequestInTime
PROPERTIES EntriesMatch Accepted
CHECK_DEADLOCK FALSE
