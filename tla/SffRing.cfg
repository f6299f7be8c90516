SPECIFICATION FairRingSpec
CONSTANTS
  N = 3
  NULL = NULL
  Readers = {r1, r2}
  MaxPackets = 11
INVARIANTS RingInv SafeWithinWindow
PROPERTIES ImplementsFeed CatchesUp
CHECK_DEADLOCK FALSE
