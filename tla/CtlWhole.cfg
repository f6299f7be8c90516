SPECIFICATION FairSpec
CONSTANTS
  Messages <- Mixed
  msize = 80
  Garbage = {0, 1, 99}
  Fragments = FALSE
INVARIANTS DispatchedAsSent
PROPERTIES ParserReturns
CHECK_DEADLOCK FALSE
