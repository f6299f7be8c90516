SPECIFICATION FairSpec
CONSTANTS
  Messages <- Pair
  msize = 80
  Garbage = {0, 1, 99}
  Fragments = TRUE
PROPERTIES ParserReturns
CHECK_DEADLOCK FALSE
