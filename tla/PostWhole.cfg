SPECIFICATION FairSpec
CONSTANTS
  Payloads <- Frames
  MaxBlocks = 3
  Bodies <- AnyBody
  Base = 2
  SizeBytes = 3
  MaxSff = 3
  buffer_size = 2
  SplitHeaders = FALSE
INVARIANTS BlocksAsPosted BodyAsPosted
PROPERTIES EndSeen
CHECK_DEADLOCK FALSE
