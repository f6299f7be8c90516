SPECIFICATION FairSpec
CONSTANTS
  MaxSize = 2
  MinFrames = 1
  Options <- Plays
INVARIANTS FrameRing DrawnAsQueued PacketsCurrent NoLostWakeup AudioBufKept
PROPERTIES ShownInOrder KeysServed ExitsAtEnd
CHECK_DEADLOCK FALSE
