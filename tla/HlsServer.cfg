SPECIFICATION Spec
CONSTANTS
  NULL = NULL
  S = S
  Conns = {a, b, c}
  Segments = {0}
  Channels = {out, news}
  SegInc = 2
  MaxChunks <- Chunks
  MaxUploads = 3
  MaxAccepts <- Accepts
  Disturbances <- Environments
INVARIANTS CompletedIsEnded NoLostWakeup
PROPERTIES WholeUpload ImplementsRelay
SYMMETRY ConnSymmetry
CHECK_DEADLOCK FALSE
