SPECIFICATION FairSpec
CONSTANTS
  Requests <- CycleRequests
  MaxRequests = 4
  ChunkedMin = 2
  FileBuf = 4
  NoRequest = NoRequest
INVARIANTS ReplyWhole UploadWhole
PROPERTIES Answered
CHECK_DEADLOCK FALSE
