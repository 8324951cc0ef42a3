SPECIFICATION Spec
CONSTANTS
  MaxRequests = 2
  MaxFills = 1
  Undecodable = {}
  Pieces = 1
  QueueCapacity = 1
  SendBatch = 1
  SocketRoom = 1
  MdEnabled = TRUE
  SigPipe = FALSE
INVARIANT NothingDropped
