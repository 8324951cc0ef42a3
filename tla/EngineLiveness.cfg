SPECIFICATION FairSpec
CONSTANTS
  MaxRequests = 1
  MaxFills = 2
  Undecodable = {}
  Pieces = 1
  QueueCapacity = 1
  SendBatch = 2
  SocketRoom = 1
  MdEnabled = FALSE
  SigPipe = FALSE
PROPERTIES
  StopReturns
  SessionEnds
  Answered
