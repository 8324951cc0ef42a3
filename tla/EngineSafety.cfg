SPECIFICATION Spec
CONSTANTS
  MaxRequests = 2
  MaxFills = 1
  Undecodable = {2}
  Pieces = 2
  QueueCapacity = 2
  SendBatch = 2
  SocketRoom = 1
  MdEnabled = TRUE
  SigPipe = TRUE
INVARIANTS
  TypeOK
  InOrder
  NothingLeftBehind
  AtMostOneLost
