SPECIFICATION Spec
CONSTANTS
  Base = 16
  Records <- MCRecords
  NewMessages <- MCNewMessages
  ChunkSizes = {7, 24, 50}
  MaxRecords = 2
INVARIANTS
  RoomUnlessLonger
  StreamIsWholeFile
  ReadsBack
