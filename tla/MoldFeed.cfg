SPECIFICATION Spec
CONSTANTS
  MaxMessages = 4
  PacketRoom = 2
INVARIANTS
  MissedIsExact
  EndAccountsForAll
