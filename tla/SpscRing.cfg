SPECIFICATION FairSpec
CONSTANTS
  Items = {a, b}
  NoItem = NoItem
  Mask = 3
INVARIANTS
  TypeOK
  NoSlotRace
PROPERTIES
  FifoSpec
  PopProgress
  PushProgress
