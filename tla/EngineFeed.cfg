SPECIFICATION FeedSpec
CONSTANTS
  Ids = {o1, o2, o3}
  Prices = {1, 2, 3}
  ValidPrices = {1, 2, 3}
  MaxQty = 2
  Participants = {0}
  Policies = {}
  Kinds = {"limit"}
  CounterModulus = 1
  NoOrder = NoOrder
  NoCall = NoCall
  NoExec = NoExec
  Symbol = Symbol
  NoOwner = NoOwner
  NoRequest = NoRequest
  PriceModulus = 4
  MaxBacklog = 0
SYMMETRY IdSymmetry
INVARIANTS
  ClientAgrees
  FeedAgrees
  FeedIsClean
  ReplicaUncrossed
