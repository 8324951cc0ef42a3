SPECIFICATION ArrivalSpec
CONSTANTS
  Ids = {o1, o2, o3}
  Prices = {1, 2}
  ValidPrices = {1, 2}
  MaxQty = 2
  Participants = {0, a}
  Policies <- AllPolicies
  Kinds <- AllKinds
  CounterModulus = 1
  NoOrder = NoOrder
  NoCall = NoCall
  NoExec = NoExec
SYMMETRY IdSymmetry
INVARIANTS
  TypeOK
  NeverCrossed
  FokAllOrNothing
PROPERTY ImplementsReference
