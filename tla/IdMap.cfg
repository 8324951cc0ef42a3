SPECIFICATION Spec
CONSTANTS
  Ids = {o1, o2, o3, o4}
  Values = {a, b}
  NoValue = NoValue
  Hashes = {0, 2, 3, 6, 7}
  InitialCapacity = 4
  MaxReserve = 3
SYMMETRY IdSymmetry
INVARIANTS
  Reachable
PROPERTY ImplementsMap
