SPECIFICATION Spec
CONSTANTS
  Nodes = {n1, n2, n3, n4}
  MinPrice = 1
  MaxPrice = 3
  MaxCached = 1
  Null = Null
  NoLevel = NoLevel
SYMMETRY NodeSymmetry
INVARIANTS
  NodesAccounted
  LaddersAgree
PROPERTY ImplementsQueues
