SPECIFICATION ApiSpec
CONSTANTS
  Ids = {o1, o2, o3}
  Prices = {1, 2, 3}
  ValidPrices = {1, 2}
  MaxQty = 2
  Participants = {0, a}
  Policies <- AllPolicies
  Kinds <- AllKinds
  CounterModulus = 7
  NoOrder = NoOrder
  NoCall = NoCall
  NoExec = NoExec
SYMMETRY IdSymmetry
VIEW WithoutCounters
INVARIANTS
  IndexesAgree
  LevelsLive
  TotalsAgree
PROPERTIES
  SharesConserved
  RejectedLeavesNoTrace
  MatchingEnds
