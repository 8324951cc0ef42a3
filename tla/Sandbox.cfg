SPECIFICATION SandboxSpec
CONSTANTS
  b1 = b1
  b2 = b2
  a1 = a1
  other = other
  Ids = {b1, b2, a1, other}
  RefsOf <- MCRefsOf
  AAPL = AAPL
  MSFT = MSFT
  Symbols = {AAPL, MSFT}
  Symbol = AAPL
  Tracked = {AAPL}
  NoOwner = NoOwner
  Prices = {2, 4}
  MaxQty = 2
  HalfSpread = 1
  QuoteSize = 2
  MaxPosition = 1
  SkewPer100 = 100
  Tick = 2
SYMMETRY Symmetry
VIEW WhatCounts
INVARIANTS
  OwnersAgree
  QueueExact
  PositionBounded
PROPERTIES
  FillsInTurn
