SPECIFICATION FairSpec
CONSTANTS
  m1 = m1
  m2 = m2
  None = None
  Miners <- TwoMiners
  AtaFee = 1
  MinClaim = 1
  Endpoints = {"v2"}
  MaxEarned = 1
  MaxPaid = 2
  MaxLost = 1
  MaxRequests = 1
INVARIANTS
  NeverOverdrawn
  BooksInOrder
PROPERTIES
  LoopGoesOn
