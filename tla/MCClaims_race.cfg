SPECIFICATION Spec
CONSTANTS
  m1 = m1
  m2 = m2
  None = None
  Miners <- OneMiner
  AtaFee = 1
  MinClaim = 1
  Endpoints = {"v2", "direct"}
  MaxEarned = 2
  MaxPaid = 4
  MaxLost = 1
  MaxRequests = 2
INVARIANTS
  ClaimTypeOK
  ChargedWasPaid
