SPECIFICATION FairSpec
CONSTANTS
  c1 = c1
  c2 = c2
  c3 = c3
  m1 = m1
  m2 = m2
  None = None
  Conns <- ThreeConns
  Miners <- TwoMiners
  MinerOf <- AllOfOne
  LongNames = {c3}
  CommissionsMiner = m2
  Rewards = {21}
  Tables <- BothOrLong
  MaxHashpower = 1
  BatchSize = 1
  MaxChallenge = 2
  MaxLost = 1
  Faults = {"update", "lookup"}
INVARIANTS
  PayoutTypeOK
  FitsReward
  CreditedIsEarned
  OwedIsBrought
PROPERTIES
  RefinesLedger
  SuccessIsBooked
