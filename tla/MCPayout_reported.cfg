SPECIFICATION Spec
CONSTANTS
  c1 = c1
  c2 = c2
  c3 = c3
  m1 = m1
  m2 = m2
  None = None
  Conns <- TwoConns
  Miners <- TwoMiners
  MinerOf <- BothOfOne
  LongNames = {}
  CommissionsMiner = m2
  Rewards = {21}
  Tables <- BothOrOne
  MaxHashpower = 1
  BatchSize = 1
  MaxChallenge = 2
  MaxLost = 1
  Faults = {"update", "lookup"}
INVARIANTS
  UpdatedAsReported
