SPECIFICATION FairSpec
CONSTANTS
  u1 = u1
  u2 = u2
  m1 = m1
  m2 = m2
  None = None
  Addrs = {a}
  Conns <- TwoConns
  Miners <- TwoMiners
  MinerOf <- OneEach
  PongLimit = 2
  MaxLag = 0
  Faults = {"lookup"}
INVARIANTS
  ConnTypeOK
  LiveKeepsSocket
  PaidToItsMiner
PROPERTIES
  SilentLeaves
