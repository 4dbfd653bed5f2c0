SPECIFICATION FairSettlementSpec
CONSTANTS
  c1 = c1
  c2 = c2
  None = None
  Conns <- OneConn
  Diffs = {1}
  MinDiff = 1
  MaxChallenge = 2
  MaxNonce = 1
  MaxNotes = 0
  MaxTasks = 1
  MaxAttempts = 2
  Trackers = {1}
PROPERTIES
  RoundEnds
  WindowReopens
  BestIsSettled
