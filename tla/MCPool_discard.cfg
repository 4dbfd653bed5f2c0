SPECIFICATION Spec
CONSTANTS
  c1 = c1
  None = None
  Conns <- OneConn
  Diffs = {1}
  MinDiff = 1
  MaxChallenge = 2
  MaxNonce = 1
  MaxNotes = 0
  MaxTasks = 1
  MaxSends = 1
  MaxAttempts = 1
  Trackers = {1}
INVARIANTS
  DiscardedWasNotMined
