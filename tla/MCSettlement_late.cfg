SPECIFICATION SettlementSpec
CONSTANTS
  c1 = c1
  c2 = c2
  None = None
  Conns <- TwoConns
  Diffs = {1, 2, 3}
  MinDiff = 2
  MaxChallenge = 3
  MaxNonce = 1
  MaxNotes = 1
  MaxTasks = 2
  MaxAttempts = 2
  Trackers = {1}
CONSTRAINT
  Part
INVARIANTS
  EpochIsConsistent
  NothingFromTheFuture
  AnnouncementHasWork
  ClosedWindowHasOpener
  AnnouncedOnce
