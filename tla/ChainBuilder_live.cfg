SPECIFICATION FairSpec
CONSTANTS
  gw0 = gw0
  gw1 = gw1
  NoWorker = NoWorker
  Workers <- TwoWorkers
  TxPerWorker = 2
  TxPerBlock = 2
  Interval = 2
  EagerClient = TRUE
  Timeouts = TRUE
  MaxErrors = 1
  MaxCrashes = 0
  MaxBlocks = 12
INVARIANT BacklogBounded
PROPERTY WaitEnds
CHECK_DEADLOCK FALSE
