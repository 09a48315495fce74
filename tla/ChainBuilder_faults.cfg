SPECIFICATION Spec
CONSTANTS
  gw0 = gw0
  gw1 = gw1
  NoWorker = NoWorker
  Workers <- TwoWorkers
  TxPerWorker = 2
  TxPerBlock = 2
  Interval = 2
  EagerClient = FALSE
  Timeouts = TRUE
  MaxErrors = 1
  MaxCrashes = 1
  MaxBlocks = 2
SYMMETRY WorkerSymmetry
INVARIANT PendingKept
PROPERTY KeepsPromise
CHECK_DEADLOCK FALSE
