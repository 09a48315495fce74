SPECIFICATION Spec
CONSTANTS
  gw0 = gw0
  gw1 = gw1
  gw2 = gw2
  Workers <- TwoWorkers
  Spares <- OneSpare
  SeedBalances = {3, 8, 31}
  TransferCost = 3
  LeastShare = 1
  Spending = {0, 2}
  MaxFaults = 2
INVARIANTS
  NonceAgrees
  
PROPERTIES
  Ends
CHECK_DEADLOCK FALSE
