SPECIFICATION FairSpec
CONSTANTS
  gw0 = gw0
  gw1 = gw1
  gw2 = gw2
  Nobody = Nobody
  Workers <- ThreeWorkers
  Depth = 3
  Sentinel <- ThirdLevel
  MaxErrors = 1
  MaxCrashes = 1
INVARIANTS OneAlive TogetherAlive NothingLeft
PROPERTY AllStop
CHECK_DEADLOCK FALSE
