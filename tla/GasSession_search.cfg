SPECIFICATION FairSession
CONSTANTS
  MaxGasLimit = 4
  Retries = 5
  Tests = 2
INVARIANTS EndsAtEdge OneServer
 
CHECK_DEADLOCK FALSE
