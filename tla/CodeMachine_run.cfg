SPECIFICATION Spec
CONSTANTS
  Programs <- ThePrograms
  StackLimit = 16
  GasLimit = 900
  Sizes = {1, 252}
  ActionSizes = {1, 90}
  Lengths = {0, 1, 300}
  ContractSize = 300
INVARIANTS
  DeclaredIsTrue
  
  
  ContainersHold
CHECK_DEADLOCK FALSE
