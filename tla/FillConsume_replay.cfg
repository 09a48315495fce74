SPECIFICATION Spec
CONSTANTS
  Blocks <- TheBlocks
  Names = {"A", "B"}
  Codes = {"-38005", "-32602"}
  MaxBlocks = 2
  Attempts = 2
  Timeout = 5
  Interval = 2
  Tries = 3
INVARIANTS
  FilledIsTrue
  PassMeansConsensus
  
PROPERTIES
  Ends
CHECK_DEADLOCK FALSE
