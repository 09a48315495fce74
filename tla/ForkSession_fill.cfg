SPECIFICATION ForkSpec
CONSTANTS
  Class <- ByName
  Transitions <- TransitionForks
  CommandLines <- Lines
  MarkerSets <- Markers
  Tools <- AllTools
  Geneses <- MCGeneses
  Blocks <- MCBlocks
  StateTests <- MCStateTests
  MaxBlocks = 3
INVARIANTS SelectedAsAsked   ServesEveryBlock ParametersStayValid 
PROPERTIES PayloadFits 
CHECK_DEADLOCK FALSE
