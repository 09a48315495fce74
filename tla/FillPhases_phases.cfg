SPECIFICATION Spec
CONSTANTS
  paris = paris
  frontier = frontier
  Tests <- MCTests
  Grouped <- MCGrouped
  MaxCommands = 3
  MaxFaults = 1
CHECK_DEADLOCK FALSE
INVARIANTS GroupsResolve ExactlyWanted EndsWell
