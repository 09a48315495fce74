SPECIFICATION ChecklistSpec
CONSTANTS
  EipOf <- MCEipOf
  NotApplicable <- MCNotApplicable
  External <- MCExternal
  Collections <- MCCollections
  Wishes <- MCWishes
  DocGen = {TRUE, FALSE}
INVARIANTS
  ChecklistIsTrue
  EveryEipReported
CHECK_DEADLOCK FALSE
