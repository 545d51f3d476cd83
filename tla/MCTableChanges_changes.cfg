CONSTANTS
  MaxRows = 3
  MaxValue = 2
  MaxWrites = 4
  Swaps = TRUE
SPECIFICATION Spec
INVARIANTS
  SetGivesResults
  ModifiedAreTold
  MovesAreRight
CHECK_DEADLOCK FALSE
