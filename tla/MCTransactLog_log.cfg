CONSTANTS
  Addresses = {1, 2}
  MaxTables = 2
  MaxRows = 3
  MaxLinks = 3
  StartRows = {0, 1, 2}
  StartLinks = {0, 2}
  MaxWrites = 3
  MaxBefore = 1
  MaxMoves = 2
SPECIFICATION Spec
INVARIANTS
  LogLeadsHere
  AdvanceTellsKvo
  CancelPutsRowsBack
CHECK_DEADLOCK FALSE
