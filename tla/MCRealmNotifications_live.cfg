CONSTANTS
  Realms = {"main", "other"}
  none = none
  RunLoops = {"main"}
  Notifiers = {"n1"}
  Owner <- OwnedByMain
  MaxVersion = 3
  MaxCallbacks = 1
  LateCallbacks = FALSE
  NestedWrites = TRUE
  RemovesYoung = FALSE
  Unused = FALSE
  Suppresses = TRUE
SPECIFICATION LiveSpec
PROPERTIES
  WaitEnds
  EverybodyIsTold
