CONSTANTS
  Realms = {"main", "other"}
  none = none
  RunLoops = {"main"}
  Notifiers = {"n1"}
  Owner <- OwnedByMain
  MaxVersion = 3
  MaxCallbacks = 1
  LateCallbacks = TRUE
  NestedWrites = FALSE
  RemovesYoung = FALSE
  Unused = FALSE
  Suppresses = FALSE
SPECIFICATION Spec
INVARIANT NothingLost
