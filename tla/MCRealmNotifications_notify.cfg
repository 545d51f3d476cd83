CONSTANTS
  Realms = {"main", "other"}
  none = none
  RunLoops = {"main"}
  Notifiers = {"n1"}
  Owner <- OwnedByMain
  MaxVersion = 3
  MaxCallbacks = 2
  LateCallbacks = FALSE
  NestedWrites = TRUE
  RemovesYoung = FALSE
  Unused = FALSE
  Suppresses = TRUE
SPECIFICATION Spec
INVARIANTS
  RTypeOK
  NothingLost
  ToldOnce
  NoWrongChange
  ToldIsReadable
  HandoverMatches
  HandoverPinned
PROPERTY ImplementsVersionedFile
