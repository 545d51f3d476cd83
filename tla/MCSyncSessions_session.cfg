CONSTANTS
  Callers = {"a", "b"}
  client = "client"
  none = "none"
  Writers = {"a"}
  Policies = {"Immediately", "LiveIndefinitely", "AfterChangesUploaded"}
  MaxVersion = 2
  MaxWaits = 2
  MaxCalls = 5
SPECIFICATION Spec
INVARIANTS
  NobodyIsForgotten
  ActiveHasAnnounced
  ReferredIsRegistered
PROPERTY DyingLosesNothing
CHECK_DEADLOCK FALSE
