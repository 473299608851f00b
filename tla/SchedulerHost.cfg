CONSTANTS
  MaxJob = 2
  Source = {s1}
  Capacity <- OneEach
  MaxAttempts = 2
  WindowKinds = {"scan", "extract", "embedding"}
  Observations <- AllObservations
  PauseOnBattery = TRUE
  Faults = {"mode", "list", "check", "block", "unblock", "outcome"}
SPECIFICATION Spec
INVARIANTS
  NoQueuedRowOrphaned
  EmbeddingYields
PROPERTIES
  PauseHolds
  ImplementsLedger
