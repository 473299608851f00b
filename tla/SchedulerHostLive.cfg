CONSTANTS
  MaxJob = 2
  Source = {s1}
  Capacity <- OneEach
  MaxAttempts = 2
  WindowKinds = {"extract", "embedding"}
  Observations <- AllObservations
  PauseOnBattery = TRUE
  Faults = {}
SPECIFICATION FairSpec
PROPERTIES EveryJobSettles
