CONSTANTS
  None = None
  Folder = {f1}
  Inside = {}
  MaxReady = 2
  MaxAttempt = 2
  MaxSignals = 1
SPECIFICATION Spec
INVARIANTS
  HybridIsHeld
  WaitingIsAnswered
  LatestIsResolved
CHECK_DEADLOCK FALSE
