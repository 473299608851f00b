CONSTANTS
  None = None
  outer = outer
  inner = inner
  Dir = {outer, inner}
  Below <- InnerBelowOuter
  File = {f1, f2}
  Query = {q1}
  Private = {inner}
  Plan <- EveryPlan
  MaxTasks = 2
SPECIFICATION Spec
INVARIANTS
  SearchingHasTask
  RetryNamesItsFile
  OffForgetsAll
PROPERTIES
  ErasesOnlyAsked
CHECK_DEADLOCK FALSE
