CONSTANTS
  Nothing = Nothing
  Files = 3
  Length = 1
  MaxConcurrent = 2
  Buffer = 1
  UiBuffer = 0
SPECIFICATION FairDeliverySpec
INVARIANTS
  PromotedIsTrusted
  OutcomeIsLast
  CancelledIsNotInstalled
PROPERTIES
  EveryDownloadEnds
CHECK_DEADLOCK FALSE
