CONSTANTS
  None = None
  Folder <- TwoFolders
  File <- ThreeFiles
  KindOf <- KindOfFile
  Paged <- OnlyG
  Warned <- OnlyG
  Parts = 2
  Ids <- IdOrder
  Rankings <- TwoRankings
  Requests <- AllRequests
  Catalogs <- TwoCatalogs
  Limit = 2
  Headroom = 2
  Pool = 5
  Width = 4
  RrfScale = 495593280
  Failing = TRUE
  MaxVersion = 2
  MaxChanges = 2
SPECIFICATION Spec
INVARIANTS
  BestFirst
  PageIsFull
  RowsAreInScope
  RowsAreTrue
CHECK_DEADLOCK FALSE
