CONSTANTS
  None = None
  Folder <- ThreeFolders
  File <- ThreeFiles
  Failing = TRUE
  MaxAsked = 5
  MaxCrash = 1
SPECIFICATION FairSpec
INVARIANTS
  OneFolderPerFile
  RowsAreCovered
PROPERTIES
  PreparedStays
  CoveredIsPrepared
CHECK_DEADLOCK FALSE
