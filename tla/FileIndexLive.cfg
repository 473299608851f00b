CONSTANTS
  MaxVersion = 3
  Textless = {}
  Oversize = {2}
  MaxExtraction = 6
  MaxEvents = 4
  Events = {"change", "revert", "vanish", "crash", "ask", "clear", "trim", "evict",
            "folder"}
SPECIFICATION FairSpec
INVARIANTS
  LeftOutIsForgotten
PROPERTIES
  PreparationEnds
CHECK_DEADLOCK FALSE
