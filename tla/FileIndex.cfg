CONSTANTS
  MaxVersion = 3
  Textless = {2}
  Oversize = {}
  MaxExtraction = 4
  MaxEvents = 4
  Events = {"change", "vanish", "unreadable", "denied", "crash", "retry", "trim",
            "ask", "clear", "keyword", "vector", "tidy", "folder", "revert", "evict"}
SPECIFICATION Spec
INVARIANTS
  PreparedAsPromised
  VectorsMatch
PROPERTIES
  NeverGoesBack
CHECK_DEADLOCK FALSE
