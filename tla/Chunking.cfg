CONSTANTS
  Format = {"text", "markdown", "html", "docx", "pdf"}
  MaxItems = 5
  Widths = {2, 3, 7}
  Wide = {3}
  Levels = {1, 2}
  Marks = {0, 1}
  MaxChars = 6
  OverlapChars = 2
  MaxExtracted = 16
  MaxSegments = 3
  MaxPages = 3
  MaxXml = 18
SPECIFICATION Spec
INVARIANTS
  CutIsWarned
  PhrasesStayWhole
  EmbeddedFromOwnText
  UnderItsHeadings
CHECK_DEADLOCK FALSE
