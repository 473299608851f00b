CONSTANTS
  Generation = {g1, g2, g3}
  Manifest = {m1}
  Process = {p1, p2}
  None = None
  MaxEpoch = 4
  Mishaps = {"damage", "cleanup"}
SPECIFICATION Spec
SYMMETRY Symmetry
INVARIANTS
  CatalogCoherent
  PreviousSurvivedRestart
  ProtectedKept
  LeaseProtects
PROPERTIES
  FallbackKept
CHECK_DEADLOCK FALSE
