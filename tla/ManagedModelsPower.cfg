CONSTANTS
  Generation = {g1, g2, g3}
  Manifest = {m1, m2}
  Process = {p1, p2}
  None = None
  MaxEpoch = 4
  Mishaps = {"misread", "powerloss"}
SPECIFICATION Spec
SYMMETRY Symmetry
INVARIANTS
  RegisteredIsComplete
  ProtectedKept
CHECK_DEADLOCK FALSE
