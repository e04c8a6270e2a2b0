SPECIFICATION Spec
CONSTANTS
  Proc = {p1, p2}
  Name = {"obj", "syncobj"}
  Fallible = {}
  SharedRing = TRUE
  HonoursFence = TRUE
  Default = 1
INVARIANTS
  BusyChecksHold
