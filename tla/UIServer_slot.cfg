SPECIFICATION Spec
CONSTANTS
  Gens = {g1, g2}
  Switches = {p1}
  Stops = {s1}
  Dirs = {d1, d2}
  InitDir = d1
  Wedged = {}
  None = None
SYMMETRY GenSymmetry
INVARIANTS
  SlotOwnership
  AbandonedForACause
  SummaryOfCurrentDirOnly
PROPERTY
  ImplementsRunSlot
