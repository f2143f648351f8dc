SPECIFICATION Spec
CONSTANTS
  Gens = {g1, g2}
  Switches = {p1}
  Stops = {s1}
  Dirs = {d1}
  InitDir = d1
  Wedged = {g1}
  None = None
PROPERTIES
  ClientsAnswered
  ForceGetsTheSlot
  SlotRecovers
