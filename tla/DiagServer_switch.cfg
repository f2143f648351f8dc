SPECIFICATION Spec
CONSTANTS
  Requests = {r1, r2}
  Dirs = {d1, d2}
  InitDir = d1
  Pages = {p1}
  MaxEdits = 1
  Hung = {r1}
  None = None
  Blank = Blank
INVARIANT
  SwitchInvalidates
