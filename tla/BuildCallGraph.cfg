SPECIFICATION Spec
CONSTANTS
  f = f
  g = g
  Names <- MCNames
  Programs <- MCPrograms
INVARIANTS
  CallsAreRecorded
  ChainsAreOwn
  LinksLeadToEdges
