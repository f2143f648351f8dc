SPECIFICATION MCSpec
CONSTANTS
  a = a
  b = b
  Graphs <- MCGraphs
  ViewRequests <- MCRequests
  Known <- MCKnown
  Linked <- MCLinked
  Handlers <- MCHandlers
  LinkGraphs <- MCLinkGraphs
  PathLimits <- MCPathLimits
  Traced <- MCTraced
  Programs <- MCViewPrograms
  TraceLimits <- MCLimits
CHECK_DEADLOCK FALSE
INVARIANTS
  DepthIsDistance
  ViewsAreComplete
  PathsAreRight
  TrackerTraceIsRight
