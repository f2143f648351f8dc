SPECIFICATION ResolvedSpec
CONSTANTS
  Traced <- MCTraced
  Programs <- MCPrograms
  TraceLimits <- MCLimits
CHECK_DEADLOCK FALSE
INVARIANT
  ResolvedTraceIsRight
PROPERTY
  WalkEnds
