SPECIFICATION Spec
CONSTANTS
  app = app
  other = other
  handlers = handlers
  models = models
  tools = tools
  secret = secret
  testpkg = testpkg
  cmd = cmd
  gin = gin
  chi = chi
  mux = mux
  pattern = pattern
  MaxRuns = 2
  Projects <- MCProjects
  Packages <- MCPackages
  Outside <- MCOutside
  WalkOf <- MCWalkOf
  Imports <- MCImports
  Detected <- MCDetected
  Rejected <- MCRejected
  Patterns <- MCPatterns
  Matches <- MCMatches
  CliFilters <- MCCliFilters
  ObjectFilters <- MCObjectFilters
  Sharings <- MCSharings
  Sources <- MCSources
CHECK_DEADLOCK FALSE
INVARIANTS
  SelectionHolds
  EveryFrameworkIsTraced
PROPERTY
  ImplementsJob
