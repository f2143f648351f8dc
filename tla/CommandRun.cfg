SPECIFICATION Spec
CONSTANTS
  FlagSets <- MCFlagSets
  Levels <- MCLevels
  MaxRuns = 2
  MaxTicks = 1
CHECK_DEADLOCK FALSE
INVARIANTS
  SuccessMeansWritten
  MeasurementsAgree
