SPECIFICATION MCSpec
CONSTANTS
  main = main
  h = h
  f = f
  g = g
  Wiring = Wiring
  MaxInstancesPerKey = 2
  Keys <- MCKeys
  Roots <- MCRoots
  Plans <- MCPlans
  Limits <- MCLimits
  Functions = {f1, f2, f3}
  Refs = {r1}
INVARIANTS
  AnswersAreReached
  OnlyRecursionIsCut
  LinesAcyclic
  InstancesBounded
  CallsAreKept
PROPERTY
  SpecWalksEnd
