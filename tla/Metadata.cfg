SPECIFICATION MCSpec
CONSTANTS
  main = main
  f = f
  g = g
  h = h
  fmt = fmt
  T = T
  U = U
  int = int
  str = str
  p = p
  q = q
  a = a
  b = b
  c = c
  x = x
  y = y
  Fns <- MCFns
  Mains <- MCMains
  TypeNames <- MCTypeNames
  Concrete <- MCConcrete
  CallSets <- MCCallSets
  Passed <- MCPassed
  MaxSelfCallingDepth = 2
  Vars = {x, y}
  Funcs = {f, g, h, fmt}
  PkgOf <- MCPkgOf
  Pkg <- MCPkg
  Decls <- MCDecls
  Asked <- MCAsked
  Programs <- MCPrograms
  Literal = Literal
  NoMethod = NoMethod
  Declared <- MCDeclared
  Interfaces <- MCInterfaces
  Outer <- MCOuter
  TypeExprs <- MCTypeExprs
  References <- MCReferences
  MaxDepth = 4
  Declarations <- MCDeclarations
  FieldsOf <- MCFieldsOf
  SortedFiles <- MCSortedFiles
  Arguments <- MCArguments
  Height <- MCHeight
  Words <- MCWords
  MaxPasses = 3
  p1 = p1
  p2 = p2
  p3 = p3
  p4 = p4
  gin = gin
  nethttp = nethttp
  lib = lib
  MaxImportDepth = 2
  Packages <- MCPackages
  Outside <- MCOutside
  External <- MCExternal
  UnderRoot <- MCUnderRoot
  LikeProject <- MCLikeProject
  Detected <- MCDetected
  Graphs <- MCGraphs
  MockSets <- MCMockSets
  DisabledSets <- MCDisabledSets
CHECK_DEADLOCK FALSE
INVARIANTS
  ListIsRight
  CallersAgree
  InstancesAreCallers
  AnswersAreTraced
  ImplementationsAreFound
PROPERTIES
  MetadataEnds
  TypesDoNotFlip
