--------------------------- MODULE FrameworkDeps ---------------------------
(***************************************************************************)
(* AnalyzeFrameworkDependencies (internal/metadata/dependency_analyzer.go):*)
(* which packages have to do with a web framework.  Three passes: the      *)
(* packages that import a framework; the packages from which one of those  *)
(* can be reached, each found by a search of its own over the dependency   *)
(* graph; the paths those import, found by one depth-limited search that   *)
(* starts at every direct package and never lists a path twice.            *)
(*                                                                         *)
(* The order of the third pass is not fixed: findImportedPackages ranges   *)
(* over a map of the direct packages, and the imports of a package come in *)
(* the order its author wrote them.  The order of the second pass cannot   *)
(* be seen in its answer, and its visits are taken in any order.  What is  *)
(* written about a listed package (files, functions, types) is left out.   *)
(***************************************************************************)
EXTENDS FrameworkImports, FiniteSets

CONSTANTS
  Packages,        \* the packages analysed
  Outside,         \* import paths that are not among them
  Detected,        \* framework type -> the paths its patterns match
  External,        \* paths with one of the ExternalPrefixes
  UnderRoot,       \* paths with the prefix that all packages share
  LikeProject,     \* paths that look like a project's if there is no such prefix
  Graphs,          \* the import graphs considered
  MockSets,        \* the sets of test and mock packages considered
  DisabledSets,    \* the sets of disabled framework types considered
  MaxImportDepth

Paths == Packages \union Outside

ASSUME MaxImportDepthAssumption == MaxImportDepth \in Nat \ {0}
ASSUME GraphsAssumption == Graphs \subseteq [Packages -> SUBSET Paths]
ASSUME SetsAssumption == /\ MockSets \subseteq SUBSET Paths
                         /\ DisabledSets \subseteq SUBSET FrameworkTypes

VARIABLES
  imports,    \* dependencyGraph
  mocks,      \* isTestMockPackage
  disabled,   \* DisabledFrameworks
  rooted,     \* detectProjectRoot finds a prefix
  pass,       \* "direct", "dependents", "imported", "done"
  kind,       \* FrameworkType of a listed path; "none" when it is not listed
  asked,      \* packages the second pass has dealt with
  probe,      \* the package it is asking about, in a set; {} between two
  visited,    \* what that search has visited
  todo,       \* what it has still to visit
  starts,     \* direct packages the third pass has still to start from
  path,       \* packages whose imports it is ranging over, outermost first
  level       \* the depth at which a path was listed

depsVars == <<imports, mocks, disabled, rooted, pass, kind, asked, probe, visited, todo,
          starts, path, level>>

inputs == <<imports, mocks, disabled, rooted>>

Kinds == FrameworkTypes \union {"dependent", "imported", NoFramework}

DepsTypeOK ==
  /\ imports \in [Packages -> SUBSET Paths]
  /\ mocks \subseteq Paths
  /\ disabled \subseteq FrameworkTypes
  /\ rooted \in BOOLEAN
  /\ pass \in {"direct", "dependents", "imported", "done"}
  /\ kind \in [Paths -> Kinds]
  /\ asked \subseteq Packages
  /\ probe \subseteq Packages
  /\ visited \subseteq Paths
  /\ todo \subseteq Paths
  /\ starts \subseteq Packages
  /\ path \in Seq(Packages)
  /\ level \in [Paths -> Nat]

Direct == {p \in Packages : kind[p] \in FrameworkTypes}

Listed == {p \in Paths : kind[p] # NoFramework}

Innermost == path[Len(path)]

DepsInit ==
  /\ imports \in Graphs
  /\ mocks \in MockSets
  /\ disabled \in DisabledSets
  /\ rooted \in BOOLEAN
  /\ pass = "direct"
  /\ kind = [p \in Paths |-> NoFramework]
  /\ asked = {}
  /\ probe = {}
  /\ visited = {}
  /\ todo = {}
  /\ starts = {}
  /\ path = <<>>
  /\ level = [p \in Paths |-> 0]

-----------------------------------------------------------------------------
(* findAllFrameworkPackages, first loop. *)
FindDirect ==
  /\ pass = "direct"
  /\ kind' = [p \in Paths |->
                IF p \in Packages /\ p \notin mocks
                THEN detectFrameworkType(p, imports, Detected, disabled)
                ELSE NoFramework]
  /\ pass' = "dependents"
  /\ UNCHANGED <<inputs, asked, probe, visited, todo, starts, path, level>>

(* Second loop: direct packages and mocks are passed over. *)
ToAsk == {p \in Packages \ asked : p \notin Direct /\ p \notin mocks}

AskAbout(p) ==
  /\ pass = "dependents"
  /\ probe = {}
  /\ p \in ToAsk
  /\ probe' = {p}
  /\ visited' = {}
  /\ todo' = {p}
  /\ UNCHANGED <<inputs, pass, kind, asked, starts, path, level>>

(* The answer for the package asked about. *)
Answer(isDependent) ==
  /\ kind' = [p \in Paths |-> IF isDependent /\ p \in probe THEN "dependent" ELSE kind[p]]
  /\ asked' = asked \union probe
  /\ probe' = {}
  /\ visited' = {}
  /\ todo' = {}
  /\ UNCHANGED <<inputs, pass, starts, path, level>>

ImportsOf(p) == IF p \in Packages THEN imports[p] ELSE {}

(* hasTransitiveFrameworkDependency at p: an import that is a direct *)
(* package ends the search, the others are visited.                  *)
Visit(p) ==
  /\ pass = "dependents"
  /\ p \in todo
  /\ IF ImportsOf(p) \intersect Direct # {}
     THEN Answer(TRUE)
     ELSE /\ visited' = visited \union {p}
          /\ todo' = (todo \union ImportsOf(p)) \ visited'
          /\ UNCHANGED <<inputs, pass, kind, asked, probe, starts, path, level>>

NothingFound ==
  /\ pass = "dependents"
  /\ probe # {}
  /\ todo = {}
  /\ Answer(FALSE)

StartImported ==
  /\ pass = "dependents"
  /\ probe = {}
  /\ ToAsk = {}
  /\ pass' = "imported"
  /\ starts' = Direct
  /\ UNCHANGED <<inputs, kind, asked, probe, visited, todo, path, level>>

-----------------------------------------------------------------------------
(* With a common prefix, what some analysed package imports is related as *)
(* well; without one, the look of the path decides.                       *)
isProjectRelatedPackage(i) ==
  /\ i \notin mocks
  /\ i \notin External
  /\ IF rooted THEN i \in UnderRoot \/ \E p \in Packages : i \in imports[p]
     ELSE i \in LikeProject

ListsAgain(p) == {i \in imports[p] : isProjectRelatedPackage(i)}

(* The imports of p that findImportsRecursivelyWithDepth would list now. *)
Listable(p) ==
  {i \in imports[p] : isProjectRelatedPackage(i) /\ kind[i] = NoFramework}

(* findImportedPackages takes the direct packages in map order. *)
StartFrom(p) ==
  /\ pass = "imported"
  /\ path = <<>>
  /\ p \in starts
  /\ path' = <<p>>
  /\ starts' = starts \ {p}
  /\ UNCHANGED <<inputs, pass, kind, asked, probe, visited, todo, level>>

GoesOneFurther(i) == i \in Packages /\ Len(path) <= MaxImportDepth

(* A listed path is gone into if it is a package and the depth allows. *)
GoesInto(i) == i \in Packages /\ Len(path) < MaxImportDepth

(* The next import i of the innermost package. *)
ListImport(i) ==
  /\ path # <<>>
  /\ i \in Listable(Innermost)
  /\ kind' = [kind EXCEPT ![i] = "imported"]
  /\ level' = [level EXCEPT ![i] = Len(path)]
  /\ path' = IF GoesInto(i) THEN Append(path, i) ELSE path
  /\ UNCHANGED <<inputs, pass, asked, probe, visited, todo, starts>>

LeavePackage ==
  /\ path # <<>>
  /\ Listable(Innermost) = {}
  /\ path' = SubSeq(path, 1, Len(path) - 1)
  /\ UNCHANGED <<inputs, pass, kind, asked, probe, visited, todo, starts, level>>

Finish ==
  /\ pass = "imported"
  /\ starts = {}
  /\ path = <<>>
  /\ pass' = "done"
  /\ UNCHANGED <<inputs, kind, asked, probe, visited, todo, starts, path, level>>

DepsNext ==
  \/ FindDirect
  \/ \E p \in Packages : AskAbout(p) \/ StartFrom(p)
  \/ \E p \in Paths : Visit(p) \/ ListImport(p)
  \/ NothingFound
  \/ StartImported
  \/ LeavePackage
  \/ Finish

DepsSpec == DepsInit /\ [][DepsNext]_depsVars /\ WF_depsVars(DepsNext)

-----------------------------------------------------------------------------
(* A package counts as dependent exactly when the framework packages can  *)
(* be reached from it over the imports of the analysed packages, however  *)
(* they hang together: the visited set that cuts the search              *)
(* (hasTransitiveFrameworkDependency) never cuts off an answer.           *)
DependentsAreExact ==
  pass \in {"imported", "done"} =>
    \A p \in Packages \ mocks : p \notin Direct =>
      (kind[p] = "dependent" <=> \E q \in Direct : Reaches(p, q, imports, Paths))

(* Whatever order the searches are made in, the list has every related     *)
(* import of a direct package, and of an imported package that was listed  *)
(* above the depth limit; a path is missing only when everything listed    *)
(* that imports it was listed at the limit, or is a dependent, which no    *)
(* search goes into.                                                       *)
CutOnlyAtTheLimit ==
  pass = "done" =>
    \A p \in Packages :
      \/ p \in Direct
      \/ kind[p] = "imported" /\ level[p] < MaxImportDepth
      => Listable(p) = {}

(* Nothing is listed as imported without a chain of at most MaxImportDepth *)
(* imports from a direct package, over packages that are listed themselves *)
(* (findImportsRecursivelyWithDepth).                                      *)
ImportedAreNear ==
  \A i \in Paths : kind[i] = "imported" =>
    /\ level[i] \in 1..MaxImportDepth
    /\ \E p \in Packages :
         /\ i \in imports[p]
         /\ IF level[i] = 1 THEN p \in Direct
            ELSE kind[p] = "imported" /\ level[p] = level[i] - 1

(* What the list of framework packages is right about, whatever the order *)
(* of the searches: the dependents are exact, no import is listed that is *)
(* too far, and one is missing only behind what was listed at the depth   *)
(* limit or is a dependent (findAllFrameworkPackages,                     *)
(* dependency_analyzer.go:275-355).                                       *)
ListIsRight == DependentsAreExact /\ ImportedAreNear /\ CutOnlyAtTheLimit

(* The analysis comes to an end: no search goes for ever over what it, or *)
(* one before it, has listed (dependency_analyzer.go:519, processed).     *)
AnalysisEnds == <>(pass = "done")

(* What is within n imports of a direct package. *)
Near[n \in Nat] ==
  IF n = 0 THEN Direct
  ELSE Near[n - 1] \union
         {i \in Paths : isProjectRelatedPackage(i) /\
                          \E p \in Near[n - 1] \intersect Packages : i \in imports[p]}

(* Not so: "findImportedPackages finds all packages that are imported by     *)
(* framework packages (recursively)" (dependency_analyzer.go:455), up to the *)
(* depth limit.  A path first met at the limit is not gone into, and is not  *)
(* when it is met again nearer.                                              *)
AllNearAreListed ==
  pass = "done" => Near[MaxImportDepth] \subseteq Listed

=============================================================================
