---------------------------- MODULE Engine_proofs ----------------------------
(***************************************************************************)
(* Theorems about Engine for any modules, import graphs, patterns and      *)
(* number of runs.                                                         *)
(***************************************************************************)
EXTENDS Engine, TLAPS

(* The steps of Next one by one, which the proofs below split on. *)
Moves ==
  \/ \E d \in Projects, w \in {"metadata", "openapi"}, r \in BOOLEAN : Begin(d, w, r)
  \/ Cancel
  \/ \E errs \in SUBSET Packages : Load(errs)
  \/ Validate
  \/ Dependencies
  \/ GenerateMetadata
  \/ ResolveCallGraph
  \/ Configure
  \/ BuildTree
  \/ Map
  \/ Write
  \/ UNCHANGED vars

LEMMA MovesOfNext == [Next]_vars => Moves
  BY Zenon DEF Next, Step, Moves

-----------------------------------------------------------------------------
(* Facts about the operators. *)

LEMMA WalkHasPackages ==
  ASSUME NEW d \in Projects
  PROVE  PackagesOf(d) \subseteq Packages
<1>1. WalkOf[d] \in Seq(Packages)
  BY WalkAssumption
<1>2. \A i \in DOMAIN WalkOf[d] : WalkOf[d][i] \in Packages
  BY <1>1
<1> QED
  BY <1>2 DEF PackagesOf, Range

LEMMA UnionIsFilters ==
  ASSUME NEW f \in Filters, NEW g \in Filters
  PROVE  /\ Union(f, g) \in Filters
         /\ f.exclude \subseteq Union(f, g).exclude
         /\ g.exclude \subseteq Union(f, g).exclude
  BY DEF Union, Filters

(* A package that passes wider excludes passes the narrower ones. *)
LEMMA MoreExcluded ==
  ASSUME NEW f, NEW E, E \subseteq f.exclude, NEW p, shouldIncludePackage(f, p)
  PROVE  ~MatchesAny(E, p)
  BY DEF shouldIncludePackage, MatchesAny

LEMMA LoadedOfProject ==
  ASSUME NEW d, NEW f
  PROVE  /\ loadFilteredPackages(d, f) \subseteq PackagesOf(d)
         /\ \A p \in loadFilteredPackages(d, f) : shouldIncludePackage(f, p)
  BY DEF loadFilteredPackages

(* The framework list names paths, whichever of those it can be it is. *)
LEMMA ListsArePaths ==
  ASSUME NEW ps \in SUBSET Packages, NEW list \in FrameworkLists(ps)
  PROVE  list \subseteq Packages \union Outside
<1> DEFINE graph  == [p \in ps |-> Imports[p]]
           direct == {p \in ps : detectFrameworkType(p, graph, Detected, {}) # NoFramework}
           deps   == {p \in ps \ direct :
                        \E q \in direct : Reaches(p, q, graph, Packages \union Outside)}
           sure   == direct \union deps
           others == (UNION {Imports[p] : p \in ps}) \ sure
<1>1. FrameworkLists(ps) = {sure \union more : more \in SUBSET others}
  BY DEF FrameworkLists
<1>2. sure \subseteq ps
  OBVIOUS
<1>3. others \subseteq Packages \union Outside
  BY ImportsAssumption
<1> HIDE DEF sure, others
<1>4. PICK more \in SUBSET others : list = sure \union more
  BY <1>1
<1> QED
  BY <1>2, <1>3, <1>4

LEMMA AutoIncluded ==
  ASSUME NEW f \in Filters, NEW list \in SUBSET (Packages \union Outside)
  PROVE  /\ autoIncludeFrameworkPackages(f, list) \in Filters
         /\ autoIncludeFrameworkPackages(f, list).exclude = f.exclude
  BY PatternsAssumption DEF autoIncludeFrameworkPackages, Filters

LEMMA DetectedIsSurface ==
  ASSUME NEW d
  PROVE  DetectAll(d) \subseteq FrameworkTypes
  BY DEF DetectAll, UsedBy, Recognised, FrameworkTypes, frameworkDetectionOrder

(* Every variable keeps its type. *)
THEOREM TypeCorrect == Spec => []TypeOK
<1>1. Init => TypeOK
  <2> SUFFICES ASSUME Init PROVE TypeOK
    OBVIOUS
  <2>1. shared \in BOOLEAN
    BY Zenon, UseAssumption DEF Init
  <2>2. source \in {"object", "file", "default"}
    BY Zenon, UseAssumption DEF Init
  <2>3. filters \in Filters /\ object \in Filters
    BY FiltersAssumption DEF Init
  <2>4. run \in 0..MaxRuns
    BY UseAssumption DEF Init
  <2> QED
    BY <2>1, <2>2, <2>3, <2>4 DEF Init, TypeOK
<1>2. TypeOK /\ [Next]_vars => TypeOK'
  <2> SUFFICES ASSUME TypeOK, Moves PROVE TypeOK'
    BY MovesOfNext
  <2> USE UseAssumption DEF TypeOK, Phases
  <2>1. ASSUME NEW d \in Projects, NEW w \in {"metadata", "openapi"}, NEW r \in BOOLEAN,
               Begin(d, w, r)
        PROVE  TypeOK'
    <3>1. object' \in Filters
      BY <2>1, FiltersAssumption DEF Begin
    <3>2. filters' \in Filters
      BY <2>1, <3>1, FiltersAssumption, UnionIsFilters DEF Begin
    <3>3. run' \in 0..MaxRuns
      BY <2>1 DEF Begin
    <3>4. pc' \in Phases \union {"idle"} /\ outcome' \in {"none", "error"}
      BY <2>1 DEF Begin, Fail
    <3>5. shared' \in BOOLEAN /\ source' \in {"object", "file", "default"}
      BY <2>1 DEF Begin, use
    <3>6. /\ wanted' \in {"metadata", "openapi"} /\ resolve' \in BOOLEAN
          /\ project' \in Projects /\ cancelled' \in BOOLEAN
          /\ resolvedGraph' \in BOOLEAN
      BY <2>1 DEF Begin
    <3>7. /\ pkgs' = {} /\ broken' = {} /\ metadata' = NoMetadata
          /\ skipped' = {} /\ surface' = {}
      BY <2>1 DEF Begin
    <3> QED
      BY <3>1, <3>2, <3>3, <3>4, <3>5, <3>6, <3>7
  <2>2. CASE Cancel
    BY <2>2 DEF Cancel, use, engine
  <2>3. ASSUME NEW errs \in SUBSET Packages, Load(errs) PROVE TypeOK'
    <3>1. pkgs' \subseteq Packages
      BY <2>3, LoadedOfProject, WalkHasPackages DEF Load
    <3> QED
      BY <2>3, <3>1 DEF Load, Fail, use, engine
  <2>4. CASE Validate
    BY <2>4 DEF Validate, Fail, use
  <2>5. CASE Dependencies
    <3>1. PICK list \in FrameworkLists(pkgs), analyze \in BOOLEAN, autoInclude \in BOOLEAN :
             IF analyze /\ autoInclude
             THEN /\ filters' = autoIncludeFrameworkPackages(filters, list)
                  /\ pkgs' = {p \in pkgs : keep(list, p)}
             ELSE UNCHANGED <<filters, pkgs>>
      BY <2>5 DEF Dependencies
    <3>2. filters' \in Filters
      BY <3>1, ListsArePaths, AutoIncluded
    <3>3. pkgs' \subseteq Packages
      BY <3>1
    <3> QED
      BY <2>5, <3>2, <3>3 DEF Dependencies, use, engine
  <2>6. CASE GenerateMetadata
    BY <2>6 DEF GenerateMetadata, Fail, use, engine
  <2>7. CASE ResolveCallGraph
    <3>1. metadata' = metadata \/ metadata' = Metadata(pkgs)
      BY <2>7 DEF ResolveCallGraph, Store
    <3>2. metadata' = NoMetadata \/ metadata'.packages \subseteq Packages
      BY <3>1 DEF Metadata
    <3> QED
      BY <2>7, <3>2 DEF ResolveCallGraph, Store, Fail, use
  <2>8. CASE Configure
    <3>1. object' \in Filters
      BY <2>8, UnionIsFilters DEF Configure, mergeIncludeExcludePatterns
    <3>2. surface' \subseteq FrameworkTypes
      BY <2>8, DetectedIsSurface DEF Configure, FrameworkTypes, frameworkDetectionOrder
    <3> QED
      BY <2>8, <3>1, <3>2 DEF Configure, Fail, use, engine
  <2>9. CASE BuildTree
    BY <2>9 DEF BuildTree, Fail, use, engine
  <2>10. CASE Map
    BY <2>10 DEF Map, Fail, use, engine
  <2>11. CASE Write
    BY <2>11 DEF Write, Fail, use, engine
  <2>12. CASE UNCHANGED vars
    BY <2>12 DEF vars, use, engine
  <2> QED
    BY <2>1, <2>2, <2>3, <2>4, <2>5, <2>6, <2>7, <2>8, <2>9, <2>10, <2>11, <2>12 DEF Moves
<1> QED
  BY <1>1, <1>2, PTL DEF Spec

-----------------------------------------------------------------------------
(* What the user excluded is in every set of filters a run works with, so *)
(* that nothing that gets through a filter matches it.                    *)
ExcludeInv ==
  /\ source = "object" => ObjectFilters.exclude \subseteq object.exclude
  /\ pc # "idle" => UsersFilters.exclude \subseteq filters.exclude
  /\ pc \notin {"idle", "load"} => \A p \in pkgs : ~MatchesAny(UsersFilters.exclude, p)
  /\ ExcludedStayOut

(* Without earlier runs on its object a run has the user's filters until  *)
(* it adds its framework packages, and after that no package leaves.      *)
Alone == ~shared \/ run <= 1

AloneInv ==
  /\ run = 0 => object = ObjectFilters
  /\ pc \in {"load", "validate", "dependencies", "metadata", "resolve"} =>
       metadata = NoMetadata
  /\ Alone =>
       /\ pc \in {"load", "validate", "dependencies"} => filters = UsersFilters
       /\ pc = "validate" => pkgs = UsersSelection(project)
       /\ pc \in {"dependencies", "metadata", "resolve"} =>
            pkgs = UsersSelection(project) \ broken
       /\ SelectionIsTheUsers

SelectionInv == TypeOK /\ ExcludeInv /\ AloneInv

selecting == <<use, run, project, filters, object, pkgs, broken, metadata, skipped>>

(* A step that only goes on to a phase that asks no more of the selection. *)
LEMMA GoingOn ==
  ASSUME ExcludeInv, AloneInv, UNCHANGED selecting,
         \/ pc' \in {pc, "idle"}
         \/ pc = "metadata" /\ pc' = "resolve"
         \/ pc = "tree" /\ pc' = "map"
         \/ pc = "map" /\ pc' = "write"
  PROVE  ExcludeInv' /\ AloneInv'
<1>1. /\ shared' = shared /\ source' = source /\ run' = run /\ project' = project
      /\ filters' = filters /\ object' = object /\ pkgs' = pkgs /\ broken' = broken
      /\ metadata' = metadata /\ skipped' = skipped
  BY DEF selecting, use
<1>2. UsersFilters' = UsersFilters
  BY <1>1 DEF UsersFilters
<1>3. ExcludedStayOut' <=> ExcludedStayOut
  BY <1>1, <1>2 DEF ExcludedStayOut
<1>4. UsersSelection(project)' = UsersSelection(project)
  BY <1>1, <1>2 DEF UsersSelection
<1>5. SelectionIsTheUsers' <=> SelectionIsTheUsers
  BY <1>1, <1>4 DEF SelectionIsTheUsers
<1>6. Alone' <=> Alone
  BY <1>1 DEF Alone
<1>7. ExcludeInv'
  BY <1>1, <1>2, <1>3 DEF ExcludeInv
<1>8. AloneInv'
  BY <1>1, <1>2, <1>4, <1>5, <1>6 DEF AloneInv
<1> QED
  BY <1>7, <1>8

LEMMA UsersExcludes ==
  /\ UsersFilters \in Filters
  /\ CliFilters.exclude \subseteq UsersFilters.exclude
  /\ source = "object" => UsersFilters.exclude = CliFilters.exclude \union ObjectFilters.exclude
  /\ source # "object" => UsersFilters = CliFilters
  BY FiltersAssumption, UnionIsFilters DEF UsersFilters, Union

LEMMA BeginSelects ==
  ASSUME TypeOK, ExcludeInv, AloneInv,
         NEW d \in Projects, NEW w, NEW r, Begin(d, w, r)
  PROVE  ExcludeInv' /\ AloneInv'
<1>1. /\ shared' = shared /\ source' = source /\ run' = run + 1 /\ pkgs' = {}
      /\ metadata' = NoMetadata /\ skipped' = {} /\ pc' \in {"idle", "load"}
      /\ object' = IF shared THEN object ELSE ObjectFilters
      /\ filters' = IF source = "object" THEN Union(CliFilters, object') ELSE CliFilters
  BY DEF Begin, use, Fail
<1>2. UsersFilters' = UsersFilters
  BY <1>1 DEF UsersFilters
<1>3. metadata'.stored = FALSE
  BY <1>1 DEF NoMetadata
<1>4. source = "object" => ObjectFilters.exclude \subseteq object'.exclude
  BY <1>1 DEF ExcludeInv
<1>5. object' \in Filters
  BY <1>1, FiltersAssumption DEF TypeOK
<1>6. source = "object" => filters'.exclude = CliFilters.exclude \union object'.exclude
  BY <1>1 DEF Union
<1>7. UsersFilters.exclude \subseteq filters'.exclude
  BY <1>1, <1>4, <1>6, UsersExcludes
<1>8. ExcludedStayOut'
  BY <1>1, <1>3 DEF ExcludedStayOut
<1>9. ExcludeInv'
  BY <1>1, <1>2, <1>4, <1>7, <1>8 DEF ExcludeInv
<1>10. run \in Nat /\ run + 1 # 0
  BY UseAssumption DEF TypeOK
<1>11. Alone' => object' = ObjectFilters
  BY <1>1, <1>10 DEF Alone, AloneInv
<1>12. Alone' => filters' = UsersFilters
  BY <1>1, <1>11 DEF UsersFilters
<1>13. SelectionIsTheUsers'
  BY <1>3 DEF SelectionIsTheUsers
<1>14. AloneInv'
  BY <1>1, <1>2, <1>10, <1>12, <1>13 DEF AloneInv
<1> QED
  BY <1>9, <1>14

LEMMA LoadSelects ==
  ASSUME TypeOK, ExcludeInv, AloneInv, NEW errs, Load(errs)
  PROVE  ExcludeInv' /\ AloneInv'
<1>1. /\ shared' = shared /\ source' = source /\ run' = run /\ project' = project
      /\ filters' = filters /\ object' = object /\ metadata' = metadata
      /\ skipped' = skipped /\ pc = "load" /\ pc' \in {"validate", "idle"}
      /\ pkgs' = loadFilteredPackages(project, filters)
  BY DEF Load, Fail, use, engine
<1>2. UsersFilters' = UsersFilters
  BY <1>1 DEF UsersFilters
<1>3. UsersFilters.exclude \subseteq filters.exclude
  BY <1>1 DEF ExcludeInv
<1>4. \A p \in pkgs' : ~MatchesAny(UsersFilters.exclude, p)
  BY <1>1, <1>3, LoadedOfProject, MoreExcluded
<1>5. ExcludedStayOut'
  BY <1>1, <1>2 DEF ExcludedStayOut, ExcludeInv
<1>6. ExcludeInv'
  BY <1>1, <1>2, <1>3, <1>4, <1>5 DEF ExcludeInv
<1>7. metadata' = NoMetadata
  BY <1>1 DEF AloneInv
<1>8. UsersSelection(project)' = UsersSelection(project)
  BY <1>1, <1>2 DEF UsersSelection
<1>9. Alone' <=> Alone
  BY <1>1 DEF Alone
<1>10. Alone => filters = UsersFilters
  BY <1>1 DEF AloneInv
<1>11. Alone => pkgs' = UsersSelection(project)
  BY <1>1, <1>10 DEF loadFilteredPackages, UsersSelection
<1>12. SelectionIsTheUsers'
  BY <1>7 DEF SelectionIsTheUsers, NoMetadata
<1>13. run' = 0 => object' = ObjectFilters
  BY <1>1 DEF AloneInv
<1>14. AloneInv'
  BY <1>1, <1>2, <1>7, <1>8, <1>9, <1>10, <1>11, <1>12, <1>13 DEF AloneInv
<1> QED
  BY <1>6, <1>14

LEMMA ValidateSelects ==
  ASSUME TypeOK, ExcludeInv, AloneInv, Validate
  PROVE  ExcludeInv' /\ AloneInv'
<1>1. /\ shared' = shared /\ source' = source /\ run' = run /\ project' = project
      /\ filters' = filters /\ object' = object /\ metadata' = metadata
      /\ broken' = broken /\ skipped' = pkgs \intersect broken
      /\ pc = "validate" /\ pc' \in {"dependencies", "idle"}
      /\ pkgs' = {p \in pkgs \ broken : shouldIncludePackage(filters, p)}
  BY DEF Validate, Fail, use
<1>2. UsersFilters' = UsersFilters
  BY <1>1 DEF UsersFilters
<1>3. metadata = NoMetadata /\ metadata'.stored = FALSE
  BY <1>1 DEF AloneInv, NoMetadata
<1>4. \A p \in pkgs : ~MatchesAny(UsersFilters.exclude, p)
  BY <1>1 DEF ExcludeInv
<1>5. ExcludedStayOut'
  BY <1>1, <1>2, <1>3, <1>4 DEF ExcludedStayOut
<1>6. ExcludeInv'
  BY <1>1, <1>2, <1>4, <1>5 DEF ExcludeInv
<1>7. UsersSelection(project)' = UsersSelection(project)
  BY <1>1, <1>2 DEF UsersSelection
<1>8. Alone' <=> Alone
  BY <1>1 DEF Alone
<1>9. Alone => filters = UsersFilters /\ pkgs = UsersSelection(project)
  BY <1>1 DEF AloneInv
<1>10. Alone => \A p \in pkgs : shouldIncludePackage(filters, p)
  BY <1>9 DEF UsersSelection
<1>11. Alone => pkgs' = UsersSelection(project) \ broken
  BY <1>1, <1>9, <1>10
<1>12. SelectionIsTheUsers'
  BY <1>3 DEF SelectionIsTheUsers
<1>13. run' = 0 => object' = ObjectFilters
  BY <1>1 DEF AloneInv
<1>14. AloneInv'
  BY <1>1, <1>2, <1>3, <1>7, <1>8, <1>9, <1>11, <1>12, <1>13 DEF AloneInv
<1> QED
  BY <1>6, <1>14

LEMMA DependenciesSelect ==
  ASSUME TypeOK, ExcludeInv, AloneInv, Dependencies
  PROVE  ExcludeInv' /\ AloneInv'
<1>1. /\ shared' = shared /\ source' = source /\ run' = run /\ project' = project
      /\ object' = object /\ metadata' = metadata
      /\ broken' = broken /\ skipped' = skipped
      /\ pc = "dependencies" /\ pc' = "metadata"
  BY DEF Dependencies, use, engine
<1>2. PICK list \in FrameworkLists(pkgs), analyze \in BOOLEAN, autoInclude \in BOOLEAN :
         IF analyze /\ autoInclude
         THEN /\ filters' = autoIncludeFrameworkPackages(filters, list)
              /\ pkgs' = {p \in pkgs : keep(list, p)}
         ELSE UNCHANGED <<filters, pkgs>>
  BY DEF Dependencies
<1>3. filters'.exclude = filters.exclude
  BY <1>2, ListsArePaths, AutoIncluded DEF TypeOK
<1>4. UsersFilters' = UsersFilters
  BY <1>1 DEF UsersFilters
<1>5. ExcludedStayOut'
  BY <1>1, <1>4 DEF ExcludedStayOut, ExcludeInv
<1>6. pkgs' \subseteq pkgs
  BY <1>2
<1>7. ExcludeInv'
  BY <1>1, <1>3, <1>4, <1>5, <1>6 DEF ExcludeInv
<1>8. UsersSelection(project)' = UsersSelection(project)
  BY <1>1, <1>4 DEF UsersSelection
<1>9. Alone' <=> Alone
  BY <1>1 DEF Alone
<1>10. Alone => pkgs = UsersSelection(project) \ broken
  BY <1>1 DEF AloneInv
<1>11. Alone => \A p \in pkgs : keep(list, p)
  BY <1>10 DEF UsersSelection, keep
<1>12. Alone => pkgs' = pkgs
  BY <1>2, <1>11
<1>13. metadata' = NoMetadata
  BY <1>1 DEF AloneInv
<1>14. SelectionIsTheUsers'
  BY <1>13 DEF SelectionIsTheUsers, NoMetadata
<1>15. run' = 0 => object' = ObjectFilters
  BY <1>1 DEF AloneInv
<1>16. AloneInv'
  BY <1>1, <1>8, <1>9, <1>10, <1>12, <1>13, <1>14, <1>15 DEF AloneInv
<1> QED
  BY <1>7, <1>16

LEMMA ResolveSelects ==
  ASSUME TypeOK, ExcludeInv, AloneInv, ResolveCallGraph
  PROVE  ExcludeInv' /\ AloneInv'
<1>1. /\ shared' = shared /\ source' = source /\ run' = run /\ project' = project
      /\ filters' = filters /\ object' = object /\ pkgs' = pkgs
      /\ broken' = broken /\ skipped' = skipped
      /\ pc = "resolve" /\ pc' \in {"configure", "idle"}
      /\ metadata' \in {metadata, Metadata(pkgs)}
  BY DEF ResolveCallGraph, Store, Fail, use
<1>2. metadata = NoMetadata
  BY <1>1 DEF AloneInv
<1>3. metadata'.stored => metadata'.packages = pkgs
  BY <1>1, <1>2 DEF NoMetadata, Metadata
<1>4. UsersFilters' = UsersFilters
  BY <1>1 DEF UsersFilters
<1>5. \A p \in pkgs : ~MatchesAny(UsersFilters.exclude, p)
  BY <1>1 DEF ExcludeInv
<1>6. ExcludedStayOut'
  BY <1>1, <1>3, <1>4, <1>5 DEF ExcludedStayOut, ExcludeInv
<1>7. ExcludeInv'
  BY <1>1, <1>4, <1>5, <1>6 DEF ExcludeInv
<1>8. UsersSelection(project)' = UsersSelection(project)
  BY <1>1, <1>4 DEF UsersSelection
<1>9. Alone' <=> Alone
  BY <1>1 DEF Alone
<1>10. Alone => pkgs = UsersSelection(project) \ broken
  BY <1>1 DEF AloneInv
<1>11. Alone => SelectionIsTheUsers'
  BY <1>1, <1>3, <1>8, <1>10 DEF SelectionIsTheUsers
<1>12. run' = 0 => object' = ObjectFilters
  BY <1>1 DEF AloneInv
<1>13. AloneInv'
  BY <1>1, <1>9, <1>11, <1>12 DEF AloneInv
<1> QED
  BY <1>7, <1>13

LEMMA ConfigureSelects ==
  ASSUME TypeOK, ExcludeInv, AloneInv, run # 0, Configure
  PROVE  ExcludeInv' /\ AloneInv'
<1>1. /\ shared' = shared /\ source' = source /\ run' = run /\ project' = project
      /\ filters' = filters /\ pkgs' = pkgs /\ metadata' = metadata
      /\ broken' = broken /\ skipped' = skipped
      /\ pc = "configure" /\ pc' \in {"tree", "idle"}
      /\ object' \in {object, Union(object, filters)}
  BY DEF Configure, mergeIncludeExcludePatterns, Fail, use, engine
<1>2. UsersFilters' = UsersFilters
  BY <1>1 DEF UsersFilters
<1>3. object.exclude \subseteq object'.exclude
  BY <1>1, UnionIsFilters DEF TypeOK
<1>4. ExcludedStayOut'
  BY <1>1, <1>2 DEF ExcludedStayOut, ExcludeInv
<1>5. ExcludeInv'
  BY <1>1, <1>2, <1>3, <1>4 DEF ExcludeInv
<1>6. UsersSelection(project)' = UsersSelection(project)
  BY <1>1, <1>2 DEF UsersSelection
<1>7. Alone => SelectionIsTheUsers'
  BY <1>1, <1>6 DEF AloneInv, SelectionIsTheUsers
<1>8. Alone' <=> Alone
  BY <1>1 DEF Alone
<1>9. AloneInv'
  BY <1>1, <1>7, <1>8 DEF AloneInv
<1> QED
  BY <1>5, <1>9

(* No phase is entered without a run. *)
Started == run = 0 => pc = "idle"

LEMMA StartedHolds == TypeOK /\ Started /\ [Next]_vars => Started'
<1> SUFFICES ASSUME TypeOK, Started, Moves PROVE Started'
  BY MovesOfNext
<1> USE UseAssumption DEF TypeOK, Started, use, engine
<1>1. ASSUME NEW d \in Projects, NEW w \in {"metadata", "openapi"}, NEW r \in BOOLEAN,
             Begin(d, w, r)
      PROVE  Started'
  <2>1. run \in Nat /\ run' = run + 1
    BY <1>1 DEF Begin
  <2> QED
    BY <2>1
<1>2. CASE Cancel
  BY <1>2 DEF Cancel
<1>3. ASSUME NEW errs \in SUBSET Packages, Load(errs) PROVE Started'
  BY <1>3 DEF Load
<1>4. CASE Validate
  BY <1>4 DEF Validate
<1>5. CASE Dependencies
  BY <1>5 DEF Dependencies
<1>6. CASE GenerateMetadata
  BY <1>6 DEF GenerateMetadata
<1>7. CASE ResolveCallGraph
  BY <1>7 DEF ResolveCallGraph
<1>8. CASE Configure
  BY <1>8 DEF Configure
<1>9. CASE BuildTree
  BY <1>9 DEF BuildTree
<1>10. CASE Map
  BY <1>10 DEF Map
<1>11. CASE Write
  BY <1>11 DEF Write
<1>12. CASE UNCHANGED vars
  BY <1>12 DEF vars
<1> QED
  BY <1>1, <1>2, <1>3, <1>4, <1>5, <1>6, <1>7, <1>8, <1>9, <1>10, <1>11, <1>12 DEF Moves

(* The metadata of a run with a configuration of its own is about exactly *)
(* the user's packages that type-check, and nothing the user excluded     *)
(* gets in after any number of runs on a shared object (engine.go:775-803 *)
(* and 1078-1188).                                                        *)
THEOREM SelectionHeld == Spec => []SelectionHolds
<1>1. Init => Started /\ ExcludeInv /\ AloneInv
  <2> SUFFICES ASSUME Init PROVE Started /\ ExcludeInv /\ AloneInv
    OBVIOUS
  <2>1. /\ pc = "idle" /\ object = ObjectFilters /\ metadata.stored = FALSE
        /\ skipped = {} /\ metadata = NoMetadata
    BY DEF Init, NoMetadata
  <2> QED
    BY <2>1 DEF Started, ExcludeInv, AloneInv, ExcludedStayOut, SelectionIsTheUsers
<1>2. TypeOK /\ Started /\ ExcludeInv /\ AloneInv /\ [Next]_vars => ExcludeInv' /\ AloneInv'
  <2> SUFFICES ASSUME TypeOK, Started, ExcludeInv, AloneInv, Moves
               PROVE  ExcludeInv' /\ AloneInv'
    BY MovesOfNext
  <2>1. ASSUME NEW d \in Projects, NEW w \in {"metadata", "openapi"}, NEW r \in BOOLEAN,
               Begin(d, w, r)
        PROVE  ExcludeInv' /\ AloneInv'
    BY <2>1, BeginSelects
  <2>2. CASE Cancel
    <3>1. UNCHANGED selecting /\ pc' = pc
      BY <2>2 DEF Cancel, selecting, engine
    <3> QED
      BY <3>1, GoingOn
  <2>3. ASSUME NEW errs \in SUBSET Packages, Load(errs)
        PROVE  ExcludeInv' /\ AloneInv'
    BY <2>3, LoadSelects
  <2>4. CASE Validate
    BY <2>4, ValidateSelects
  <2>5. CASE Dependencies
    BY <2>5, DependenciesSelect
  <2>6. CASE GenerateMetadata
    <3>1. UNCHANGED selecting /\ pc = "metadata" /\ pc' \in {"idle", "resolve"}
      BY <2>6 DEF GenerateMetadata, Fail, selecting, engine
    <3> QED
      BY <3>1, GoingOn
  <2>7. CASE ResolveCallGraph
    BY <2>7, ResolveSelects
  <2>8. CASE Configure
    <3>1. run # 0
      BY <2>8 DEF Started, Configure
    <3> QED
      BY <2>8, <3>1, ConfigureSelects
  <2>9. CASE BuildTree
    <3>1. UNCHANGED selecting /\ pc = "tree" /\ pc' \in {"idle", "map"}
      BY <2>9 DEF BuildTree, Fail, selecting, engine
    <3> QED
      BY <3>1, GoingOn
  <2>10. CASE Map
    <3>1. UNCHANGED selecting /\ pc = "map" /\ pc' \in {"idle", "write"}
      BY <2>10 DEF Map, Fail, selecting, engine
    <3> QED
      BY <3>1, GoingOn
  <2>11. CASE Write
    <3>1. UNCHANGED selecting /\ pc' = "idle"
      BY <2>11 DEF Write, Fail, selecting, engine
    <3> QED
      BY <3>1, GoingOn
  <2>12. CASE UNCHANGED vars
    <3>1. UNCHANGED selecting /\ pc' = pc
      BY <2>12 DEF vars, selecting, engine
    <3> QED
      BY <3>1, GoingOn
  <2> QED
    BY <2>1, <2>2, <2>3, <2>4, <2>5, <2>6, <2>7, <2>8, <2>9, <2>10, <2>11, <2>12 DEF Moves
<1>3. ExcludeInv /\ AloneInv => SelectionHolds
  BY DEF ExcludeInv, AloneInv, Alone, SelectionHolds, OwnSelectionIsTheUsers
<1> QED
  BY <1>1, <1>2, <1>3, TypeCorrect, StartedHolds, PTL DEF Spec

-----------------------------------------------------------------------------
(* Packages come from the walk over the project, and so do the frameworks. *)
WalkInv ==
  /\ pc \notin {"idle", "load"} => pkgs \subseteq PackagesOf(project)
  /\ metadata.stored => metadata.packages \subseteq PackagesOf(project)
  /\ outcome = "openapi" => pc = "idle"
  /\ outcome = "openapi" \/ pc \in {"configure", "tree", "map", "write"} => metadata.stored
  /\ (outcome = "openapi" \/ pc \in {"tree", "map", "write"}) /\ source = "default" =>
       surface = DetectAll(project) \union {"http"}

tracing == <<source, project, pkgs, metadata, surface>>

(* A step that leaves packages and frameworks as they are. *)
LEMMA TracedAsBefore ==
  ASSUME WalkInv, UNCHANGED tracing,
         \/ pc' = pc /\ outcome' = outcome
         \/ pc' = "idle" /\ outcome' = "error"
         \/ pc = "metadata" /\ pc' = "resolve" /\ outcome' = outcome
         \/ pc = "tree" /\ pc' = "map" /\ outcome' = outcome
         \/ pc = "map" /\ pc' = "write" /\ outcome' = outcome
         \/ pc = "write" /\ pc' = "idle"
  PROVE  WalkInv'
<1>1. /\ source' = source /\ project' = project /\ pkgs' = pkgs
      /\ metadata' = metadata /\ surface' = surface
  BY DEF tracing
<1> QED
  BY <1>1 DEF WalkInv

(* A specification made without the user's own config knows every         *)
(* framework that one of the packages behind it uses (engine.go:570-602). *)
THEOREM FrameworksTraced == Spec => []EveryFrameworkIsTraced
<1>1. Init => WalkInv
  BY DEF Init, WalkInv, NoMetadata
<1>2. WalkInv /\ [Next]_vars => WalkInv'
  <2> SUFFICES ASSUME WalkInv, Moves PROVE WalkInv'
    BY MovesOfNext
  <2>1. ASSUME NEW d \in Projects, NEW w \in {"metadata", "openapi"}, NEW r \in BOOLEAN,
               Begin(d, w, r)
        PROVE  WalkInv'
    <3>1. /\ metadata'.stored = FALSE /\ pc' \in {"idle", "load"}
          /\ outcome' \in {"none", "error"}
      BY <2>1 DEF Begin, Fail, NoMetadata
    <3> QED
      BY <3>1 DEF WalkInv
  <2>2. CASE Cancel
    <3>1. UNCHANGED tracing /\ pc' = pc /\ outcome' = outcome
      BY <2>2 DEF Cancel, tracing, use, engine
    <3> QED
      BY <3>1, TracedAsBefore
  <2>3. ASSUME NEW errs \in SUBSET Packages, Load(errs) PROVE WalkInv'
    <3>1. /\ pkgs' = loadFilteredPackages(project, filters) /\ pc = "load"
          /\ \/ pc' = "validate" /\ outcome' = outcome
             \/ pc' = "idle" /\ outcome' = "error"
          /\ metadata' = metadata /\ project' = project
      BY <2>3 DEF Load, Fail, engine
    <3>2. pkgs' \subseteq PackagesOf(project)
      BY <3>1, LoadedOfProject
    <3> QED
      BY <3>1, <3>2 DEF WalkInv
  <2>4. CASE Validate
    <3>1. /\ pkgs' \subseteq pkgs /\ pc = "validate" /\ pc' \in {"idle", "dependencies"}
          /\ outcome' \in {outcome, "error"} /\ metadata' = metadata /\ project' = project
      BY <2>4 DEF Validate, Fail
    <3> QED
      BY <3>1 DEF WalkInv
  <2>5. CASE Dependencies
    <3>1. /\ pkgs' \subseteq pkgs /\ pc = "dependencies" /\ pc' = "metadata"
          /\ outcome' = outcome /\ metadata' = metadata /\ project' = project
      BY <2>5 DEF Dependencies, engine
    <3> QED
      BY <3>1 DEF WalkInv
  <2>6. CASE GenerateMetadata
    <3>1. /\ UNCHANGED tracing /\ pc = "metadata"
          /\ \/ pc' = "idle" /\ outcome' = "error"
             \/ pc' = "resolve" /\ outcome' = outcome
      BY <2>6 DEF GenerateMetadata, Fail, tracing, use, engine
    <3> QED
      BY <3>1, TracedAsBefore
  <2>7. CASE ResolveCallGraph
    <3>1. /\ pkgs' = pkgs /\ project' = project
          /\ metadata' \in {metadata, Metadata(pkgs)}
          /\ pc = "resolve" /\ pc' \in {"configure", "idle"}
          /\ outcome' \in {outcome, "error", "metadata"}
          /\ pc' = "configure" => metadata' = Metadata(pkgs)
      BY <2>7 DEF ResolveCallGraph, Store, Fail
    <3>2. metadata'.stored => metadata'.packages \subseteq PackagesOf(project)
      BY <3>1 DEF WalkInv, Metadata
    <3>3. pc' = "configure" => metadata'.stored
      BY <3>1 DEF Metadata
    <3> QED
      BY <3>1, <3>2, <3>3 DEF WalkInv
  <2>8. CASE Configure
    <3>1. /\ pkgs' = pkgs /\ project' = project /\ metadata' = metadata
          /\ source' = source /\ pc = "configure"
          /\ \/ pc' = "idle" /\ outcome' = "error"
             \/ /\ pc' = "tree" /\ outcome' = outcome
                /\ source = "default" => surface' = DetectAll(project) \union {"http"}
      BY <2>8 DEF Configure, Fail, use, engine
    <3> QED
      BY <3>1 DEF WalkInv
  <2>9. CASE BuildTree
    <3>1. /\ UNCHANGED tracing /\ pc = "tree"
          /\ \/ pc' = "idle" /\ outcome' = "error"
             \/ pc' = "map" /\ outcome' = outcome
      BY <2>9 DEF BuildTree, Fail, tracing, use, engine
    <3> QED
      BY <3>1, TracedAsBefore
  <2>10. CASE Map
    <3>1. /\ UNCHANGED tracing /\ pc = "map"
          /\ \/ pc' = "idle" /\ outcome' = "error"
             \/ pc' = "write" /\ outcome' = outcome
      BY <2>10 DEF Map, Fail, tracing, use, engine
    <3> QED
      BY <3>1, TracedAsBefore
  <2>11. CASE Write
    <3>1. UNCHANGED tracing /\ pc = "write" /\ pc' = "idle"
      BY <2>11 DEF Write, Fail, tracing, use, engine
    <3> QED
      BY <3>1, TracedAsBefore
  <2>12. CASE UNCHANGED vars
    <3>1. UNCHANGED tracing /\ pc' = pc /\ outcome' = outcome
      BY <2>12 DEF vars, tracing, use, engine
    <3> QED
      BY <3>1, TracedAsBefore
  <2> QED
    BY <2>1, <2>2, <2>3, <2>4, <2>5, <2>6, <2>7, <2>8, <2>9, <2>10, <2>11, <2>12 DEF Moves
<1>3. WalkInv => EveryFrameworkIsTraced
  <2> SUFFICES ASSUME WalkInv, outcome = "openapi", source = "default",
                      NEW p \in metadata.packages
               PROVE  UsedBy(p) \union {"http"} \subseteq surface
    BY DEF EveryFrameworkIsTraced
  <2>1. p \in PackagesOf(project) /\ surface = DetectAll(project) \union {"http"}
    BY DEF WalkInv
  <2>2. UsedBy(p) \subseteq DetectAll(project)
    BY <2>1 DEF DetectAll
  <2> QED
    BY <2>1, <2>2
<1> QED
  BY <1>1, <1>2, <1>3, PTL DEF Spec

-----------------------------------------------------------------------------
(* Every step of the engine is a step of the abstract job or leaves it    *)
(* alone: one that has been told to stop before its last check never      *)
(* delivers (engine.go:384, 495, 686).  That it ends is left to TLC.      *)
THEOREM JobImplemented == Spec => Job!JobSafety
<1>1. Init => Job!JobInit
  BY DEF Init, Job!JobInit
<1>2. TypeOK /\ [Next]_vars => [Job!JobNext]_(Job!jobvars)
  <2> SUFFICES ASSUME TypeOK, Moves PROVE [Job!JobNext]_(Job!jobvars)
    BY MovesOfNext
  <2> USE DEF TypeOK, Phases, Job!JobNext, Job!jobvars
  <2>1. ASSUME NEW d \in Projects, NEW w \in {"metadata", "openapi"}, NEW r \in BOOLEAN,
               Begin(d, w, r)
        PROVE  Job!Submit
    BY <2>1 DEF Begin, Fail, Job!Submit
  <2>2. CASE Cancel
    BY <2>2 DEF Cancel, Job!Stop
  <2>3. ASSUME NEW errs \in SUBSET Packages, Load(errs)
        PROVE  [Job!JobNext]_(Job!jobvars)
    BY <2>3 DEF Load, Fail, Job!GiveUp
  <2>4. CASE Validate
    BY <2>4 DEF Validate, Fail, Job!GiveUp
  <2>5. CASE Dependencies
    BY <2>5 DEF Dependencies
  <2>6. CASE GenerateMetadata
    BY <2>6 DEF GenerateMetadata, Fail, Job!GiveUp, Job!Commit
  <2>7. CASE ResolveCallGraph
    BY <2>7 DEF ResolveCallGraph, Store, Fail, Job!GiveUp, Job!Deliver
  <2>8. CASE Configure
    BY <2>8 DEF Configure, Fail, Job!GiveUp
  <2>9. CASE BuildTree
    BY <2>9 DEF BuildTree, Fail, Job!GiveUp, Job!Commit
  <2>10. CASE Map
    BY <2>10 DEF Map, Fail, Job!GiveUp
  <2>11. CASE Write
    BY <2>11 DEF Write, Fail, Job!GiveUp, Job!Deliver
  <2>12. CASE UNCHANGED vars
    BY <2>12 DEF vars
  <2> QED
    BY <2>1, <2>2, <2>3, <2>4, <2>5, <2>6, <2>7, <2>8, <2>9, <2>10, <2>11, <2>12 DEF Moves
<1> QED
  BY <1>1, <1>2, TypeCorrect, PTL DEF Spec, Job!JobSafety

=============================================================================
