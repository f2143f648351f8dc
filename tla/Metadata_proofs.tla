--------------------------- MODULE Metadata_proofs ---------------------------
(***************************************************************************)
(* Theorems about the analyses of the metadata: FrameworkDeps for any      *)
(* import graph and depth limit, GenericInstances for any sequence of      *)
(* calls, ReturnTypes for any declarations and types of their results,     *)
(* Implementations for any types and depth limit, VariableOrigins for any  *)
(* programs.                                                               *)
(***************************************************************************)
EXTENDS FrameworkDeps, GenericInstances, ReturnTypes, Implementations, VariableOrigins,
        FiniteSetTheorems, SequenceTheorems, WellFoundedInduction, TLAPS

-----------------------------------------------------------------------------
(* What the framework list rests on.                                       *)

(* p reaches a direct package. *)
DependsOn(p) == \E q \in Direct : Reaches(p, q, imports, Paths)

(* What each pass leaves alone. *)
PassesApart ==
  /\ pass = "direct" => asked = {} /\ probe = {}
  /\ probe = {} => todo = {}
  /\ pass \in {"direct", "dependents"} => \A p \in Paths : kind[p] # "imported"
  /\ pass # "dependents" => probe = {}
  /\ pass # "imported" => path = <<>> /\ starts = {}
  /\ pass \in {"imported", "done"} => ToAsk = {}

(* Packages that the second pass has dealt with are dependents if they     *)
(* depend on a direct package, and nothing else is a dependent.            *)
AskedAreExact ==
  /\ \A p \in asked : /\ p \notin mocks
                      /\ p \notin Direct
                      /\ kind[p] = "dependent" <=> DependsOn(p)
  /\ \A p \in Paths \ asked : kind[p] # "dependent"

(* The search below a package: what it has met is reached, and what it has *)
(* visited imports no direct package and nothing it has not met.           *)
SearchIsSound ==
  \A p \in probe :
    /\ probe = {p}
    /\ p \notin Direct /\ p \notin mocks /\ p \notin asked
    /\ p \in visited \union todo
    /\ \A x \in visited \union todo : x = p \/ Reaches(p, x, imports, Paths)
    /\ \A v \in visited : /\ ImportsOf(v) \intersect Direct = {}
                          /\ ImportsOf(v) \subseteq visited \union todo

(* The path starts at a direct package and has listed each next one at the *)
(* depth it stands at.                                                     *)
PathIsListed ==
  /\ Len(path) <= MaxImportDepth
  /\ \A k \in DOMAIN path :
       IF k = 1 THEN path[k] \in Direct
       ELSE kind[path[k]] = "imported" /\ level[path[k]] = k - 1

(* What may be gone into has been, is about to be, or is being gone into.  *)
LeftToList ==
  pass \in {"imported", "done"} =>
    \A p \in Packages :
      \/ p \in Direct
      \/ kind[p] = "imported" /\ level[p] < MaxImportDepth
      => \/ Listable(p) = {}
         \/ \E k \in DOMAIN path : path[k] = p
         \/ p \in Direct /\ p \in starts

DepsInv ==
  /\ DepsTypeOK
  /\ PassesApart
  /\ AskedAreExact
  /\ SearchIsSound
  /\ starts \subseteq Direct
  /\ PathIsListed
  /\ ImportedAreNear
  /\ LeftToList

LEMMA LastOrBefore ==
  ASSUME NEW n \in Nat \ {0}, NEW k \in 1..n
  PROVE  k = n \/ k \in 1..(n - 1)
  OBVIOUS

LEMMA WiderRange ==
  ASSUME NEW m \in Nat, NEW n \in Nat, m <= n
  PROVE  1..m \subseteq 1..n
  OBVIOUS

LEMMA KindsDiffer ==
  /\ "dependent" \notin FrameworkTypes /\ "imported" \notin FrameworkTypes
  /\ NoFramework \notin FrameworkTypes
  /\ NoFramework # "dependent" /\ NoFramework # "imported"
<1>1. DOMAIN frameworkDetectionOrder = 1..7
  BY DEF frameworkDetectionOrder
<1>2. \A i \in 1..7 : frameworkDetectionOrder[i] \in
        {"gin", "echo", "fiber", "chi", "mux", "fasthttp", "http"}
  BY DEF frameworkDetectionOrder
<1>3. FrameworkTypes \subseteq {"gin", "echo", "fiber", "chi", "mux", "fasthttp", "http"}
  BY <1>1, <1>2 DEF FrameworkTypes
<1> QED
  BY <1>3 DEF NoFramework

(* The first hit of an order of seven exists if there is a hit. *)
LEMMA DetectedType ==
  ASSUME NEW p, NEW graph, NEW detected, NEW off
  PROVE  detectFrameworkType(p, graph, detected, off) \in FrameworkTypes \union {NoFramework}
<1> DEFINE Hit(i) == /\ frameworkDetectionOrder[i] \notin off
                     /\ graph[p] \intersect detected[frameworkDetectionOrder[i]] # {}
           First(i) == Hit(i) /\ \A j \in 1..(i - 1) : ~Hit(j)
<1>1. DOMAIN frameworkDetectionOrder = 1..7
  BY DEF frameworkDetectionOrder
<1>2. ASSUME \E i \in 1..7 : Hit(i)
      PROVE  \E i \in 1..7 : First(i)
  <2> HIDE DEF Hit
  <2> QED
    BY <1>2
<1>3. CASE \E i \in DOMAIN frameworkDetectionOrder : Hit(i)
  <2>1. \E i \in DOMAIN frameworkDetectionOrder : First(i)
    BY <1>1, <1>2, <1>3
  <2>2. PICK i \in DOMAIN frameworkDetectionOrder :
          i = CHOOSE j \in DOMAIN frameworkDetectionOrder : First(j)
    BY <2>1, Zenon
  <2>3. detectFrameworkType(p, graph, detected, off) = frameworkDetectionOrder[i]
    BY <1>3, <2>2, Zenon DEF detectFrameworkType
  <2> QED
    BY <2>3 DEF FrameworkTypes
<1>4. CASE ~ \E i \in DOMAIN frameworkDetectionOrder : Hit(i)
  BY <1>4, Zenon DEF detectFrameworkType
<1> QED
  BY <1>3, <1>4

(* What one import reaches is reached, and nothing else. *)
LEMMA ReachesImport ==
  ASSUME DepsTypeOK, NEW p \in Packages, NEW q \in imports[p]
  PROVE  Reaches(p, q, imports, Paths)
  BY DEF Reaches

LEMMA ReachesOn ==
  ASSUME DepsTypeOK, NEW p, NEW x \in Packages, Reaches(p, x, imports, Paths),
         NEW q \in imports[x]
  PROVE  Reaches(p, q, imports, Paths)
<1>1. DOMAIN imports = Packages
  BY DEF DepsTypeOK
<1> QED
  BY <1>1 DEF Reaches, ClosedUnderImports

(* What is met in a search that is over is all that can be reached. *)
LEMMA SearchIsComplete ==
  ASSUME DepsTypeOK, NEW p \in Packages, p \in visited,
         \A v \in visited : /\ ImportsOf(v) \intersect Direct = {}
                            /\ ImportsOf(v) \subseteq visited
  PROVE  ~DependsOn(p)
<1> DEFINE S == {x \in Paths : \E v \in visited : x \in ImportsOf(v)}
<1>1. DOMAIN imports = Packages /\ imports \in [Packages -> SUBSET Paths]
  BY DEF DepsTypeOK
<1>2. imports[p] \subseteq S
  BY <1>1 DEF ImportsOf
<1>3. ClosedUnderImports(S, imports)
  <2>1. SUFFICES ASSUME NEW x \in S \intersect Packages
                 PROVE  imports[x] \subseteq S
    BY <1>1 DEF ClosedUnderImports
  <2>2. x \in visited
    OBVIOUS
  <2> QED
    BY <1>1, <2>1, <2>2 DEF ImportsOf
<1>4. \A q \in Direct : q \notin S
  OBVIOUS
<1>5. S \in SUBSET Paths
  OBVIOUS
<1> HIDE DEF S
<1> QED
  BY <1>2, <1>3, <1>4, <1>5 DEF DependsOn, Reaches

LEMMA TypesOfDeps ==
  ASSUME DepsTypeOK
  PROVE  /\ Packages \subseteq Paths
         /\ Direct \subseteq Packages
         /\ \A p : ImportsOf(p) \subseteq Paths
         /\ path \in Seq(Packages) /\ Len(path) \in Nat /\ DOMAIN path = 1..Len(path)
         /\ \A k \in 1..Len(path) : path[k] \in Packages
         /\ path # <<>> => Len(path) \in 1..Len(path) /\ Innermost \in Packages
<1>1. path \in Seq(Packages)
  BY DEF DepsTypeOK
<1>2. Len(path) \in Nat /\ DOMAIN path = 1..Len(path) /\ \A k \in 1..Len(path) : path[k] \in Packages
  BY <1>1, LenProperties, ElementOfSeq
<1>3. path # <<>> => Len(path) \in 1..Len(path)
  BY <1>1, <1>2, EmptySeq
<1>4. \A p : ImportsOf(p) \subseteq Paths
  BY DEF ImportsOf, DepsTypeOK
<1> QED
  BY <1>1, <1>2, <1>3, <1>4 DEF Paths, Direct, Innermost

LEMMA DepsStart == DepsInit => DepsInv
<1> SUFFICES ASSUME DepsInit PROVE DepsInv
  OBVIOUS
<1>1. /\ imports \in [Packages -> SUBSET Paths]
      /\ mocks \subseteq Paths /\ disabled \subseteq FrameworkTypes /\ rooted \in BOOLEAN
  BY GraphsAssumption, SetsAssumption DEF DepsInit
<1>2. kind \in [Paths -> Kinds] /\ \A p \in Paths : kind[p] = NoFramework
  BY DEF DepsInit, Kinds
<1>3. level \in [Paths -> Nat]
  BY DEF DepsInit
<1>4. path = <<>> /\ path \in Seq(Packages) /\ Len(path) = 0 /\ DOMAIN path = {}
  BY DEF DepsInit
<1>5. DepsTypeOK
  BY <1>1, <1>2, <1>3, <1>4 DEF DepsInit, DepsTypeOK
<1>6. PassesApart
  BY <1>2, <1>4, KindsDiffer DEF DepsInit, PassesApart
<1>7. AskedAreExact
  BY <1>2, KindsDiffer DEF DepsInit, AskedAreExact
<1>8. SearchIsSound /\ starts \subseteq Direct /\ LeftToList
  BY DEF DepsInit, SearchIsSound, LeftToList
<1>9. PathIsListed
  BY <1>4, MaxImportDepthAssumption DEF PathIsListed
<1>10. ImportedAreNear
  BY <1>2, KindsDiffer DEF ImportedAreNear
<1> QED
  BY <1>5, <1>6, <1>7, <1>8, <1>9, <1>10 DEF DepsInv

-----------------------------------------------------------------------------
(* The steps of the first two passes.                                      *)

LEMMA SameDirect ==
  ASSUME \A p \in Packages : kind'[p] \in FrameworkTypes <=> kind[p] \in FrameworkTypes
  PROVE  Direct' = Direct
  BY DEF Direct

LEMMA SameReach ==
  ASSUME UNCHANGED imports
  PROVE  /\ \A p, q : Reaches(p, q, imports, Paths)' <=> Reaches(p, q, imports, Paths)
         /\ \A p : ImportsOf(p)' = ImportsOf(p)
         /\ UNCHANGED <<mocks, rooted>> =>
              \A i : isProjectRelatedPackage(i)' <=> isProjectRelatedPackage(i)
  BY DEF Reaches, ClosedUnderImports, ImportsOf, isProjectRelatedPackage

(* Before the third pass nothing is listed as imported. *)
LEMMA BeforeImported ==
  ASSUME DepsTypeOK', pass' \in {"direct", "dependents"},
         \A p \in Paths : kind'[p] # "imported",
         UNCHANGED <<path, starts>>, PathIsListed, path = <<>>, starts = {}
  PROVE  /\ (starts \subseteq Direct)' /\ PathIsListed'
         /\ ImportedAreNear' /\ LeftToList'
<1>1. path' = <<>> /\ starts' = {} /\ DOMAIN path' = {}
  OBVIOUS
<1>2. PathIsListed'
  BY <1>1 DEF PathIsListed
<1> QED
  BY <1>1, <1>2 DEF ImportedAreNear, LeftToList

LEMMA FindDirectKeeps == DepsInv /\ FindDirect => DepsInv'
<1> SUFFICES ASSUME DepsInv, FindDirect PROVE DepsInv'
  OBVIOUS
<1> USE DEF DepsInv
<1>1. /\ pass = "direct" /\ pass' = "dependents"
      /\ UNCHANGED <<inputs, asked, probe, visited, todo, starts, path, level>>
  BY DEF FindDirect
<1>2. \A p \in Paths : kind'[p] \in FrameworkTypes \union {NoFramework}
  <2>1. SUFFICES ASSUME NEW p \in Paths
                 PROVE  kind'[p] \in FrameworkTypes \union {NoFramework}
    OBVIOUS
  <2>2. \/ kind'[p] = NoFramework
        \/ kind'[p] = detectFrameworkType(p, imports, Detected, disabled)
    BY Zenon DEF FindDirect
  <2> QED
    BY <2>2, DetectedType
<1>3. kind' \in [Paths -> Kinds]
  <2>1. DOMAIN kind' = Paths /\ kind' = [p \in Paths |-> kind'[p]]
    BY Zenon DEF FindDirect
  <2> QED
    BY <1>2, <2>1 DEF Kinds
<1>4. DepsTypeOK'
  BY <1>1, <1>3 DEF DepsTypeOK, inputs
<1>5. asked = {} /\ probe = {} /\ todo = {} /\ path = <<>> /\ starts = {}
  BY <1>1 DEF PassesApart
<1>6. \A p \in Paths : kind'[p] # "imported" /\ kind'[p] # "dependent"
  BY <1>2, KindsDiffer
<1>7. PassesApart'
  BY <1>1, <1>5, <1>6 DEF PassesApart
<1>8. AskedAreExact' /\ SearchIsSound'
  BY <1>1, <1>5, <1>6 DEF AskedAreExact, SearchIsSound
<1> QED
  BY <1>1, <1>4, <1>5, <1>6, <1>7, <1>8, BeforeImported

LEMMA AskAboutKeeps ==
  ASSUME DepsInv, NEW p \in Packages, AskAbout(p)
  PROVE  DepsInv'
<1> USE DEF DepsInv
<1>1. /\ pass = "dependents" /\ probe = {} /\ p \in Packages
      /\ p \notin asked /\ p \notin Direct /\ p \notin mocks
      /\ probe' = {p} /\ visited' = {} /\ todo' = {p}
      /\ UNCHANGED <<imports, mocks, disabled, rooted, pass, kind, asked, starts, path, level>>
  BY DEF AskAbout, ToAsk, inputs
<1>2. DepsTypeOK'
  BY <1>1 DEF DepsTypeOK, Paths
<1>3. Direct' = Direct
  BY <1>1, SameDirect
<1>4. path = <<>> /\ starts = {} /\ \A x \in Paths : kind'[x] # "imported"
  BY <1>1 DEF PassesApart
<1>5. PassesApart'
  BY <1>1, <1>4 DEF PassesApart
<1>6. AskedAreExact'
  BY <1>1, <1>3, SameReach DEF AskedAreExact, DependsOn
<1>7. SearchIsSound'
  BY <1>1, <1>3 DEF SearchIsSound
<1> QED
  BY <1>1, <1>2, <1>4, <1>5, <1>6, <1>7, BeforeImported

(* An answer that is right keeps the invariant. *)
LEMMA AnswerKeeps ==
  ASSUME DepsInv, NEW p \in probe, NEW b \in BOOLEAN, pass = "dependents",
         Answer(b), b <=> DependsOn(p)
  PROVE  DepsInv'
<1> USE DEF DepsInv
<1>1. /\ asked' = asked \union {p} /\ probe' = {} /\ visited' = {} /\ todo' = {}
      /\ UNCHANGED <<imports, mocks, disabled, rooted, pass, starts, path, level>>
      /\ p \in Packages /\ p \in Paths /\ p \notin Direct /\ p \notin mocks /\ p \notin asked
      /\ probe = {p}
  BY DEF Answer, inputs, SearchIsSound, DepsTypeOK, Paths
<1>2. \A x \in Paths : kind'[x] = IF b /\ x = p THEN "dependent" ELSE kind[x]
  <2>1. kind' = [x \in Paths |-> IF b /\ x \in probe THEN "dependent" ELSE kind[x]]
    BY Zenon DEF Answer
  <2> QED
    BY <1>1, <2>1
<1>3. kind' \in [Paths -> Kinds]
  BY DEF Answer, DepsTypeOK, Kinds
<1>4. DepsTypeOK'
  BY <1>1, <1>3 DEF DepsTypeOK
<1>5. Direct' = Direct
  <2>1. \A x \in Packages : kind'[x] \in FrameworkTypes <=> kind[x] \in FrameworkTypes
    BY <1>1, <1>2, KindsDiffer DEF Direct, Paths
  <2> QED
    BY <2>1, SameDirect
<1>6. \A x : DependsOn(x)' <=> DependsOn(x)
  BY <1>1, <1>5, SameReach DEF DependsOn
<1>7. path = <<>> /\ starts = {} /\ \A x \in Paths : kind'[x] # "imported"
  BY <1>1, <1>2 DEF PassesApart
<1>8. PassesApart'
  BY <1>1, <1>7 DEF PassesApart
<1>9. AskedAreExact'
  <2>1. ASSUME NEW x \in asked'
        PROVE  /\ x \notin mocks' /\ x \notin Direct'
               /\ kind'[x] = "dependent" <=> DependsOn(x)'
    <3>1. CASE x = p
      <4>1. kind[p] # "dependent"
        BY <1>1 DEF AskedAreExact
      <4> QED
        BY <1>1, <1>2, <1>5, <1>6, <3>1, <4>1
    <3>2. CASE x # p
      <4>1. x \in asked /\ x \in Paths
        BY <1>1, <3>2 DEF DepsTypeOK, Paths
      <4>2. x \notin mocks /\ x \notin Direct /\ (kind[x] = "dependent" <=> DependsOn(x))
        BY <4>1 DEF AskedAreExact
      <4> QED
        BY <1>1, <1>2, <1>5, <1>6, <3>2, <4>1, <4>2
    <3> QED
      BY <3>1, <3>2
  <2>2. \A x \in Paths \ asked' : kind'[x] # "dependent"
    BY <1>1, <1>2 DEF AskedAreExact
  <2> QED
    BY <2>1, <2>2 DEF AskedAreExact
<1>10. SearchIsSound'
  BY <1>1 DEF SearchIsSound
<1> QED
  BY <1>1, <1>4, <1>7, <1>8, <1>9, <1>10, BeforeImported

LEMMA VisitKeeps ==
  ASSUME DepsInv, NEW x \in Paths, Visit(x)
  PROVE  DepsInv'
<1> USE DEF DepsInv
<1>1. pass = "dependents" /\ x \in todo
  BY DEF Visit
<1>2. PICK p \in probe : TRUE
  BY <1>1 DEF PassesApart
<1>3. /\ probe = {p} /\ p \in Packages
      /\ \A y \in visited \union todo : y = p \/ Reaches(p, y, imports, Paths)
      /\ \A v \in visited : /\ ImportsOf(v) \intersect Direct = {}
                            /\ ImportsOf(v) \subseteq visited \union todo
      /\ p \notin Direct /\ p \notin mocks /\ p \notin asked
      /\ p \in visited \union todo
  BY <1>2 DEF SearchIsSound, DepsTypeOK
<1>4. \A y \in ImportsOf(x) : Reaches(p, y, imports, Paths)
  <2>1. SUFFICES ASSUME NEW y \in ImportsOf(x) PROVE Reaches(p, y, imports, Paths)
    OBVIOUS
  <2>2. x \in Packages /\ y \in imports[x]
    BY DEF ImportsOf
  <2>3. x = p \/ Reaches(p, x, imports, Paths)
    BY <1>1, <1>3
  <2> QED
    BY <2>2, <2>3, ReachesImport, ReachesOn
<1>5. CASE ImportsOf(x) \intersect Direct # {}
  <2>1. Answer(TRUE)
    BY <1>5 DEF Visit
  <2>2. DependsOn(p)
    BY <1>4, <1>5 DEF DependsOn
  <2> QED
    BY <1>1, <1>2, <2>1, <2>2, AnswerKeeps
<1>6. CASE ImportsOf(x) \intersect Direct = {}
  <2>1. /\ visited' = visited \union {x}
        /\ todo' = (todo \union ImportsOf(x)) \ visited'
        /\ UNCHANGED <<imports, mocks, disabled, rooted, pass, kind, asked, probe, starts, path, level>>
    BY <1>6 DEF Visit, inputs
  <2>2. DepsTypeOK'
    BY <2>1, TypesOfDeps DEF DepsTypeOK
  <2>3. Direct' = Direct
    BY <2>1, SameDirect
  <2>4. path = <<>> /\ starts = {} /\ \A y \in Paths : kind'[y] # "imported"
    BY <1>1, <2>1 DEF PassesApart
  <2>5. PassesApart'
    BY <1>1, <1>3, <2>1, <2>4 DEF PassesApart
  <2>6. AskedAreExact'
    BY <2>1, <2>3, SameReach DEF AskedAreExact, DependsOn
  <2>7. visited' \union todo' = visited \union todo \union ImportsOf(x)
    BY <1>1, <2>1
  <2>8. SearchIsSound'
    <3>1. \A y \in visited' \union todo' : y = p \/ Reaches(p, y, imports, Paths)
      BY <1>3, <1>4, <2>7
    <3>2. \A v \in visited' : /\ ImportsOf(v) \intersect Direct = {}
                              /\ ImportsOf(v) \subseteq visited' \union todo'
      BY <1>3, <1>6, <2>1, <2>7
    <3> QED
      BY <1>3, <2>1, <2>3, <2>7, <3>1, <3>2, SameReach DEF SearchIsSound
  <2> QED
    BY <1>1, <2>1, <2>2, <2>4, <2>5, <2>6, <2>8, BeforeImported
<1> QED
  BY <1>5, <1>6

LEMMA NothingFoundKeeps == DepsInv /\ NothingFound => DepsInv'
<1> SUFFICES ASSUME DepsInv, NothingFound PROVE DepsInv'
  OBVIOUS
<1>1. PICK p \in probe : pass = "dependents" /\ todo = {} /\ Answer(FALSE)
  BY DEF NothingFound
<1>2. /\ p \in visited /\ p \in Packages
      /\ \A v \in visited : /\ ImportsOf(v) \intersect Direct = {}
                            /\ ImportsOf(v) \subseteq visited
  BY <1>1 DEF DepsInv, SearchIsSound, DepsTypeOK
<1>3. ~DependsOn(p)
  BY <1>2, SearchIsComplete DEF DepsInv
<1> QED
  BY <1>1, <1>3, AnswerKeeps

-----------------------------------------------------------------------------
(* The steps of the third pass.                                            *)

LEMMA StartImportedKeeps == DepsInv /\ StartImported => DepsInv'
<1> SUFFICES ASSUME DepsInv, StartImported PROVE DepsInv'
  OBVIOUS
<1> USE DEF DepsInv
<1>1. /\ pass = "dependents" /\ probe = {} /\ ToAsk = {} /\ pass' = "imported"
      /\ starts' = Direct
      /\ UNCHANGED <<imports, mocks, disabled, rooted, kind, asked, probe, visited, todo, path, level>>
  BY DEF StartImported, inputs
<1>2. DepsTypeOK'
  BY <1>1, TypesOfDeps DEF DepsTypeOK
<1>3. Direct' = Direct
  BY <1>1, SameDirect
<1>4. ToAsk' = {}
  BY <1>1, <1>3 DEF ToAsk
<1>5. path = <<>> /\ todo = {} /\ \A x \in Paths : kind[x] # "imported"
  BY <1>1 DEF PassesApart
<1>6. PassesApart'
  BY <1>1, <1>4, <1>5 DEF PassesApart
<1>7. AskedAreExact'
  BY <1>1, <1>3, SameReach DEF AskedAreExact, DependsOn
<1>8. SearchIsSound' /\ (starts \subseteq Direct)'
  BY <1>1, <1>3 DEF SearchIsSound
<1>9. PathIsListed'
  BY <1>1, <1>3 DEF PathIsListed
<1>10. ImportedAreNear' /\ LeftToList'
  BY <1>1, <1>3, <1>5, TypesOfDeps DEF ImportedAreNear, LeftToList
<1> QED
  BY <1>2, <1>6, <1>7, <1>8, <1>9, <1>10

(* In the third pass the kinds of what is listed stay, and so do the       *)
(* direct packages and the dependents.                                     *)
LEMMA ListedStay ==
  ASSUME DepsInv, pass \in {"imported", "done"}, pass' \in {"imported", "done"},
         DepsTypeOK',
         UNCHANGED <<imports, mocks, rooted, asked, probe, todo>>,
         \A p \in Paths : \/ kind'[p] = kind[p]
                          \/ kind[p] = NoFramework /\ kind'[p] = "imported"
  PROVE  /\ Direct' = Direct
         /\ \A p \in Packages : Listable(p)' \subseteq Listable(p)
         /\ (pass' = "done" => path' = <<>> /\ starts' = {}) => PassesApart'
         /\ AskedAreExact' /\ SearchIsSound'
<1> USE DEF DepsInv
<1>1. Direct' = Direct
  BY SameDirect, KindsDiffer DEF Paths
<1>2. \A p \in Packages : Listable(p)' \subseteq Listable(p)
  <2>1. SUFFICES ASSUME NEW p \in Packages, NEW i \in Listable(p)'
                 PROVE  i \in Listable(p)
    OBVIOUS
  <2>2. i \in imports[p] /\ isProjectRelatedPackage(i) /\ kind'[i] = NoFramework
    BY SameReach DEF Listable
  <2>3. i \in Paths
    BY <2>2 DEF DepsTypeOK
  <2> QED
    BY <2>2, <2>3, KindsDiffer DEF Listable
<1>3. probe = {} /\ ToAsk = {}
  BY DEF PassesApart
<1>4. ToAsk' = {}
  BY <1>1, <1>3 DEF ToAsk
<1>5. AskedAreExact'
  <2>1. \A p \in Paths : kind'[p] = "dependent" <=> kind[p] = "dependent"
    BY KindsDiffer
  <2>2. asked \subseteq Paths
    BY DEF DepsTypeOK, Paths
  <2> QED
    BY <1>1, <2>1, <2>2, SameReach DEF AskedAreExact, DependsOn
<1>6. SearchIsSound'
  BY <1>3 DEF SearchIsSound
<1>7. (pass' = "done" => path' = <<>> /\ starts' = {}) => PassesApart'
  BY <1>3, <1>4 DEF PassesApart
<1> QED
  BY <1>1, <1>2, <1>5, <1>6, <1>7

LEMMA StartFromKeeps ==
  ASSUME DepsInv, NEW p \in Packages, StartFrom(p)
  PROVE  DepsInv'
<1> USE DEF DepsInv
<1>1. /\ pass = "imported" /\ path = <<>> /\ p \in starts /\ p \in Direct
      /\ path' = <<p>> /\ starts' = starts \ {p}
      /\ UNCHANGED <<imports, mocks, disabled, rooted, pass, kind, asked, probe, visited, todo, level>>
  BY DEF StartFrom, inputs
<1>2. /\ path' \in Seq(Packages) /\ Len(path') = 1 /\ DOMAIN path' = {1} /\ path'[1] = p
  BY <1>1
<1>3. DepsTypeOK'
  BY <1>1, <1>2 DEF DepsTypeOK
<1>4. /\ Direct' = Direct
      /\ \A x \in Packages : Listable(x)' \subseteq Listable(x)
      /\ PassesApart' /\ AskedAreExact' /\ SearchIsSound'
  BY <1>1, <1>3, ListedStay
<1>5. (starts \subseteq Direct)'
  BY <1>1, <1>4
<1>6. PathIsListed'
  BY <1>1, <1>2, <1>4, MaxImportDepthAssumption DEF PathIsListed
<1>7. ImportedAreNear'
  BY <1>1, <1>4 DEF ImportedAreNear
<1>8. LeftToList'
  <2>1. SUFFICES ASSUME NEW x \in Packages,
                        x \in Direct' \/ (kind'[x] = "imported" /\ level'[x] < MaxImportDepth)
                 PROVE  \/ Listable(x)' = {}
                        \/ \E k \in DOMAIN path' : path'[k] = x
                        \/ x \in Direct' /\ x \in starts'
    BY DEF LeftToList
  <2>2. \/ Listable(x) = {}
        \/ \E k \in DOMAIN path : path[k] = x
        \/ x \in Direct /\ x \in starts
    BY <1>1, <1>4, <2>1 DEF LeftToList
  <2>3. ~ \E k \in DOMAIN path : path[k] = x
    BY <1>1
  <2>4. CASE Listable(x) = {}
    BY <1>4, <2>4
  <2>5. CASE x \in Direct /\ x \in starts
    BY <1>1, <1>2, <1>4, <2>5
  <2> QED
    BY <2>2, <2>3, <2>4, <2>5
<1> QED
  BY <1>3, <1>4, <1>5, <1>6, <1>7, <1>8

LEMMA ListImportKeeps ==
  ASSUME DepsInv, NEW i \in Paths, ListImport(i)
  PROVE  DepsInv'
<1> USE DEF DepsInv
<1>0. PICK n : n = Len(path)
  OBVIOUS
<1>1. /\ path # <<>> /\ pass = "imported"
      /\ i \in imports[Innermost] /\ kind[i] = NoFramework /\ isProjectRelatedPackage(i)
      /\ path' = IF GoesInto(i) THEN Append(path, i) ELSE path
      /\ UNCHANGED <<imports, mocks, disabled, rooted, pass, asked, probe, visited, todo, starts>>
  BY DEF ListImport, inputs, PassesApart, Listable
<1>2. /\ n \in 1..MaxImportDepth /\ n \in DOMAIN path /\ Innermost \in Packages
      /\ Innermost = path[n] /\ DOMAIN path = 1..n /\ path \in Seq(Packages) /\ n \in Nat
  BY <1>0, <1>1, TypesOfDeps, MaxImportDepthAssumption DEF PathIsListed, Innermost
<1>3. /\ kind' \in [Paths -> Kinds] /\ level' \in [Paths -> Nat]
      /\ kind'[i] = "imported" /\ level'[i] = n
      /\ \A x \in Paths : x # i => kind'[x] = kind[x] /\ level'[x] = level[x]
  BY <1>0, <1>2 DEF ListImport, DepsTypeOK, Kinds
<1>4. /\ path' \in Seq(Packages)
      /\ DOMAIN path' = 1..Len(path') /\ Len(path') \in Nat
      /\ \A k \in 1..n : path'[k] = path[k]
      /\ GoesInto(i) => Len(path') = n + 1 /\ path'[n + 1] = i
      /\ ~GoesInto(i) => Len(path') = n
      /\ Len(path') \in {n, n + 1}
  <2>1. CASE GoesInto(i)
    <3>1. i \in Packages /\ path' = Append(path, i)
      BY <1>1, <2>1 DEF GoesInto
    <3> QED
      BY <1>0, <1>2, <2>1, <3>1, AppendProperties, LenProperties
  <2>2. CASE ~GoesInto(i)
    BY <1>0, <1>1, <1>2, <2>2
  <2> QED
    BY <2>1, <2>2
<1>5. DepsTypeOK'
  BY <1>1, <1>3, <1>4 DEF DepsTypeOK
<1>6. /\ Direct' = Direct
      /\ \A x \in Packages : Listable(x)' \subseteq Listable(x)
      /\ PassesApart' /\ AskedAreExact' /\ SearchIsSound'
  BY <1>1, <1>3, <1>5, ListedStay
<1>7. (starts \subseteq Direct)'
  BY <1>1, <1>6
<1>8. i \notin Direct /\ \A k \in 1..n : path[k] # i
  BY <1>1, <1>2, KindsDiffer DEF PathIsListed, Direct
<1>9. PathIsListed'
  <2>1. Len(path') <= MaxImportDepth
    <3>1. GoesInto(i) => n < MaxImportDepth
      BY <1>0 DEF GoesInto
    <3>2. n \in Nat /\ n <= MaxImportDepth /\ MaxImportDepth \in Nat
      BY <1>2, MaxImportDepthAssumption
    <3>3. CASE GoesInto(i)
      <4>1. Len(path') = n + 1
        BY <1>4, <3>3
      <4> QED
        BY <3>1, <3>2, <3>3, <4>1
    <3>4. CASE ~GoesInto(i)
      <4>1. Len(path') = n
        BY <1>4, <3>4
      <4> QED
        BY <3>2, <4>1
    <3> QED
      BY <3>3, <3>4
  <2>2. ASSUME NEW k \in DOMAIN path'
        PROVE  IF k = 1 THEN path'[k] \in Direct'
               ELSE kind'[path'[k]] = "imported" /\ level'[path'[k]] = k - 1
    <3>1. CASE k \in 1..n
      <4>1. path'[k] = path[k] /\ path[k] # i /\ path[k] \in Paths
        BY <1>4, <1>8, <3>1, TypesOfDeps
      <4>2. IF k = 1 THEN path[k] \in Direct
            ELSE kind[path[k]] = "imported" /\ level[path[k]] = k - 1
        BY <1>2, <3>1 DEF PathIsListed
      <4> QED
        BY <1>3, <1>6, <4>1, <4>2
    <3>2. CASE k = n + 1
      <4>1. GoesInto(i)
        BY <1>2, <1>4, <2>2, <3>2
      <4> QED
        BY <1>2, <1>3, <1>4, <3>2, <4>1
    <3>3. k \in 1..n \/ k = n + 1
      <4>1. k \in 1..Len(path')
        BY <1>4, <2>2
      <4>2. Len(path') = n \/ Len(path') = n + 1
        BY <1>4
      <4> QED
        BY <1>2, <4>1, <4>2
    <3> QED
      BY <3>1, <3>2, <3>3
  <2> QED
    BY <2>1, <2>2 DEF PathIsListed
<1>10. ImportedAreNear'
  <2>1. ASSUME NEW x \in Paths, kind'[x] = "imported"
        PROVE  /\ level'[x] \in 1..MaxImportDepth
               /\ \E p \in Packages :
                    /\ x \in imports'[p]
                    /\ IF level'[x] = 1 THEN p \in Direct'
                       ELSE kind'[p] = "imported" /\ level'[p] = level'[x] - 1
    <3>1. CASE x = i
      <4>1. IF n = 1 THEN Innermost \in Direct
            ELSE kind[Innermost] = "imported" /\ level[Innermost] = n - 1
        BY <1>2 DEF PathIsListed
      <4>2. Innermost # i /\ Innermost \in Paths
        BY <1>2, <1>8, TypesOfDeps
      <4>3. IF n = 1 THEN Innermost \in Direct'
            ELSE kind'[Innermost] = "imported" /\ level'[Innermost] = n - 1
        BY <1>3, <1>6, <4>1, <4>2
      <4> QED
        BY <1>1, <1>2, <1>3, <3>1, <4>3
    <3>2. CASE x # i
      <4>1. kind[x] = "imported" /\ level'[x] = level[x]
        BY <1>3, <2>1, <3>2
      <4>2. PICK p \in Packages : /\ x \in imports[p]
                                  /\ IF level[x] = 1 THEN p \in Direct
                                     ELSE kind[p] = "imported" /\ level[p] = level[x] - 1
        BY <4>1 DEF ImportedAreNear
      <4>3. level[x] \in 1..MaxImportDepth
        BY <4>1 DEF ImportedAreNear
      <4>4. level[x] # 1 => kind'[p] = "imported" /\ level'[p] = level[x] - 1
        BY <1>1, <1>3, <4>2, TypesOfDeps, KindsDiffer
      <4> QED
        BY <1>1, <1>6, <4>1, <4>2, <4>3, <4>4
    <3> QED
      BY <3>1, <3>2
  <2> QED
    BY <2>1 DEF ImportedAreNear
<1>11. LeftToList'
  <2>1. SUFFICES ASSUME NEW x \in Packages,
                        x \in Direct' \/ (kind'[x] = "imported" /\ level'[x] < MaxImportDepth)
                 PROVE  \/ Listable(x)' = {}
                        \/ \E k \in DOMAIN path' : path'[k] = x
                        \/ x \in Direct' /\ x \in starts'
    BY DEF LeftToList
  <2>2. CASE x = i
    <3>1. GoesInto(i)
      BY <1>0, <1>3, <1>6, <1>8, <2>1, <2>2 DEF GoesInto
    <3> QED
      BY <1>2, <1>4, <2>2, <3>1
  <2>3. CASE x # i
    <3>1. x \in Direct \/ (kind[x] = "imported" /\ level[x] < MaxImportDepth)
      BY <1>3, <1>6, <2>1, <2>3, TypesOfDeps
    <3>2. \/ Listable(x) = {}
          \/ \E k \in DOMAIN path : path[k] = x
          \/ x \in Direct /\ x \in starts
      BY <1>1, <3>1 DEF LeftToList
    <3>3. \A k \in DOMAIN path : k \in DOMAIN path' /\ path'[k] = path[k]
      <4>1. Len(path') = n \/ Len(path') = n + 1
        BY <1>4
      <4>2. n <= Len(path')
        BY <1>2, <4>1
      <4>3. 1..n \subseteq 1..Len(path')
        BY <1>2, <1>4, <4>2, WiderRange
      <4> QED
        BY <1>2, <1>4, <4>3
    <3> QED
      BY <1>1, <1>6, <3>2, <3>3
  <2> QED
    BY <2>2, <2>3
<1> QED
  BY <1>5, <1>6, <1>7, <1>9, <1>10, <1>11

LEMMA LeavePackageKeeps == DepsInv /\ LeavePackage => DepsInv'
<1> SUFFICES ASSUME DepsInv, LeavePackage PROVE DepsInv'
  OBVIOUS
<1> USE DEF DepsInv
<1> DEFINE n == Len(path)
<1>1. /\ path # <<>> /\ pass = "imported" /\ Listable(Innermost) = {}
      /\ path' = SubSeq(path, 1, n - 1)
      /\ UNCHANGED <<imports, mocks, disabled, rooted, pass, kind, asked, probe, visited, todo, starts, level>>
  BY DEF LeavePackage, inputs, PassesApart
<1>2. n \in Nat \ {0} /\ DOMAIN path = 1..n /\ path \in Seq(Packages) /\ Innermost = path[n]
  BY <1>1, TypesOfDeps DEF Innermost
<1>3. /\ path' \in Seq(Packages) /\ Len(path') = n - 1 /\ DOMAIN path' = 1..(n - 1)
      /\ \A k \in 1..(n - 1) : path'[k] = path[k]
  BY <1>1, <1>2
<1>4. DepsTypeOK'
  BY <1>1, <1>3 DEF DepsTypeOK
<1>5. /\ Direct' = Direct
      /\ \A x \in Packages : Listable(x)' \subseteq Listable(x)
      /\ PassesApart' /\ AskedAreExact' /\ SearchIsSound'
  BY <1>1, <1>4, ListedStay
<1>6. (starts \subseteq Direct)'
  BY <1>1, <1>5
<1>7. PathIsListed'
  BY <1>1, <1>2, <1>3, <1>5, MaxImportDepthAssumption DEF PathIsListed
<1>8. ImportedAreNear'
  BY <1>1, <1>5 DEF ImportedAreNear
<1>9. LeftToList'
  <2>1. SUFFICES ASSUME NEW x \in Packages,
                        x \in Direct' \/ (kind'[x] = "imported" /\ level'[x] < MaxImportDepth)
                 PROVE  \/ Listable(x)' = {}
                        \/ \E k \in DOMAIN path' : path'[k] = x
                        \/ x \in Direct' /\ x \in starts'
    BY DEF LeftToList
  <2>2. \/ Listable(x) = {}
        \/ \E k \in DOMAIN path : path[k] = x
        \/ x \in Direct /\ x \in starts
    BY <1>1, <1>5, <2>1 DEF LeftToList
  <2>3. CASE Listable(x) = {}
    BY <1>5, <2>3
  <2>4. CASE \E k \in DOMAIN path : path[k] = x
    <3>1. PICK k \in 1..n : path[k] = x
      BY <1>2, <2>4
    <3>2. CASE k = n
      BY <1>1, <1>2, <1>5, <3>1, <3>2
    <3>3. CASE k \in 1..(n - 1)
      BY <1>3, <3>1, <3>3
    <3>4. k = n \/ k \in 1..(n - 1)
      BY <1>2, LastOrBefore
    <3> QED
      BY <3>2, <3>3, <3>4
  <2>5. CASE x \in Direct /\ x \in starts
    BY <1>1, <1>5, <2>5
  <2> QED
    BY <2>2, <2>3, <2>4, <2>5
<1> QED
  BY <1>4, <1>5, <1>6, <1>7, <1>8, <1>9

LEMMA FinishKeeps == DepsInv /\ Finish => DepsInv'
<1> SUFFICES ASSUME DepsInv, Finish PROVE DepsInv'
  OBVIOUS
<1> USE DEF DepsInv
<1>1. /\ pass = "imported" /\ starts = {} /\ path = <<>> /\ pass' = "done"
      /\ UNCHANGED <<imports, mocks, disabled, rooted, kind, asked, probe, visited, todo, starts, path, level>>
  BY DEF Finish, inputs
<1>2. DepsTypeOK'
  BY <1>1 DEF DepsTypeOK
<1>3. /\ Direct' = Direct
      /\ \A x \in Packages : Listable(x)' \subseteq Listable(x)
      /\ PassesApart' /\ AskedAreExact' /\ SearchIsSound'
  BY <1>1, <1>2, ListedStay
<1>4. (starts \subseteq Direct)' /\ PathIsListed' /\ ImportedAreNear'
  BY <1>1, <1>3 DEF PathIsListed, ImportedAreNear
<1>5. LeftToList'
  BY <1>1, <1>3 DEF LeftToList
<1> QED
  BY <1>2, <1>3, <1>4, <1>5

LEMMA DepsKept == DepsInv /\ UNCHANGED depsVars => DepsInv'
<1> SUFFICES ASSUME DepsInv, UNCHANGED depsVars PROVE DepsInv'
  OBVIOUS
<1>1. UNCHANGED <<imports, mocks, disabled, rooted, pass, kind, asked, probe, visited, todo,
                  starts, path, level>>
  BY DEF depsVars
<1>2. DepsTypeOK' /\ Direct' = Direct /\ ToAsk' = ToAsk
  BY <1>1 DEF DepsInv, DepsTypeOK, Direct, ToAsk
<1>3. \A p : Listable(p)' = Listable(p)
  BY <1>1 DEF Listable, isProjectRelatedPackage
<1>4. PassesApart' /\ AskedAreExact' /\ SearchIsSound'
  BY <1>1, <1>2, SameReach DEF DepsInv, PassesApart, AskedAreExact, SearchIsSound, DependsOn
<1>5. (starts \subseteq Direct)' /\ PathIsListed' /\ ImportedAreNear'
  BY <1>1, <1>2 DEF DepsInv, PathIsListed, ImportedAreNear
<1>6. LeftToList'
  BY <1>1, <1>2, <1>3 DEF DepsInv, LeftToList
<1> QED
  BY <1>2, <1>4, <1>5, <1>6 DEF DepsInv

LEMMA DepsHold == DepsSpec => []DepsInv
<1>1. DepsInv /\ [DepsNext]_depsVars => DepsInv'
  <2>1. SUFFICES ASSUME DepsInv, DepsNext \/ UNCHANGED depsVars PROVE DepsInv'
    BY Zenon
  <2> QED
    BY <2>1, FindDirectKeeps, AskAboutKeeps, VisitKeeps, NothingFoundKeeps, StartImportedKeeps,
       StartFromKeeps, ListImportKeeps, LeavePackageKeeps, FinishKeeps, DepsKept, Zenon
       DEF DepsNext
<1> QED
  BY <1>1, DepsStart, PTL DEF DepsSpec

(* For any import graph, any mocks, disabled types and depth limit, and    *)
(* whatever order the searches are made in: the dependents on the list are *)
(* exactly the packages from which a direct one is reached; what is listed *)
(* as imported has a chain from a direct package no longer than the limit; *)
(* and what a direct package, or an imported one listed below the limit,   *)
(* imports is listed.  An import may be missing, but only behind packages  *)
(* that were listed at the limit, or behind dependents (see                *)
(* AllNearAreListed; findAllFrameworkPackages,                             *)
(* dependency_analyzer.go:275-355).                                        *)
THEOREM FrameworkListRight == DepsSpec => []ListIsRight
<1>1. DepsInv => ListIsRight
  <2>1. SUFFICES ASSUME DepsInv PROVE ListIsRight
    OBVIOUS
  <2>2. DependentsAreExact
    <3>1. SUFFICES ASSUME pass \in {"imported", "done"}, NEW p \in Packages \ mocks, p \notin Direct
                   PROVE  kind[p] = "dependent" <=> DependsOn(p)
      BY DEF DependentsAreExact, DependsOn
    <3>2. ToAsk = {}
      BY <2>1, <3>1 DEF DepsInv, PassesApart
    <3>3. p \in asked
      BY <3>1, <3>2 DEF ToAsk
    <3> QED
      BY <2>1, <3>3 DEF DepsInv, AskedAreExact
  <2>3. CutOnlyAtTheLimit
    BY <2>1 DEF CutOnlyAtTheLimit, DepsInv, LeftToList, PassesApart
  <2> QED
    BY <2>1, <2>2, <2>3 DEF ListIsRight, DepsInv
<1> QED
  BY <1>1, DepsHold, PTL

-----------------------------------------------------------------------------
(* The pass over the generic calls.                                        *)

(* An edge is the call it was made for, whatever types it has been given,  *)
(* and the first ones are the calls as they were found.                    *)
EdgesAreCalls ==
  /\ Len(calls) <= Len(callGraph)
  /\ \A i \in DOMAIN calls : callGraph[i] = NewEdge(i)
  /\ \A e \in DOMAIN callGraph : /\ callGraph[e].caller = calls[callGraph[e].of].caller
                                 /\ callGraph[e].callee = calls[callGraph[e].of].callee

(* The function that is being visited at frame k. *)
VisitedAt(k) == callGraph[stack[k].edge].callee

(* What the walk goes through at a frame are calls of the function that    *)
(* its edge calls, all of those that were found among them; and a frame    *)
(* was entered by the child that the one below it is at.                   *)
FramesAreCalls ==
  \A k \in DOMAIN stack :
    /\ stack[k].done <= Len(stack[k].kids)
    /\ \A j \in DOMAIN stack[k].kids : callGraph[stack[k].kids[j]].caller = VisitedAt(k)
    /\ \A i \in Places(VisitedAt(k)) :
         \E j \in DOMAIN stack[k].kids : stack[k].kids[j] = i
    /\ k > 1 => /\ stack[k].done >= 1
                /\ stack[k].kids[stack[k].done] = stack[k - 1].edge

(* The instance of c that p's type arguments give it is there. *)
CoveredBy(p, c) ==
  \E e \in DOMAIN callGraph :
    /\ callGraph[e].of = c
    /\ DOMAIN calls[p].types \union DOMAIN calls[c].types \subseteq DOMAIN callGraph[e].types
    /\ \A k \in DOMAIN calls[p].types : callGraph[e].types[k] = calls[p].types[k]
    /\ \A k \in DOMAIN calls[c].types \ DOMAIN calls[p].types :
         callGraph[e].types[k] = calls[c].types[k]

Needs(p, c) == calls[c].callee # calls[p].callee /\ Missing(calls[p], calls[c])

CoversItsCalls(p) ==
  \A c \in DOMAIN calls : Calls(p, c) /\ Needs(p, c) => CoveredBy(p, c)

Lengths == Nat \ {0}

(* n calls, each of them made by the function before, to n functions. *)
Linked(n, s) ==
  /\ s \in [1..n -> DOMAIN calls]
  /\ \A k \in 2..n : Calls(s[k - 1], s[k])
  /\ \A k, m \in 1..n : calls[s[k]].callee = calls[s[m]].callee => k = m

(* None of them is to a function that is being visited at frame k or below. *)
Clear(n, s, k) ==
  \A m \in 1..n : \A j \in k..Len(stack) : calls[s[m]].callee # VisitedAt(j)

(* What is covered once the walk has left the call i at frame k: the last  *)
(* call of every chain that begins there and stays clear of that frame.    *)
Explored(i, k) ==
  \A n \in Lengths : \A s \in [1..n -> DOMAIN calls] :
    Linked(n, s) /\ Clear(n, s, k) /\ s[1] = i => CoversItsCalls(s[n])

(* The children that frame k is done with, and not only come to. *)
IsLeft(k, j) == j \in 1..stack[k].done /\ (k > 1 => j < stack[k].done)

LeftAreExplored ==
  \A k \in DOMAIN stack : \A j \in DOMAIN stack[k].kids :
    IsLeft(k, j) /\ stack[k].kids[j] \in DOMAIN calls => Explored(stack[k].kids[j], k)

TakenAreCovered ==
  \A k \in DOMAIN stack : \A j \in DOMAIN stack[k].kids :
    LET p == stack[k].edge
        c == stack[k].kids[j]
    IN  j <= stack[k].done /\ p \in DOMAIN calls /\ c \in DOMAIN calls /\ Needs(p, c)
          => CoveredBy(p, c)

RootsAreExplored ==
  \A i \in DOMAIN calls : IsRoot(i) =>
    \/ \E k \in DOMAIN roots : roots[k] = i
    \/ stack # <<>> /\ stack[Len(stack)].edge = i
    \/ Explored(i, Len(stack) + 1)

PassInv ==
  /\ TypeOK
  /\ EdgesAreCalls
  /\ FramesAreCalls
  /\ CallersAgree
  /\ TypesComeFromCallers
  /\ LeftAreExplored
  /\ TakenAreCovered
  /\ RootsAreExplored

-----------------------------------------------------------------------------
(* Sets in the order of the graph, and sequences.                          *)

(* InOrder lists each member of a finite set of places once, the smaller   *)
(* ones first.                                                             *)
LEMMA InOrderFacts ==
  ASSUME NEW S, S \subseteq Nat, IsFiniteSet(S)
  PROVE  /\ InOrder(S) \in Seq(S)
         /\ \A i \in S : \E k \in DOMAIN InOrder(S) : InOrder(S)[k] = i
         /\ \A k \in DOMAIN InOrder(S) : \A m \in 1..(k - 1) : InOrder(S)[m] < InOrder(S)[k]
<1> DEFINE upTo(i) == {j \in S : j <= i}
           rank(i) == Cardinality(upTo(i))
           n == Cardinality(S)
<1>1. n \in Nat
  BY FS_CardinalityType
<1>2. \A i \in S : rank(i) \in 1..n /\ IsFiniteSet(upTo(i))
  <2>1. SUFFICES ASSUME NEW i \in S PROVE rank(i) \in 1..n /\ IsFiniteSet(upTo(i))
    OBVIOUS
  <2>2. IsFiniteSet(upTo(i)) /\ rank(i) <= n /\ rank(i) \in Nat
    <3>1. upTo(i) \in SUBSET S
      OBVIOUS
    <3> HIDE DEF upTo
    <3> QED
      BY <3>1, FS_Subset, FS_CardinalityType
  <2>3. upTo(i) # {}
    OBVIOUS
  <2>4. rank(i) # 0
    <3> HIDE DEF upTo
    <3> QED
      BY <2>2, <2>3, FS_EmptySet
  <2> QED
    BY <1>1, <2>2, <2>4
<1>3. \A i, j \in S : i < j => rank(i) < rank(j)
  <2>1. SUFFICES ASSUME NEW i \in S, NEW j \in S, i < j PROVE rank(i) < rank(j)
    OBVIOUS
  <2>2. upTo(i) \in SUBSET upTo(j) /\ upTo(i) # upTo(j)
    <3>1. \A k \in S : k <= i => k <= j
      BY <2>1
    <3>2. j \in upTo(j) /\ j \notin upTo(i)
      BY <2>1
    <3> QED
      BY <3>1, <3>2
  <2>3. IsFiniteSet(upTo(j)) /\ rank(i) \in Nat /\ rank(j) \in Nat
    BY <1>1, <1>2
  <2> HIDE DEF upTo
  <2>4. rank(i) <= rank(j) /\ rank(i) # rank(j)
    BY <2>2, <2>3, FS_Subset
  <2> QED
    BY <2>3, <2>4
<1>4. \A k \in 1..n : \E i \in S : rank(i) = k
  <2>1. SUFFICES ASSUME NEW k \in 1..n, \A i \in S : rank(i) # k PROVE FALSE
    OBVIOUS
  <2> DEFINE T == (1..n) \ {k}
             f == [i \in S |-> rank(i)]
  <2>2. IsFiniteSet(1..n) /\ Cardinality(1..n) = n
    BY <1>1, FS_Interval
  <2>3. IsFiniteSet(T) /\ Cardinality(T) = n - 1
    BY <2>2, FS_RemoveElement
  <2>4. f \in [S -> T]
    BY <1>2, <2>1
  <2>5. \A x, y \in S : x # y => f[x] # f[y]
    <3>1. SUFFICES ASSUME NEW x \in S, NEW y \in S, x # y PROVE rank(x) # rank(y)
      OBVIOUS
    <3>2. x < y \/ y < x
      BY <3>1
    <3>3. rank(x) \in Nat /\ rank(y) \in Nat
      BY <1>1, <1>2
    <3> HIDE DEF rank
    <3> QED
      BY <1>3, <3>2, <3>3
  <2>6. Cardinality(T) < Cardinality(S)
    BY <1>1, <2>3
  <2> HIDE DEF T, f
  <2> QED
    BY <2>3, <2>4, <2>5, <2>6, FS_PigeonHole
<1>5. InOrder(S) = [k \in 1..n |-> CHOOSE i \in S : rank(i) = k]
  BY DEF InOrder
<1> HIDE DEF rank
<1>6. \A k \in 1..n : InOrder(S)[k] \in S /\ rank(InOrder(S)[k]) = k
  BY <1>4, <1>5
<1>7. DOMAIN InOrder(S) = 1..n
  BY <1>5
<1>8. InOrder(S) \in Seq(S)
  <2>1. InOrder(S) \in [1..n -> S]
    BY <1>5, <1>6
  <2> HIDE DEF n
  <2> QED
    BY <1>1, <2>1
<1>9. \A i \in S : \E k \in DOMAIN InOrder(S) : InOrder(S)[k] = i
  <2>1. SUFFICES ASSUME NEW i \in S
                 PROVE  rank(i) \in 1..n /\ InOrder(S)[rank(i)] = i
    BY <1>7
  <2>2. rank(i) \in 1..n
    BY <1>2
  <2>3. PICK j \in S : j = InOrder(S)[rank(i)] /\ rank(j) = rank(i)
    BY <1>6, <2>2
  <2>4. ~(i < j) /\ ~(j < i)
    BY <1>3, <2>2, <2>3
  <2> QED
    BY <2>2, <2>3, <2>4
<1>10. \A k \in DOMAIN InOrder(S) : \A m \in 1..(k - 1) : InOrder(S)[m] < InOrder(S)[k]
  <2>1. SUFFICES ASSUME NEW k \in 1..n, NEW m \in 1..(k - 1)
                 PROVE  InOrder(S)[m] < InOrder(S)[k]
    BY <1>7
  <2>2. m \in 1..n /\ m < k
    BY <1>1
  <2>3. PICK i \in S : i = InOrder(S)[k] /\ rank(i) = k
    BY <1>6
  <2>4. PICK j \in S : j = InOrder(S)[m] /\ rank(j) = m
    BY <1>6, <2>2
  <2>5. i # j /\ ~(i < j)
    BY <1>3, <2>2, <2>3, <2>4
  <2> QED
    BY <2>3, <2>4, <2>5
<1> QED
  BY <1>8, <1>9, <1>10

LEMMA PutInFront ==
  ASSUME NEW S, NEW s \in Seq(S), NEW x \in S
  PROVE  /\ <<x>> \o s \in Seq(S)
         /\ <<x>> \o s # <<>>
         /\ Len(s) \in Nat /\ DOMAIN s = 1..Len(s)
         /\ Len(<<x>> \o s) = Len(s) + 1
         /\ DOMAIN (<<x>> \o s) = 1..(Len(s) + 1)
         /\ (<<x>> \o s)[1] = x
         /\ \A k \in 1..Len(s) : (<<x>> \o s)[k + 1] = s[k]
<1>1. <<x>> \in Seq(S) /\ Len(<<x>>) = 1 /\ <<x>>[1] = x
  OBVIOUS
<1>2. Len(s) \in Nat /\ DOMAIN s = 1..Len(s)
  BY LenProperties
<1>3. /\ <<x>> \o s \in Seq(S)
      /\ Len(<<x>> \o s) = 1 + Len(s)
      /\ \A i \in 1..(1 + Len(s)) : (<<x>> \o s)[i] = IF i <= 1 THEN <<x>>[i] ELSE s[i - 1]
  BY <1>1, ConcatProperties
<1>4. DOMAIN (<<x>> \o s) = 1..(Len(s) + 1) /\ <<x>> \o s # <<>>
  BY <1>2, <1>3, LenProperties, EmptySeq
<1>5. (<<x>> \o s)[1] = x /\ \A k \in 1..Len(s) : (<<x>> \o s)[k + 1] = s[k]
  BY <1>1, <1>2, <1>3
<1> QED
  BY <1>2, <1>3, <1>4, <1>5

LEMMA TakeOff ==
  ASSUME NEW S, NEW s \in Seq(S), s # <<>>
  PROVE  /\ Head(s) = s[1] /\ s[1] \in S
         /\ Tail(s) \in Seq(S)
         /\ Len(s) \in Nat \ {0} /\ DOMAIN s = 1..Len(s)
         /\ Len(Tail(s)) = Len(s) - 1 /\ DOMAIN Tail(s) = 1..(Len(s) - 1)
         /\ \A k \in 1..(Len(s) - 1) : Tail(s)[k] = s[k + 1]
<1>1. Len(s) \in Nat \ {0} /\ DOMAIN s = 1..Len(s)
  BY LenProperties, EmptySeq
<1>2. /\ Head(s) \in S /\ Tail(s) \in Seq(S) /\ Len(Tail(s)) = Len(s) - 1
      /\ \A i \in 1..Len(Tail(s)) : Tail(s)[i] = s[i + 1]
  BY HeadTailProperties
<1>3. Head(s) = s[1]
  OBVIOUS
<1> QED
  BY <1>1, <1>2, <1>3, LenProperties, ElementOfSeq

LEMMA NotEmptyLen ==
  ASSUME NEW S, NEW s \in Seq(S)
  PROVE  s # <<>> <=> Len(s) >= 1
  BY LenProperties, EmptySeq

-----------------------------------------------------------------------------
(* The call graph and Callers.                                             *)

Edges == [caller : Fns, callee : Fns, types : TypeArgs, shown : TypeArgs, of : DOMAIN calls]

Frames == [edge : DOMAIN callGraph, kids : Seq(DOMAIN callGraph), done : Nat]

LEMMA PassTypes ==
  ASSUME TypeOK
  PROVE  /\ calls \in Seq(Call) /\ Len(calls) \in Nat /\ DOMAIN calls = 1..Len(calls)
         /\ \A i \in DOMAIN calls : calls[i] \in Call
         /\ callGraph \in Seq(Edges) /\ Len(callGraph) \in Nat
         /\ DOMAIN callGraph = 1..Len(callGraph)
         /\ \A e \in DOMAIN callGraph : callGraph[e] \in Edges
         /\ \A f \in Fns : /\ callers[f] \in Seq(DOMAIN callGraph) /\ Len(callers[f]) \in Nat
                           /\ DOMAIN callers[f] = 1..Len(callers[f])
                           /\ \A k \in DOMAIN callers[f] : callers[f][k] \in DOMAIN callGraph
         /\ stack \in Seq(Frames) /\ Len(stack) \in Nat /\ DOMAIN stack = 1..Len(stack)
         /\ \A k \in DOMAIN stack :
              /\ stack[k] \in Frames
              /\ Len(stack[k].kids) \in Nat /\ DOMAIN stack[k].kids = 1..Len(stack[k].kids)
              /\ \A j \in DOMAIN stack[k].kids : stack[k].kids[j] \in DOMAIN callGraph
<1>1. /\ calls \in Seq(Call) /\ callGraph \in Seq(Edges) /\ stack \in Seq(Frames)
      /\ callers \in [Fns -> Seq(DOMAIN callGraph)]
  BY DEF TypeOK, Edges, Frames
<1>2. /\ Len(calls) \in Nat /\ DOMAIN calls = 1..Len(calls)
      /\ \A i \in DOMAIN calls : calls[i] \in Call
  BY <1>1, LenProperties, ElementOfSeq
<1>3. /\ Len(callGraph) \in Nat /\ DOMAIN callGraph = 1..Len(callGraph)
      /\ \A e \in DOMAIN callGraph : callGraph[e] \in Edges
  BY <1>1, LenProperties, ElementOfSeq
<1>4. /\ Len(stack) \in Nat /\ DOMAIN stack = 1..Len(stack)
      /\ \A k \in DOMAIN stack : stack[k] \in Frames
  BY <1>1, LenProperties, ElementOfSeq
<1>5. \A f \in Fns : /\ callers[f] \in Seq(DOMAIN callGraph) /\ Len(callers[f]) \in Nat
                     /\ DOMAIN callers[f] = 1..Len(callers[f])
                     /\ \A k \in DOMAIN callers[f] : callers[f][k] \in DOMAIN callGraph
  BY <1>1, LenProperties, ElementOfSeq
<1>6. \A k \in DOMAIN stack :
        /\ Len(stack[k].kids) \in Nat /\ DOMAIN stack[k].kids = 1..Len(stack[k].kids)
        /\ \A j \in DOMAIN stack[k].kids : stack[k].kids[j] \in DOMAIN callGraph
  <2>1. SUFFICES ASSUME NEW k \in DOMAIN stack
                 PROVE  /\ Len(stack[k].kids) \in Nat
                        /\ DOMAIN stack[k].kids = 1..Len(stack[k].kids)
                        /\ \A j \in DOMAIN stack[k].kids : stack[k].kids[j] \in DOMAIN callGraph
    OBVIOUS
  <2>2. stack[k].kids \in Seq(DOMAIN callGraph)
    BY <1>4 DEF Frames
  <2> QED
    BY <2>2, LenProperties, ElementOfSeq
<1> QED
  BY <1>1, <1>2, <1>3, <1>4, <1>5, <1>6

LEMMA TypeArgFacts ==
  ASSUME NEW t
  PROVE  t \in TypeArgs <=> \E S \in SUBSET TypeNames : t \in [S -> Concrete]
  BY DEF TypeArgs

LEMMA Instances ==
  ASSUME TypeOK, NEW d \in DOMAIN callGraph, NEW e \in DOMAIN callGraph, NEW r,
         r = InstanceOf(callGraph[d], callGraph[e])
  PROVE  /\ r \in Edges
         /\ r.caller = callGraph[e].caller /\ r.callee = callGraph[e].callee
         /\ r.of = callGraph[e].of
         /\ DOMAIN r.types = DOMAIN callGraph[d].types \union DOMAIN callGraph[e].types
         /\ \A k \in DOMAIN callGraph[d].types : r.types[k] = callGraph[d].types[k]
         /\ \A k \in DOMAIN callGraph[e].types \ DOMAIN callGraph[d].types :
              r.types[k] = callGraph[e].types[k]
<1>1. callGraph[d] \in Edges /\ callGraph[e] \in Edges
  BY PassTypes
<1> DEFINE p == callGraph[d].types
           c == callGraph[e].types
           t == [k \in DOMAIN p \union DOMAIN c |-> IF k \in DOMAIN p THEN p[k] ELSE c[k]]
<1>2. r = [callGraph[e] EXCEPT !.types = t]
  BY DEF InstanceOf
<1>3. PICK P \in SUBSET TypeNames : p \in [P -> Concrete]
  BY <1>1, TypeArgFacts DEF Edges
<1>4. PICK C \in SUBSET TypeNames : c \in [C -> Concrete]
  BY <1>1, TypeArgFacts DEF Edges
<1>5. t \in [P \union C -> Concrete] /\ P \union C \in SUBSET TypeNames
  BY <1>3, <1>4
<1>6. t \in TypeArgs
  <2> HIDE DEF t
  <2> QED
    BY <1>5, TypeArgFacts
<1>7. /\ DOMAIN t = DOMAIN p \union DOMAIN c
      /\ \A k \in DOMAIN p : t[k] = p[k]
      /\ \A k \in DOMAIN c \ DOMAIN p : t[k] = c[k]
  OBVIOUS
<1> HIDE DEF t
<1> QED
  BY <1>1, <1>2, <1>6, <1>7 DEF Edges

(* Reaching is transitive along a call. *)
LEMMA LeadsToOn ==
  ASSUME TypeOK, NEW f, NEW i \in DOMAIN calls, f = calls[i].caller \/ LeadsTo(f, calls[i].caller)
  PROVE  LeadsTo(f, calls[i].callee)
  BY DEF LeadsTo

LEMMA LeadsToSelf == \A f : LeadsTo(f, f)
  BY DEF LeadsTo

(* An instance gets its types from the call of its caller and from its own. *)
LEMMA InstanceTypes ==
  ASSUME TypeOK, EdgesAreCalls, TypesComeFromCallers,
         NEW d \in DOMAIN callGraph, NEW e \in DOMAIN callGraph, NEW r,
         callGraph[e].caller = callGraph[d].callee,
         r = InstanceOf(callGraph[d], callGraph[e]), NEW k \in DOMAIN r.types
  PROVE  \E i \in DOMAIN calls : /\ Gives(i, k, r.types[k])
                                 /\ i = r.of \/ LeadsTo(calls[i].callee, r.caller)
<1>1. /\ r.caller = callGraph[e].caller /\ r.of = callGraph[e].of
      /\ DOMAIN r.types = DOMAIN callGraph[d].types \union DOMAIN callGraph[e].types
      /\ \A m \in DOMAIN callGraph[d].types : r.types[m] = callGraph[d].types[m]
      /\ \A m \in DOMAIN callGraph[e].types \ DOMAIN callGraph[d].types :
           r.types[m] = callGraph[e].types[m]
  BY Instances
<1>2. CASE k \in DOMAIN callGraph[d].types
  <2>1. PICK i \in DOMAIN calls :
          /\ Gives(i, k, callGraph[d].types[k])
          /\ i = callGraph[d].of \/ LeadsTo(calls[i].callee, callGraph[d].caller)
    BY <1>2 DEF TypesComeFromCallers
  <2>2. /\ callGraph[d].of \in DOMAIN calls
        /\ callGraph[d].caller = calls[callGraph[d].of].caller
        /\ callGraph[d].callee = calls[callGraph[d].of].callee
    BY PassTypes DEF EdgesAreCalls, Edges
  <2>3. LeadsTo(calls[i].callee, callGraph[d].callee)
    <3>1. CASE i = callGraph[d].of
      BY <2>2, <3>1, LeadsToSelf
    <3>2. CASE LeadsTo(calls[i].callee, callGraph[d].caller)
      BY <2>2, <3>2, LeadsToOn
    <3> QED
      BY <2>1, <3>1, <3>2
  <2> QED
    BY <1>1, <1>2, <2>1, <2>3
<1>3. CASE k \in DOMAIN callGraph[e].types \ DOMAIN callGraph[d].types
  <2>1. PICK i \in DOMAIN calls :
          /\ Gives(i, k, callGraph[e].types[k])
          /\ i = callGraph[e].of \/ LeadsTo(calls[i].callee, callGraph[e].caller)
    BY <1>3 DEF TypesComeFromCallers
  <2> QED
    BY <1>1, <1>3, <2>1
<1> QED
  BY <1>1, <1>2, <1>3

(* What no step takes from the call graph. *)
GraphGrows ==
  /\ calls' = calls
  /\ Len(callGraph) \in Nat /\ Len(callGraph') \in Nat /\ Len(callGraph) <= Len(callGraph')
  /\ DOMAIN callGraph = 1..Len(callGraph) /\ DOMAIN callGraph' = 1..Len(callGraph')
  /\ \A e \in DOMAIN callGraph : e \in DOMAIN callGraph' /\ callGraph'[e] = callGraph[e]

GraphRight ==
  /\ callGraph \in Seq(Edges)
  /\ callers \in [Fns -> Seq(DOMAIN callGraph)]
  /\ EdgesAreCalls
  /\ CallersAgree
  /\ TypesComeFromCallers

LEMMA GraphStays ==
  ASSUME TypeOK, EdgesAreCalls, CallersAgree, TypesComeFromCallers,
         UNCHANGED <<calls, callGraph, callers>>
  PROVE  GraphGrows /\ GraphRight'
<1>1. GraphGrows
  BY PassTypes DEF GraphGrows
<1>2. callGraph' \in Seq(Edges)' /\ callers' \in [Fns -> Seq(DOMAIN callGraph)]'
  BY PassTypes DEF TypeOK, Edges
<1>3. EdgesAreCalls' /\ CallersAgree' /\ TypesComeFromCallers'
  BY DEF EdgesAreCalls, CallersAgree, TypesComeFromCallers, NewEdge, Gives, LeadsTo
<1> QED
  BY <1>1, <1>2, <1>3 DEF GraphRight

LEMMA InstantiateKeeps ==
  ASSUME TypeOK, EdgesAreCalls, CallersAgree, TypesComeFromCallers,
         NEW d \in DOMAIN callGraph, NEW e \in DOMAIN callGraph,
         callGraph[e].caller = callGraph[d].callee, UNCHANGED calls,
         Instantiate(callGraph[d], callGraph[e])
  PROVE  /\ GraphGrows /\ GraphRight'
         /\ Len(callGraph) + 1 \in DOMAIN callGraph'
         /\ callGraph'[Len(callGraph) + 1] = InstanceOf(callGraph[d], callGraph[e])
<1>1. PICK r : r = InstanceOf(callGraph[d], callGraph[e])
  OBVIOUS
<1>2. PICK new : new = Len(callGraph) + 1
  OBVIOUS
<1>3. PICK f : f = callGraph[e].caller
  OBVIOUS
<1>4. /\ callGraph \in Seq(Edges) /\ Len(callGraph) \in Nat
      /\ DOMAIN callGraph = 1..Len(callGraph)
      /\ callGraph[e] \in Edges /\ f \in Fns
  BY <1>3, PassTypes DEF Edges
<1>5. /\ r \in Edges /\ r.caller = f /\ r.callee = callGraph[e].callee
      /\ r.of = callGraph[e].of
  BY <1>1, <1>3, Instances
<1>6. /\ callGraph' = Append(callGraph, r)
      /\ callers' = [callers EXCEPT ![f] = Append(callers[f], new)]
  BY <1>1, <1>2, <1>3 DEF Instantiate
<1>7. /\ callGraph' \in Seq(Edges) /\ Len(callGraph') = new
      /\ DOMAIN callGraph' = 1..new
      /\ \A i \in 1..Len(callGraph) : callGraph'[i] = callGraph[i]
      /\ callGraph'[new] = r
  BY <1>2, <1>4, <1>5, <1>6, AppendProperties, LenProperties
<1>8. new \in Nat /\ Len(callGraph) < new /\ \A i \in 1..new : i \in 1..Len(callGraph) \/ i = new
  BY <1>2, <1>4
<1>9. /\ DOMAIN callGraph \subseteq DOMAIN callGraph' /\ new \in DOMAIN callGraph'
      /\ \A i \in DOMAIN callGraph' : i \in DOMAIN callGraph \/ i = new
      /\ \A i \in DOMAIN callGraph : callGraph'[i] = callGraph[i] /\ i < new
  BY <1>4, <1>7, <1>8
<1>10. GraphGrows
  BY <1>4, <1>7, <1>8, <1>9 DEF GraphGrows
<1>11. callGraph' \in Seq(Edges)'
  BY <1>7 DEF Edges
<1>12. /\ callers \in [Fns -> Seq(DOMAIN callGraph)]
       /\ \A g \in Fns : /\ callers[g] \in Seq(DOMAIN callGraph) /\ Len(callers[g]) \in Nat
                         /\ DOMAIN callers[g] = 1..Len(callers[g])
                         /\ \A k \in DOMAIN callers[g] : callers[g][k] \in DOMAIN callGraph
  BY PassTypes DEF TypeOK
<1>13. /\ \A g \in Fns : g # f => callers'[g] = callers[g]
       /\ callers'[f] = Append(callers[f], new)
       /\ callers' = [g \in Fns |-> callers'[g]]
  BY <1>4, <1>6, <1>12
<1>14. /\ callers'[f] \in Seq(DOMAIN callGraph')
       /\ DOMAIN callers'[f] = 1..(Len(callers[f]) + 1)
       /\ \A k \in 1..Len(callers[f]) : callers'[f][k] = callers[f][k]
       /\ callers'[f][Len(callers[f]) + 1] = new
  <2>1. callers[f] \in Seq(DOMAIN callGraph')
    BY <1>4, <1>9, <1>12, SeqMonotonic
  <2> QED
    BY <1>9, <1>13, <2>1, AppendProperties, LenProperties
<1>15. \A g \in Fns : callers'[g] \in Seq(DOMAIN callGraph')
  BY <1>9, <1>12, <1>13, <1>14, SeqMonotonic
<1>16. callers' \in [Fns -> Seq(DOMAIN callGraph)]'
  BY <1>13, <1>15
<1>17. EdgesAreCalls'
  <2>1. Len(calls') <= Len(callGraph')
    BY <1>4, <1>7, <1>8, PassTypes DEF EdgesAreCalls
  <2>2. \A i \in DOMAIN calls' : callGraph'[i] = NewEdge(i)'
    <3>1. DOMAIN calls \subseteq DOMAIN callGraph
      BY <1>4, PassTypes, WiderRange DEF EdgesAreCalls
    <3> QED
      BY <1>9, <3>1 DEF EdgesAreCalls, NewEdge
  <2>3. ASSUME NEW i \in DOMAIN callGraph'
        PROVE  /\ callGraph'[i].caller = calls'[callGraph'[i].of].caller
               /\ callGraph'[i].callee = calls'[callGraph'[i].of].callee
    <3>1. CASE i \in DOMAIN callGraph
      BY <1>9, <3>1 DEF EdgesAreCalls
    <3>2. CASE i = new
      BY <1>3, <1>5, <1>7, <3>2 DEF EdgesAreCalls
    <3> QED
      BY <1>9, <3>1, <3>2
  <2> QED
    BY <2>1, <2>2, <2>3 DEF EdgesAreCalls
<1>18. CallersAgree'
  <2>1. ASSUME NEW g \in Fns, g # f
        PROVE  /\ \A i \in DOMAIN callGraph' :
                    callGraph'[i].caller = g <=> \E k \in DOMAIN callers'[g] : callers'[g][k] = i
               /\ \A k \in DOMAIN callers'[g] : \A m \in 1..(k - 1) : callers'[g][m] < callers'[g][k]
    <3>1. callers'[g] = callers[g]
      BY <1>13, <2>1
    <3>2. \A k \in DOMAIN callers[g] : callers[g][k] \in DOMAIN callGraph
      BY <1>12
    <3>3. new \notin DOMAIN callGraph
      BY <1>4, <1>8
    <3>4. callGraph'[new].caller # g
      BY <1>5, <1>7, <2>1
    <3> QED
      BY <1>9, <3>1, <3>2, <3>3, <3>4 DEF CallersAgree
  <2>2. \A i \in DOMAIN callGraph' :
          callGraph'[i].caller = f <=> \E k \in DOMAIN callers'[f] : callers'[f][k] = i
    <3>1. SUFFICES ASSUME NEW i \in DOMAIN callGraph'
                   PROVE  callGraph'[i].caller = f <=> \E k \in DOMAIN callers'[f] : callers'[f][k] = i
      OBVIOUS
    <3>2. Len(callers[f]) \in Nat /\ DOMAIN callers[f] = 1..Len(callers[f])
      BY <1>4, <1>12
    <3>3. Len(callers[f]) + 1 \in DOMAIN callers'[f] /\ 1..Len(callers[f]) \subseteq DOMAIN callers'[f]
      BY <1>14, <3>2
    <3>4. CASE i = new
      BY <1>5, <1>7, <1>14, <3>3, <3>4
    <3>5. CASE i \in DOMAIN callGraph
      <4>1. i # new /\ callGraph'[i] = callGraph[i]
        BY <1>8, <1>9, <3>5
      <4>2. callGraph[i].caller = f <=> \E k \in DOMAIN callers[f] : callers[f][k] = i
        BY <1>4, <3>5 DEF CallersAgree
      <4>3. \A k \in DOMAIN callers'[f] : k \in 1..Len(callers[f]) \/ k = Len(callers[f]) + 1
        BY <1>14, <3>2
      <4> QED
        BY <1>14, <3>2, <3>3, <4>1, <4>2, <4>3
    <3> QED
      BY <1>9, <3>4, <3>5
  <2>3. \A k \in DOMAIN callers'[f] : \A m \in 1..(k - 1) : callers'[f][m] < callers'[f][k]
    <3>1. SUFFICES ASSUME NEW k \in DOMAIN callers'[f], NEW m \in 1..(k - 1)
                   PROVE  callers'[f][m] < callers'[f][k]
      OBVIOUS
    <3>2. Len(callers[f]) \in Nat /\ DOMAIN callers[f] = 1..Len(callers[f])
      BY <1>4, <1>12
    <3>3. m \in 1..Len(callers[f]) /\ (k \in 1..Len(callers[f]) \/ k = Len(callers[f]) + 1)
      BY <1>14, <3>2
    <3>4. callers'[f][m] = callers[f][m] /\ callers[f][m] \in DOMAIN callGraph
      BY <1>4, <1>12, <1>14, <3>2, <3>3
    <3>5. CASE k \in 1..Len(callers[f])
      BY <1>4, <1>14, <3>2, <3>4, <3>5 DEF CallersAgree
    <3>6. CASE k = Len(callers[f]) + 1
      BY <1>9, <1>14, <3>4, <3>6
    <3> QED
      BY <3>3, <3>5, <3>6
  <2> QED
    BY <2>1, <2>2, <2>3 DEF CallersAgree
<1>19. TypesComeFromCallers'
  <2>1. ASSUME NEW i \in DOMAIN callGraph', NEW k \in DOMAIN callGraph'[i].types
        PROVE  \E j \in DOMAIN calls :
                 /\ Gives(j, k, callGraph'[i].types[k])
                 /\ j = callGraph'[i].of \/ LeadsTo(calls[j].callee, callGraph'[i].caller)
    <3>1. CASE i \in DOMAIN callGraph
      BY <1>9, <2>1, <3>1 DEF TypesComeFromCallers
    <3>2. CASE i = new
      BY <1>1, <1>7, <2>1, <3>2, InstanceTypes
    <3> QED
      BY <1>9, <3>1, <3>2
  <2>2. \A g, h : LeadsTo(g, h)' <=> LeadsTo(g, h)
    BY DEF LeadsTo
  <2> QED
    BY <2>1, <2>2 DEF TypesComeFromCallers, Gives
<1> QED
  BY <1>1, <1>2, <1>7, <1>9, <1>10, <1>11, <1>16, <1>17, <1>18, <1>19 DEF GraphRight

LEMMA PlacesFacts ==
  ASSUME calls \in Seq(Call), NEW S \in SUBSET DOMAIN calls
  PROVE  S \subseteq Nat /\ IsFiniteSet(S)
<1>1. DOMAIN calls = 1..Len(calls) /\ Len(calls) \in Nat
  BY LenProperties
<1>2. IsFiniteSet(1..Len(calls))
  BY <1>1, FS_Interval
<1> QED
  BY <1>1, <1>2, FS_Subset

LEMMA PassStart == Init => PassInv
<1> SUFFICES ASSUME Init PROVE PassInv
  OBVIOUS
<1>1. /\ calls \in Seq(Call) /\ callDepth = [f \in Fns |-> 0] /\ stack = <<>> /\ roots = Roots
      /\ callGraph = [i \in DOMAIN calls |-> NewEdge(i)]
      /\ callers = [f \in Fns |-> CallersOf(f)]
  BY CallSetsAssumption DEF Init
<1>2. /\ Len(calls) \in Nat /\ DOMAIN calls = 1..Len(calls)
      /\ \A i \in DOMAIN calls : calls[i] \in Call
  BY <1>1, LenProperties, ElementOfSeq
<1>3. \A i \in DOMAIN calls : NewEdge(i) \in Edges
  BY <1>2 DEF NewEdge, Call, Edges
<1>4. /\ DOMAIN callGraph = DOMAIN calls /\ \A i \in DOMAIN calls : callGraph[i] = NewEdge(i)
      /\ callGraph \in Seq(Edges) /\ Len(callGraph) = Len(calls)
  <2>1. callGraph \in [1..Len(calls) -> Edges]
    BY <1>1, <1>2, <1>3
  <2>2. callGraph \in Seq(Edges)
    BY <1>2, <2>1
  <2>3. DOMAIN callGraph = 1..Len(calls) /\ DOMAIN callGraph = 1..Len(callGraph)
        /\ Len(callGraph) \in Nat
    BY <2>1, <2>2, LenProperties
  <2>4. Len(callGraph) = Len(calls)
    BY <1>2, <2>3
  <2> QED
    BY <1>1, <1>2, <2>2, <2>3, <2>4
<1>5. \A f \in Fns :
        /\ callers[f] = InOrder(Places(f)) /\ Places(f) \in SUBSET DOMAIN calls
        /\ callers[f] \in Seq(Places(f))
        /\ \A i \in Places(f) : \E k \in DOMAIN callers[f] : callers[f][k] = i
        /\ \A k \in DOMAIN callers[f] : \A m \in 1..(k - 1) : callers[f][m] < callers[f][k]
        /\ \A k \in DOMAIN callers[f] : callers[f][k] \in Places(f)
  <2>1. SUFFICES ASSUME NEW f \in Fns
                 PROVE  /\ callers[f] = InOrder(Places(f)) /\ Places(f) \in SUBSET DOMAIN calls
                        /\ callers[f] \in Seq(Places(f))
                        /\ \A i \in Places(f) : \E k \in DOMAIN callers[f] : callers[f][k] = i
                        /\ \A k \in DOMAIN callers[f] :
                             \A m \in 1..(k - 1) : callers[f][m] < callers[f][k]
                        /\ \A k \in DOMAIN callers[f] : callers[f][k] \in Places(f)
    OBVIOUS
  <2>2. callers[f] = InOrder(Places(f)) /\ Places(f) \in SUBSET DOMAIN calls
    BY <1>1 DEF CallersOf, Places
  <2>3. Places(f) \subseteq Nat /\ IsFiniteSet(Places(f))
    BY <1>1, <2>2, PlacesFacts
  <2>4. /\ callers[f] \in Seq(Places(f))
        /\ \A i \in Places(f) : \E k \in DOMAIN callers[f] : callers[f][k] = i
        /\ \A k \in DOMAIN callers[f] : \A m \in 1..(k - 1) : callers[f][m] < callers[f][k]
    BY <2>2, <2>3, InOrderFacts
  <2> QED
    BY <2>2, <2>4, LenProperties, ElementOfSeq
<1>6. callers \in [Fns -> Seq(DOMAIN callGraph)]
  <2>1. \A f \in Fns : callers[f] \in Seq(DOMAIN callGraph)
    BY <1>4, <1>5, SeqMonotonic
  <2> QED
    BY <1>1, <2>1
<1>7. roots \in Seq(DOMAIN calls) /\ \A i \in DOMAIN calls : IsRoot(i) => \E k \in DOMAIN roots : roots[k] = i
  <2>1. PICK R \in SUBSET DOMAIN calls : R = {i \in DOMAIN calls : IsRoot(i)}
    OBVIOUS
  <2>2. R \subseteq Nat /\ IsFiniteSet(R)
    BY <1>1, PlacesFacts
  <2>3. roots = InOrder(R)
    BY <1>1, <2>1 DEF Roots
  <2>4. roots \in Seq(R) /\ \A i \in R : \E k \in DOMAIN roots : roots[k] = i
    BY <2>2, <2>3, InOrderFacts
  <2> QED
    BY <2>1, <2>4, SeqMonotonic
<1>8. TypeOK
  <2>1. callDepth \in [Fns -> 0..MaxSelfCallingDepth]
    BY <1>1, DepthAssumption
  <2>2. stack \in Seq(Frames) /\ DOMAIN stack = {}
    BY <1>1
  <2> QED
    BY <1>1, <1>4, <1>6, <1>7, <2>1, <2>2 DEF TypeOK, Edges, Frames
<1>9. EdgesAreCalls
  BY <1>2, <1>4 DEF EdgesAreCalls, NewEdge
<1>10. CallersAgree
  <2>1. ASSUME NEW f \in Fns, NEW e \in DOMAIN callGraph
        PROVE  callGraph[e].caller = f <=> \E k \in DOMAIN callers[f] : callers[f][k] = e
    <3>1. callGraph[e].caller = f <=> e \in Places(f)
      BY <1>4 DEF Places, NewEdge
    <3> QED
      BY <1>5, <3>1
  <2>2. \A f \in Fns : \A k \in DOMAIN callers[f] : \A m \in 1..(k - 1) : callers[f][m] < callers[f][k]
    BY <1>5
  <2> QED
    BY <2>1, <2>2 DEF CallersAgree
<1>11. TypesComeFromCallers
  BY <1>4 DEF TypesComeFromCallers, NewEdge, Gives
<1>12. FramesAreCalls /\ LeftAreExplored /\ TakenAreCovered
  <2>1. DOMAIN stack = {}
    BY <1>1
  <2> QED
    BY <2>1 DEF FramesAreCalls, LeftAreExplored, TakenAreCovered
<1>13. RootsAreExplored
  BY <1>7 DEF RootsAreExplored
<1> QED
  BY <1>8, <1>9, <1>10, <1>11, <1>12, <1>13 DEF PassInv

-----------------------------------------------------------------------------
(* The walk.  What has been covered and explored stays so.                 *)

LEMMA CoverStays ==
  ASSUME GraphGrows, NEW p, NEW c, CoveredBy(p, c)
  PROVE  CoveredBy(p, c)'
<1>1. PICK e \in DOMAIN callGraph :
        /\ callGraph[e].of = c
        /\ DOMAIN calls[p].types \union DOMAIN calls[c].types \subseteq DOMAIN callGraph[e].types
        /\ \A k \in DOMAIN calls[p].types : callGraph[e].types[k] = calls[p].types[k]
        /\ \A k \in DOMAIN calls[c].types \ DOMAIN calls[p].types :
             callGraph[e].types[k] = calls[c].types[k]
  BY DEF CoveredBy
<1>2. e \in DOMAIN callGraph' /\ callGraph'[e] = callGraph[e] /\ calls' = calls
  BY DEF GraphGrows
<1> QED
  BY <1>1, <1>2 DEF CoveredBy

LEMMA CallsStay ==
  ASSUME GraphGrows
  PROVE  /\ \A p, c : Calls(p, c)' <=> Calls(p, c)
         /\ \A p, c : Needs(p, c)' <=> Needs(p, c)
         /\ \A n, s : Linked(n, s)' <=> Linked(n, s)
         /\ \A f : Places(f)' = Places(f)
         /\ \A i : IsRoot(i)' <=> IsRoot(i)
  BY DEF GraphGrows, Calls, Needs, Missing, Linked, Places, IsRoot

LEMMA CoversStay ==
  ASSUME GraphGrows, NEW p, CoversItsCalls(p)
  PROVE  CoversItsCalls(p)'
<1>1. calls' = calls
  BY DEF GraphGrows
<1> QED
  BY <1>1, CallsStay, CoverStays DEF CoversItsCalls

LEMMA ExploredStays ==
  ASSUME GraphGrows, NEW i, NEW k, NEW m, Explored(i, k),
         \A j \in k..Len(stack) : \E l \in m..Len(stack') : VisitedAt(l)' = VisitedAt(j)
  PROVE  Explored(i, m)'
<1>1. calls' = calls
  BY DEF GraphGrows
<1>2. SUFFICES ASSUME NEW n \in Lengths, NEW s \in [1..n -> DOMAIN calls],
                      Linked(n, s), Clear(n, s, m)', s[1] = i
               PROVE  CoversItsCalls(s[n])'
  BY <1>1, CallsStay DEF Explored, Lengths
<1>3. Clear(n, s, k)
  BY <1>1, <1>2 DEF Clear
<1>4. CoversItsCalls(s[n])
  BY <1>2, <1>3 DEF Explored
<1> QED
  BY <1>4, CoversStay

(* When the walk leaves a frame, its call is explored. *)
LEMMA LeavingIsExplored ==
  ASSUME PassInv, stack # <<>>, Top.done = Len(Top.kids), Top.edge \in DOMAIN calls
  PROVE  Explored(stack[1].edge, 2)
<1>1. /\ TypeOK /\ EdgesAreCalls /\ FramesAreCalls /\ LeftAreExplored /\ TakenAreCovered
  BY DEF PassInv
<1>2. PICK x : x = stack[1].edge
  OBVIOUS
<1>3. /\ Top = stack[1] /\ 1 \in DOMAIN stack /\ DOMAIN stack = 1..Len(stack)
      /\ Len(stack) \in Nat /\ x \in DOMAIN calls
      /\ DOMAIN stack[1].kids = 1..Len(stack[1].kids)
      /\ stack[1].done = Len(stack[1].kids)
  <2>1. stack \in Seq(Frames) /\ DOMAIN stack = 1..Len(stack)
    BY <1>1, PassTypes
  <2>2. Top = stack[1] /\ Len(stack) \in Nat \ {0}
    BY <2>1, TakeOff DEF Top
  <2> QED
    BY <1>1, <1>2, <2>1, <2>2, PassTypes
<1>4. VisitedAt(1) = calls[x].callee
  <2>1. callGraph[x] = NewEdge(x)
    BY <1>1, <1>3 DEF EdgesAreCalls
  <2> QED
    BY <1>2, <2>1 DEF VisitedAt, NewEdge
<1>5. \A c \in DOMAIN calls : Calls(x, c) =>
        \E j \in DOMAIN stack[1].kids : stack[1].kids[j] = c
  BY <1>1, <1>3, <1>4 DEF FramesAreCalls, Calls, Places
<1>6. CoversItsCalls(x)
  <2>1. SUFFICES ASSUME NEW c \in DOMAIN calls, Calls(x, c), Needs(x, c) PROVE CoveredBy(x, c)
    BY DEF CoversItsCalls
  <2>2. PICK j \in DOMAIN stack[1].kids : stack[1].kids[j] = c
    BY <1>5, <2>1
  <2>3. j <= stack[1].done
    BY <1>3
  <2> QED
    BY <1>1, <1>2, <1>3, <2>1, <2>2, <2>3 DEF TakenAreCovered
<1>7. SUFFICES ASSUME NEW n \in Lengths, NEW s \in [1..n -> DOMAIN calls],
                      Linked(n, s), Clear(n, s, 2), s[1] = x
               PROVE  CoversItsCalls(s[n])
  BY <1>2 DEF Explored
<1>8. CASE n = 1
  BY <1>6, <1>7, <1>8
<1>9. CASE n # 1
  <2>1. PICK m \in Lengths : n = m + 1
    BY <1>9 DEF Lengths
  <2>2. PICK t : t = [k \in 1..m |-> s[k + 1]]
    OBVIOUS
  <2>3. \A k \in 1..m : k + 1 \in 1..n /\ k + 1 \in 2..n /\ k + 1 # 1
    BY <2>1 DEF Lengths
  <2>4. t \in [1..m -> DOMAIN calls] /\ \A k \in 1..m : t[k] = s[k + 1]
    BY <2>2, <2>3
  <2>5. 1 \in 1..m /\ m \in 1..m /\ 1 \in 1..n /\ 2 \in 2..n /\ 2 - 1 = 1
    BY <2>1 DEF Lengths
  <2>6. Linked(m, t)
    <3>1. \A k \in 2..m : Calls(t[k - 1], t[k])
      <4>1. SUFFICES ASSUME NEW k \in 2..m PROVE Calls(t[k - 1], t[k])
        OBVIOUS
      <4>2. /\ k \in 1..m /\ k - 1 \in 1..m /\ k + 1 \in 2..n
            /\ (k - 1) + 1 = k /\ (k + 1) - 1 = k
        BY <2>1 DEF Lengths
      <4>3. Calls(s[(k + 1) - 1], s[k + 1])
        BY <1>7, <4>2 DEF Linked
      <4> QED
        BY <2>4, <4>2, <4>3
    <3>2. \A k, l \in 1..m : calls[t[k]].callee = calls[t[l]].callee => k = l
      <4>1. SUFFICES ASSUME NEW k \in 1..m, NEW l \in 1..m,
                            calls[t[k]].callee = calls[t[l]].callee
                     PROVE  k = l
        OBVIOUS
      <4>2. k + 1 = l + 1
        BY <1>7, <2>3, <2>4, <4>1 DEF Linked
      <4> QED
        BY <4>2
    <3> QED
      BY <2>4, <3>1, <3>2 DEF Linked
  <2>7. Clear(m, t, 1)
    <3>1. SUFFICES ASSUME NEW k \in 1..m, NEW j \in 1..Len(stack)
                   PROVE  calls[t[k]].callee # VisitedAt(j)
      BY DEF Clear
    <3>2. CASE j = 1
      BY <1>4, <1>7, <2>3, <2>4, <2>5, <3>2 DEF Linked
    <3>3. CASE j # 1
      <4>1. j \in 2..Len(stack)
        BY <1>3, <3>3
      <4> QED
        BY <1>7, <2>3, <2>4, <4>1 DEF Clear
    <3> QED
      BY <3>2, <3>3
  <2>8. Calls(x, s[2]) /\ t[1] = s[2] /\ s[2] \in DOMAIN calls
    <3>1. Calls(s[2 - 1], s[2])
      BY <1>7, <2>5 DEF Linked
    <3>2. t[1] = s[1 + 1] /\ t[1] \in DOMAIN calls
      BY <2>4, <2>5
    <3> QED
      BY <1>7, <3>1, <3>2
  <2>9. PICK j \in DOMAIN stack[1].kids : stack[1].kids[j] = s[2]
    BY <1>5, <2>8
  <2>10. IsLeft(1, j)
    BY <1>3 DEF IsLeft
  <2>11. Explored(s[2], 1)
    BY <1>1, <1>3, <2>8, <2>9, <2>10 DEF LeftAreExplored
  <2>12. CoversItsCalls(t[m])
    BY <2>1, <2>4, <2>6, <2>7, <2>8, <2>11 DEF Explored
  <2> QED
    BY <2>1, <2>4, <2>5, <2>12
<1> QED
  BY <1>8, <1>9

LEMMA FramesStayFrames ==
  ASSUME GraphGrows, GraphRight', TypeOK
  PROVE  /\ Frames \subseteq Frames'
         /\ Seq(DOMAIN callGraph) \subseteq Seq(DOMAIN callGraph')
         /\ \A e \in DOMAIN callGraph, f \in Fns : Frame(e, callers[f]) \in Frames /\ Frame(e, callers[f]) \in Frames'
<1>1. DOMAIN callGraph \subseteq DOMAIN callGraph'
  BY DEF GraphGrows
<1>2. Seq(DOMAIN callGraph) \subseteq Seq(DOMAIN callGraph')
  BY <1>1, SeqMonotonic
<1>3. \A e \in DOMAIN callGraph, f \in Fns : Frame(e, callers[f]) \in Frames
  BY PassTypes DEF Frame, Frames
<1> QED
  BY <1>1, <1>2, <1>3 DEF Frames

LEMMA OneMoreDone ==
  ASSUME NEW D, NEW f \in [edge : D, kids : Seq(D), done : Nat], NEW g,
         g = [f EXCEPT !.done = @ + 1]
  PROVE  /\ g \in [edge : D, kids : Seq(D), done : Nat]
         /\ g.edge = f.edge /\ g.kids = f.kids /\ g.done = f.done + 1
  OBVIOUS

(* The walk goes on to the next child of the innermost frame: h frames are *)
(* added, one if the child's function is not being visited.                *)
LEMMA AdvanceKeeps ==
  ASSUME PassInv, Working, GraphGrows, GraphRight', UNCHANGED roots,
         callDepth' \in [Fns -> 0..MaxSelfCallingDepth],
         stack' = Entered(Child, AfterChild),
         \A p, c \in DOMAIN calls :
           p = Top.edge /\ c = Child /\ Needs(p, c) => CoveredBy(p, c)'
  PROVE  PassInv'
<1> DEFINE old == stack[1]
           x == Child
           fn == callGraph[Child].callee
           top == [old EXCEPT !.done = @ + 1]
           new == Frame(Child, callers[fn])
<1>1. /\ TypeOK /\ EdgesAreCalls /\ FramesAreCalls /\ CallersAgree /\ TypesComeFromCallers
      /\ LeftAreExplored /\ TakenAreCovered /\ RootsAreExplored
  BY DEF PassInv
<1>2. /\ stack \in Seq(Frames) /\ stack # <<>> /\ Top = old
      /\ Len(stack) \in Nat \ {0} /\ DOMAIN stack = 1..Len(stack) /\ 1 \in DOMAIN stack
      /\ old \in Frames /\ DOMAIN old.kids = 1..Len(old.kids) /\ Len(old.kids) \in Nat
  <2>1. stack \in Seq(Frames) /\ stack # <<>>
    BY <1>1, PassTypes DEF Working
  <2>2. Len(stack) \in Nat \ {0} /\ DOMAIN stack = 1..Len(stack) /\ Head(stack) = stack[1]
    BY <2>1, TakeOff
  <2>3. 1 \in DOMAIN stack
    BY <2>2
  <2> QED
    BY <1>1, <2>1, <2>2, <2>3, PassTypes DEF Top
<1>3. /\ old.done \in Nat /\ old.done + 1 \in DOMAIN old.kids /\ x = old.kids[old.done + 1]
      /\ x \in DOMAIN callGraph /\ fn \in Fns
  <2>1. old.done \in Nat /\ old.done < Len(old.kids)
    BY <1>2 DEF Working, Frames
  <2>2. old.done + 1 \in DOMAIN old.kids
    BY <1>2, <2>1
  <2>3. x = old.kids[old.done + 1]
    BY <1>2 DEF Child
  <2>4. x \in DOMAIN callGraph
    BY <1>1, <1>2, <2>2, <2>3, PassTypes
  <2>5. fn \in Fns
    BY <1>1, <2>4, PassTypes DEF Edges
  <2> QED
    BY <2>1, <2>2, <2>3, <2>4, <2>5
<1>4. /\ top \in Frames /\ top.edge = old.edge /\ top.kids = old.kids
      /\ top.done = old.done + 1
  <2>1. \A g : g = top => /\ g \in Frames /\ g.edge = old.edge /\ g.kids = old.kids
                         /\ g.done = old.done + 1
    BY <1>2, OneMoreDone DEF Frames
  <2> HIDE DEF top
  <2> QED
    BY <2>1
<1>5. new \in Frames /\ new.edge = x /\ new.kids = callers[fn] /\ new.done = 0
  BY <1>1, <1>3, FramesStayFrames DEF Frame
<1>6. /\ AfterChild \in Seq(Frames) /\ Len(AfterChild) = Len(stack)
      /\ AfterChild[1] = top
      /\ \A k \in 2..Len(stack) : AfterChild[k] = stack[k]
  <2>1. AfterChild = <<top>> \o Tail(stack)
    BY <1>2 DEF AfterChild
  <2>2. /\ Tail(stack) \in Seq(Frames) /\ Len(Tail(stack)) = Len(stack) - 1
        /\ \A k \in 1..(Len(stack) - 1) : Tail(stack)[k] = stack[k + 1]
    BY <1>2, TakeOff
  <2> HIDE DEF top
  <2>3. /\ AfterChild \in Seq(Frames) /\ Len(AfterChild) = (Len(stack) - 1) + 1
        /\ AfterChild[1] = top
        /\ \A k \in 1..(Len(stack) - 1) : AfterChild[k + 1] = Tail(stack)[k]
    BY <1>4, <2>1, <2>2, PutInFront
  <2>4. ASSUME NEW k \in 2..Len(stack)
        PROVE  AfterChild[k] = stack[k]
    <3>1. k - 1 \in 1..(Len(stack) - 1) /\ (k - 1) + 1 = k
      BY <1>2
    <3> QED
      BY <2>2, <2>3, <3>1
  <2> QED
    BY <1>2, <2>3, <2>4
<1>7. \E h \in {0, 1} :
        /\ stack' \in Seq(Frames) /\ Len(stack') = Len(stack) + h
        /\ stack'[1 + h] = top
        /\ \A k \in 2..Len(stack) : stack'[k + h] = stack[k]
        /\ h = 0 => OnStack(fn)
        /\ h = 1 => stack'[1] = new
  <2> HIDE DEF top, new
  <2>1. CASE OnStack(fn)
    <3>1. stack' = AfterChild
      BY <2>1 DEF Entered
    <3> QED
      BY <1>2, <1>6, <2>1, <3>1
  <2>2. CASE ~OnStack(fn)
    <3>1. stack' = <<new>> \o AfterChild
      BY <2>2 DEF Entered, new
    <3>2. /\ stack' \in Seq(Frames) /\ Len(stack') = Len(stack) + 1 /\ stack'[1] = new
          /\ \A k \in 1..Len(stack) : stack'[k + 1] = AfterChild[k]
      BY <1>5, <1>6, <3>1, PutInFront
    <3>3. \A k \in 2..Len(stack) : k \in 1..Len(stack)
      OBVIOUS
    <3>4. stack'[1 + 1] = top
      BY <1>2, <1>6, <3>2
    <3> QED
      BY <1>6, <3>2, <3>3, <3>4
  <2> QED
    BY <2>1, <2>2
<1>8. PICK h \in {0, 1} :
        /\ stack' \in Seq(Frames) /\ Len(stack') = Len(stack) + h
        /\ stack'[1 + h] = top
        /\ \A k \in 2..Len(stack) : stack'[k + h] = stack[k]
        /\ h = 0 => OnStack(fn)
        /\ h = 1 => stack'[1] = new
  BY <1>7, Zenon
<1>9. calls' = calls /\ \A e \in DOMAIN callGraph : e \in DOMAIN callGraph' /\ callGraph'[e] = callGraph[e]
  BY DEF GraphGrows
(* What was frame k is frame k + h. *)
<1>10. ASSUME NEW k \in DOMAIN stack
       PROVE  /\ k + h \in DOMAIN stack'
              /\ stack'[k + h].edge = stack[k].edge /\ stack'[k + h].kids = stack[k].kids
              /\ stack'[k + h].done = IF k = 1 THEN stack[k].done + 1 ELSE stack[k].done
              /\ VisitedAt(k + h)' = VisitedAt(k)
              /\ stack[k].edge \in DOMAIN callGraph
  <2>1. DOMAIN stack' = 1..Len(stack')
    BY <1>8, LenProperties
  <2>2. k + h \in DOMAIN stack'
    BY <1>2, <1>8, <2>1
  <2>3. /\ stack'[k + h].edge = stack[k].edge /\ stack'[k + h].kids = stack[k].kids
        /\ stack'[k + h].done = IF k = 1 THEN stack[k].done + 1 ELSE stack[k].done
    <3>1. CASE k = 1
      <4> HIDE DEF top
      <4> QED
        BY <1>4, <1>8, <3>1
    <3>2. CASE k # 1
      <4>1. k \in 2..Len(stack)
        BY <1>2, <3>2
      <4> QED
        BY <1>8, <3>2, <4>1
    <3> QED
      BY <3>1, <3>2
  <2>4. stack[k].edge \in DOMAIN callGraph
    BY <1>1, PassTypes DEF Frames
  <2>5. VisitedAt(k + h)' = callGraph'[stack'[k + h].edge].callee
    BY DEF VisitedAt
  <2> QED
    BY <1>9, <2>2, <2>3, <2>4, <2>5 DEF VisitedAt
<1>11. \A k \in DOMAIN stack' : \/ h = 1 /\ k = 1
                                \/ \E m \in DOMAIN stack : k = m + h
  <2>1. SUFFICES ASSUME NEW k \in DOMAIN stack', ~(h = 1 /\ k = 1)
                 PROVE  k - h \in DOMAIN stack /\ k = (k - h) + h
    BY Zenon
  <2>2. DOMAIN stack' = 1..(Len(stack) + h)
    BY <1>8, LenProperties
  <2> QED
    BY <1>2, <2>1, <2>2
<1> HIDE DEF top, new
<1>12. h = 1 => /\ 1 \in DOMAIN stack' /\ stack'[1].edge = x /\ stack'[1].kids = callers[fn]
                /\ stack'[1].done = 0 /\ VisitedAt(1)' = fn
  <2>1. SUFFICES ASSUME h = 1
                 PROVE  /\ 1 \in DOMAIN stack' /\ stack'[1].edge = x /\ stack'[1].kids = callers[fn]
                        /\ stack'[1].done = 0 /\ VisitedAt(1)' = fn
    OBVIOUS
  <2>2. 1 \in DOMAIN stack'
    BY <1>2, <1>8, LenProperties
  <2>3. stack'[1].edge = x /\ stack'[1].kids = callers[fn] /\ stack'[1].done = 0
    BY <1>5, <1>8, <2>1
  <2>4. VisitedAt(1)' = callGraph'[stack'[1].edge].callee
    BY DEF VisitedAt
  <2> QED
    BY <1>3, <1>9, <2>2, <2>3, <2>4
<1>13. TypeOK'
  <2>1. stack' \in Seq(Frames')
    BY <1>1, <1>8, FramesStayFrames, SeqMonotonic
  <2>2. roots' \in Seq(DOMAIN calls') /\ calls' \in Seq(Call)
    BY <1>1, <1>9 DEF TypeOK
  <2> QED
    BY <2>1, <2>2 DEF TypeOK, GraphRight, Edges, Frames
<1>14. DOMAIN calls \subseteq DOMAIN callGraph /\ \A i \in DOMAIN calls : callGraph[i] = NewEdge(i)
  BY <1>1, PassTypes, WiderRange DEF EdgesAreCalls
<1>15. FramesAreCalls'
  <2>1. SUFFICES ASSUME NEW k \in DOMAIN stack'
                 PROVE  /\ stack'[k].done <= Len(stack'[k].kids)
                        /\ \A j \in DOMAIN stack'[k].kids :
                             callGraph'[stack'[k].kids[j]].caller = VisitedAt(k)'
                        /\ \A i \in Places(VisitedAt(k)') :
                             \E j \in DOMAIN stack'[k].kids : stack'[k].kids[j] = i
                        /\ k > 1 => /\ stack'[k].done >= 1
                                    /\ stack'[k].kids[stack'[k].done] = stack'[k - 1].edge
    <3>1. \A f : Places(f)' = Places(f)
      BY CallsStay
    <3> QED
      BY <2>1, <3>1 DEF FramesAreCalls
  <2>2. CASE h = 1 /\ k = 1
    <3>1. \A j \in DOMAIN callers[fn] : callGraph[callers[fn][j]].caller = fn
      BY <1>1, <1>3, PassTypes DEF CallersAgree
    <3>2. \A j \in DOMAIN callers[fn] : callGraph'[callers[fn][j]] = callGraph[callers[fn][j]]
      BY <1>1, <1>3, <1>9, PassTypes
    <3>3. \A i \in Places(fn) : \E j \in DOMAIN callers[fn] : callers[fn][j] = i
      <4> HIDE DEF fn
      <4>1. \A i \in Places(fn) : i \in DOMAIN callGraph /\ callGraph[i].caller = fn
        <5>1. SUFFICES ASSUME NEW i \in Places(fn)
                       PROVE  i \in DOMAIN callGraph /\ callGraph[i].caller = fn
          BY Zenon
        <5>2. i \in DOMAIN calls /\ calls[i].caller = fn
          BY DEF Places
        <5>3. i \in DOMAIN callGraph /\ callGraph[i] = NewEdge(i)
          BY <1>14, <5>2
        <5> QED
          BY <5>2, <5>3 DEF NewEdge
      <4> QED
        BY <1>1, <1>3, <4>1 DEF CallersAgree
    <3>4. Len(callers[fn]) \in Nat
      BY <1>1, <1>3, PassTypes
    <3> HIDE DEF x, fn
    <3> QED
      BY <1>12, <2>2, <3>1, <3>2, <3>3, <3>4
  <2>3. ASSUME NEW m \in DOMAIN stack, k = m + h
        PROVE  /\ stack'[k].done <= Len(stack'[k].kids)
               /\ \A j \in DOMAIN stack'[k].kids :
                    callGraph'[stack'[k].kids[j]].caller = VisitedAt(k)'
               /\ \A i \in Places(VisitedAt(k)') :
                    \E j \in DOMAIN stack'[k].kids : stack'[k].kids[j] = i
               /\ k > 1 => /\ stack'[k].done >= 1
                           /\ stack'[k].kids[stack'[k].done] = stack'[k - 1].edge
    <3>1. /\ stack[m].done <= Len(stack[m].kids)
          /\ \A j \in DOMAIN stack[m].kids : callGraph[stack[m].kids[j]].caller = VisitedAt(m)
          /\ \A i \in Places(VisitedAt(m)) : \E j \in DOMAIN stack[m].kids : stack[m].kids[j] = i
          /\ m > 1 => /\ stack[m].done >= 1
                      /\ stack[m].kids[stack[m].done] = stack[m - 1].edge
      BY <1>1 DEF FramesAreCalls
    <3>2. /\ stack'[k].edge = stack[m].edge /\ stack'[k].kids = stack[m].kids
          /\ stack'[k].done = IF m = 1 THEN stack[m].done + 1 ELSE stack[m].done
          /\ VisitedAt(k)' = VisitedAt(m)
      BY <1>10, <2>3
    <3>3. \A j \in DOMAIN stack[m].kids : callGraph'[stack[m].kids[j]] = callGraph[stack[m].kids[j]]
      BY <1>1, <1>9, PassTypes
    <3>4. stack'[k].done <= Len(stack'[k].kids)
      <4>1. CASE m = 1
        BY <1>2, <1>3, <3>2, <4>1
      <4>2. CASE m # 1
        BY <3>1, <3>2, <4>2
      <4> QED
        BY <4>1, <4>2
    <3>5. ASSUME k > 1
          PROVE  stack'[k].done >= 1 /\ stack'[k].kids[stack'[k].done] = stack'[k - 1].edge
      <4>1. CASE m = 1
        <5>1. h = 1 /\ k = 2 /\ k - 1 = 1
          BY <2>3, <3>5, <4>1
        <5>2. stack'[k - 1].edge = x
          BY <1>12, <5>1
        <5>3. stack'[k].done = old.done + 1 /\ stack'[k].kids = old.kids
          BY <3>2, <4>1
        <5> HIDE DEF x, fn
        <5> QED
          BY <1>3, <5>2, <5>3
      <4>2. CASE m # 1
        <5>1. m > 1 /\ m - 1 \in DOMAIN stack /\ (m - 1) + h = k - 1
          BY <1>2, <2>3, <4>2
        <5>2. stack'[k - 1].edge = stack[m - 1].edge
          BY <1>10, <5>1
        <5> QED
          BY <3>1, <3>2, <4>2, <5>1, <5>2
      <4> QED
        BY <4>1, <4>2
    <3> QED
      BY <3>1, <3>2, <3>3, <3>4, <3>5
  <2> QED
    BY <1>11, <2>2, <2>3
<1>16. TakenAreCovered'
  <2>1. SUFFICES ASSUME NEW k \in DOMAIN stack', NEW j \in DOMAIN stack'[k].kids, NEW p, NEW c,
                        p = stack'[k].edge, c = stack'[k].kids[j],
                        j <= stack'[k].done, p \in DOMAIN calls, c \in DOMAIN calls, Needs(p, c)
                 PROVE  CoveredBy(p, c)'
    BY <1>9, CallsStay DEF TakenAreCovered
  <2>2. CASE h = 1 /\ k = 1
    <3>1. /\ stack'[k].done = 0
          /\ DOMAIN stack'[k].kids = 1..Len(callers[fn]) /\ Len(callers[fn]) \in Nat
      BY <1>1, <1>3, <1>12, <2>2, PassTypes
    <3> QED
      BY <2>1, <3>1
  <2>3. ASSUME NEW m \in DOMAIN stack, k = m + h
        PROVE  CoveredBy(p, c)'
    <3>1. /\ p = stack[m].edge /\ j \in DOMAIN stack[m].kids /\ c = stack[m].kids[j]
          /\ j <= IF m = 1 THEN stack[m].done + 1 ELSE stack[m].done
      BY <1>10, <2>1, <2>3
    <3>2. j \in Nat /\ stack[m].done \in Nat
      BY <1>1, <3>1, PassTypes DEF Frames
    <3>3. CASE j <= stack[m].done
      BY <1>1, <2>1, <3>1, <3>3, CoverStays DEF TakenAreCovered
    <3>4. CASE ~(j <= stack[m].done)
      <4>1. m = 1 /\ j = old.done + 1
        BY <3>1, <3>2, <3>4
      <4>2. p = Top.edge /\ c = Child
        BY <1>2, <1>3, <3>1, <4>1
      <4> QED
        BY <2>1, <4>2
    <3> QED
      BY <3>3, <3>4
  <2> QED
    BY <1>11, <2>2, <2>3
<1>17. LeftAreExplored'
  <2>1. SUFFICES ASSUME NEW k \in DOMAIN stack', NEW j \in DOMAIN stack'[k].kids,
                        j \in 1..stack'[k].done, k > 1 => j < stack'[k].done,
                        NEW i \in DOMAIN calls, i = stack'[k].kids[j]
                 PROVE  Explored(i, k)'
    BY <1>9 DEF LeftAreExplored, IsLeft
  <2>2. CASE h = 1 /\ k = 1
    <3>1. stack'[k].done = 0
      BY <1>12, <2>2
    <3> QED
      BY <2>1, <3>1
  <2>3. ASSUME NEW m \in DOMAIN stack, k = m + h
        PROVE  Explored(i, k)'
    <3>1. /\ stack'[k].kids = stack[m].kids /\ j \in DOMAIN stack[m].kids
          /\ stack'[k].done = IF m = 1 THEN stack[m].done + 1 ELSE stack[m].done
      BY <1>10, <2>1, <2>3
    <3>2. /\ j \in Nat /\ stack[m].done \in Nat /\ m \in Nat \ {0}
          /\ Len(stack) \in Nat /\ DOMAIN stack = 1..Len(stack)
      <4>1. stack[m] \in Frames /\ DOMAIN stack[m].kids = 1..Len(stack[m].kids)
        BY <1>1, PassTypes
      <4>2. stack[m].done \in Nat
        BY <4>1 DEF Frames
      <4> QED
        BY <1>2, <2>3, <3>1, <4>1, <4>2
    <3>3. CASE IsLeft(m, j)
      <4>1. Explored(i, m)
        BY <1>1, <2>1, <3>1, <3>3 DEF LeftAreExplored
      <4>2. ASSUME NEW l \in m..Len(stack)
            PROVE  l + h \in k..Len(stack') /\ VisitedAt(l + h)' = VisitedAt(l)
        <5>1. l \in DOMAIN stack /\ l + h \in k..(Len(stack) + h)
          BY <2>3, <3>2
        <5> QED
          BY <1>8, <1>10, <5>1
      <4>3. \A l \in m..Len(stack) : \E q \in k..Len(stack') : VisitedAt(q)' = VisitedAt(l)
        BY <4>2
      <4> QED
        BY <4>1, <4>3, ExploredStays
    <3>4. CASE ~IsLeft(m, j)
      <4>1. m = 1 /\ j = old.done + 1 /\ k = 1
        BY <2>1, <2>3, <3>1, <3>2, <3>4 DEF IsLeft
      <4>2. h = 0 /\ i = x
        BY <1>3, <2>1, <2>3, <3>1, <4>1
      <4>3. PICK l \in DOMAIN stack : VisitedAt(l) = fn
        BY <1>8, <4>2 DEF OnStack, VisitedAt
      <4>4. l \in 1..Len(stack') /\ VisitedAt(l)' = fn
        <5>1. l + h = l /\ Len(stack) + h = Len(stack) /\ l \in 1..Len(stack)
          BY <3>2, <4>2
        <5>2. VisitedAt(l + h)' = VisitedAt(l)
          BY <1>10
        <5>3. VisitedAt(l)' = VisitedAt(l)
          BY <5>1, <5>2
        <5> HIDE DEF fn
        <5> QED
          BY <1>8, <4>3, <5>1, <5>3
      <4>5. calls[i].callee = fn
        <5>1. callGraph[i].callee = fn
          BY <4>2
        <5>2. callGraph[i] = NewEdge(i)
          BY <1>14
        <5> HIDE DEF fn
        <5> QED
          BY <5>1, <5>2 DEF NewEdge
      <4>6. ASSUME NEW n \in Lengths, NEW s \in [1..n -> DOMAIN calls], s[1] = i
            PROVE  ~Clear(n, s, 1)'
        <5>1. 1 \in 1..n
          BY DEF Lengths
        <5> QED
          BY <1>9, <4>2, <4>4, <4>5, <4>6, <5>1 DEF Clear
      <4> HIDE DEF x, fn
      <4>7. Explored(i, 1)'
        BY <1>9, <4>6 DEF Explored, Lengths
      <4> QED
        BY <4>1, <4>2, <4>7
    <3> QED
      BY <3>3, <3>4
  <2> QED
    BY <1>11, <2>2, <2>3
<1>18. RootsAreExplored'
  <2>1. PICK n : n = Len(stack)
    OBVIOUS
  <2>2. PICK m : m = Len(stack')
    OBVIOUS
  <2>3. SUFFICES ASSUME NEW i \in DOMAIN calls, IsRoot(i)
                 PROVE  \/ \E k \in DOMAIN roots' : roots'[k] = i
                        \/ stack' # <<>> /\ stack'[m].edge = i
                        \/ Explored(i, m + 1)'
    BY <1>9, <2>2, CallsStay DEF RootsAreExplored
  <2>4. CASE stack[n].edge = i
    <3>1. n \in DOMAIN stack /\ n + h = m
      BY <1>2, <1>8, <2>1, <2>2
    <3>2. stack'[m].edge = stack[n].edge /\ m # 0
      BY <1>2, <1>8, <1>10, <2>1, <3>1
    <3> QED
      BY <1>8, <2>2, <2>4, <3>1, <3>2
  <2>5. CASE Explored(i, n + 1)
    <3>1. (n + 1)..Len(stack) = {}
      BY <1>2, <2>1
    <3> QED
      BY <2>5, <3>1, ExploredStays
  <2> QED
    BY <1>1, <2>1, <2>3, <2>4, <2>5 DEF RootsAreExplored
<1> QED
  BY <1>13, <1>15, <1>16, <1>17, <1>18 DEF PassInv, GraphRight

(* The innermost frame and the child it has come to. *)
LEMMA AtTheChild ==
  ASSUME PassInv, Working
  PROVE  /\ Top = stack[1] /\ 1 \in DOMAIN stack
         /\ Top.edge \in DOMAIN callGraph /\ Child \in DOMAIN callGraph
         /\ callGraph[Child].caller = callGraph[Top.edge].callee
         /\ \A p \in DOMAIN calls : p \in DOMAIN callGraph /\ callGraph[p] = NewEdge(p)
<1>1. TypeOK /\ EdgesAreCalls /\ FramesAreCalls
  BY DEF PassInv
<1>2. /\ stack \in Seq(Frames) /\ stack # <<>> /\ DOMAIN stack = 1..Len(stack)
      /\ Len(stack) \in Nat \ {0} /\ Head(stack) = stack[1]
  BY <1>1, PassTypes, TakeOff DEF Working
<1>3. Top = stack[1] /\ 1 \in DOMAIN stack /\ stack[1] \in Frames
  BY <1>1, <1>2, PassTypes DEF Top
<1>4. /\ stack[1].edge \in DOMAIN callGraph /\ stack[1].done \in Nat
      /\ Len(stack[1].kids) \in Nat /\ DOMAIN stack[1].kids = 1..Len(stack[1].kids)
      /\ \A j \in DOMAIN stack[1].kids : stack[1].kids[j] \in DOMAIN callGraph
  BY <1>1, <1>3, PassTypes DEF Frames
<1>5. stack[1].done + 1 \in DOMAIN stack[1].kids /\ Child = stack[1].kids[stack[1].done + 1]
  BY <1>3, <1>4 DEF Working, Child
<1>6. callGraph[Child].caller = callGraph[Top.edge].callee
  BY <1>1, <1>3, <1>5 DEF FramesAreCalls, VisitedAt
<1>7. \A p \in DOMAIN calls : p \in DOMAIN callGraph /\ callGraph[p] = NewEdge(p)
  BY <1>1, PassTypes, WiderRange DEF EdgesAreCalls
<1> QED
  BY <1>3, <1>4, <1>5, <1>6, <1>7

LEMMA SkipSelfCallKeeps ==
  ASSUME PassInv, SkipSelfCall
  PROVE  PassInv'
<1>1. /\ Working /\ SelfCall /\ stack' = AfterChild
      /\ UNCHANGED <<calls, callGraph, callers>> /\ UNCHANGED roots /\ callDepth' = callDepth
  BY DEF SkipSelfCall
<1>2. GraphGrows /\ GraphRight'
  BY <1>1, GraphStays DEF PassInv
<1>3. stack' = Entered(Child, AfterChild)
  <2>1. OnStack(callGraph[Child].callee)
    BY <1>1, AtTheChild DEF OnStack, SelfCall, ThisFn
  <2> QED
    BY <1>1, <2>1 DEF Entered
<1>4. callDepth' \in [Fns -> 0..MaxSelfCallingDepth]
  BY <1>1 DEF PassInv, TypeOK
<1>5. \A p, c \in DOMAIN calls : ~(p = Top.edge /\ c = Child /\ Needs(p, c))
  <2>1. SUFFICES ASSUME NEW p \in DOMAIN calls, NEW c \in DOMAIN calls, p = Top.edge, c = Child
                 PROVE  calls[c].callee = calls[p].callee
    BY Zenon DEF Needs
  <2>2. callGraph[p] = NewEdge(p) /\ callGraph[c] = NewEdge(c)
    BY <1>1, AtTheChild
  <2>3. callGraph[c].callee = callGraph[p].callee
    BY <1>1, <2>1 DEF SelfCall, ThisFn
  <2> QED
    BY <2>2, <2>3 DEF NewEdge
<1> QED
  BY <1>1, <1>2, <1>3, <1>4, <1>5, AdvanceKeeps

LEMMA TakeChildKeeps ==
  ASSUME PassInv, TakeChild
  PROVE  PassInv'
<1>1. /\ TypeOK /\ EdgesAreCalls /\ CallersAgree /\ TypesComeFromCallers
      /\ Working /\ UNCHANGED calls /\ UNCHANGED roots /\ stack' = Entered(Child, AfterChild)
  BY DEF PassInv, TakeChild
<1>2. callDepth' \in [Fns -> 0..MaxSelfCallingDepth]
  <2>1. callDepth \in [Fns -> 0..MaxSelfCallingDepth] /\ MaxSelfCallingDepth \in Nat
    BY <1>1, DepthAssumption DEF TypeOK
  <2>2. \A n \in 0..MaxSelfCallingDepth : n < MaxSelfCallingDepth => n + 1 \in 0..MaxSelfCallingDepth
    BY <2>1
  <2>3. ThisFn \in Fns
    BY <1>1, AtTheChild, PassTypes DEF ThisFn, Edges
  <2>4. CASE SelfCall
    <3>1. callDepth' = [callDepth EXCEPT ![ThisFn] = callDepth[ThisFn] + 1]
      BY <2>4 DEF TakeChild
    <3>2. callDepth[ThisFn] + 1 \in 0..MaxSelfCallingDepth
      BY <2>1, <2>2, <2>3, <2>4 DEF TakeChild
    <3> QED
      BY <2>1, <3>1, <3>2
  <2>5. CASE ~SelfCall
    BY <2>1, <2>5 DEF TakeChild
  <2> QED
    BY <2>4, <2>5
<1>3. CASE Missing(callGraph[Top.edge], callGraph[Child])
  <2>1. PICK d \in DOMAIN callGraph : d = Top.edge
    BY <1>1, AtTheChild
  <2>2. PICK e \in DOMAIN callGraph : e = Child
    BY <1>1, AtTheChild
  <2>3. Instantiate(callGraph[d], callGraph[e]) /\ callGraph[e].caller = callGraph[d].callee
    BY <1>1, <1>3, <2>1, <2>2, AtTheChild DEF TakeChild
  <2>4. PICK new : new = Len(callGraph) + 1
    OBVIOUS
  <2>5. /\ GraphGrows /\ GraphRight' /\ new \in DOMAIN callGraph'
        /\ callGraph'[new] = InstanceOf(callGraph[d], callGraph[e])
    BY <1>1, <2>3, <2>4, InstantiateKeeps
  <2>6. ASSUME NEW p \in DOMAIN calls, NEW c \in DOMAIN calls, p = Top.edge, c = Child
        PROVE  CoveredBy(p, c)'
    <3>1. callGraph[d] = NewEdge(p) /\ callGraph[e] = NewEdge(c)
      BY <1>1, <2>1, <2>2, <2>6, AtTheChild
    <3>2. /\ callGraph[d].types = calls[p].types /\ callGraph[e].types = calls[c].types
          /\ callGraph[e].of = c
      BY <3>1 DEF NewEdge
    <3>3. /\ callGraph'[new].of = c
          /\ DOMAIN callGraph'[new].types = DOMAIN calls[p].types \union DOMAIN calls[c].types
          /\ \A k \in DOMAIN calls[p].types : callGraph'[new].types[k] = calls[p].types[k]
          /\ \A k \in DOMAIN calls[c].types \ DOMAIN calls[p].types :
               callGraph'[new].types[k] = calls[c].types[k]
      BY <1>1, <2>5, <3>2, Instances
    <3> QED
      BY <1>1, <2>5, <3>3 DEF CoveredBy
  <2> QED
    BY <1>1, <1>2, <2>5, <2>6, AdvanceKeeps
<1>4. CASE ~Missing(callGraph[Top.edge], callGraph[Child])
  <2>1. UNCHANGED <<calls, callGraph, callers>>
    BY <1>1, <1>4 DEF TakeChild
  <2>2. GraphGrows /\ GraphRight'
    BY <1>1, <2>1, GraphStays
  <2>3. \A p, c \in DOMAIN calls : ~(p = Top.edge /\ c = Child /\ Needs(p, c))
    <3>1. SUFFICES ASSUME NEW p \in DOMAIN calls, NEW c \in DOMAIN calls, p = Top.edge, c = Child
                   PROVE  ~Missing(calls[p], calls[c])
      BY Zenon DEF Needs
    <3>2. callGraph[p] = NewEdge(p) /\ callGraph[c] = NewEdge(c)
      BY <1>1, AtTheChild
    <3>3. ~Missing(callGraph[p], callGraph[c])
      BY <1>4, <3>1
    <3>4. callGraph[p].types = calls[p].types /\ callGraph[c].types = calls[c].types
      BY <3>2 DEF NewEdge
    <3> QED
      BY <3>3, <3>4 DEF Missing
  <2> QED
    BY <1>1, <1>2, <2>2, <2>3, AdvanceKeeps
<1> QED
  BY <1>3, <1>4

LEMMA ReturnKeeps ==
  ASSUME PassInv, Return
  PROVE  PassInv'
<1>1. /\ TypeOK /\ EdgesAreCalls /\ FramesAreCalls /\ CallersAgree /\ TypesComeFromCallers
      /\ LeftAreExplored /\ TakenAreCovered /\ RootsAreExplored
      /\ stack # <<>> /\ Top.done = Len(Top.kids) /\ stack' = Tail(stack)
      /\ UNCHANGED <<calls, callGraph, callers>> /\ UNCHANGED roots /\ callDepth' = callDepth
  BY DEF PassInv, Return
<1>2. GraphGrows /\ GraphRight'
  BY <1>1, GraphStays
<1>3. PICK n : n = Len(stack)
  OBVIOUS
<1>4. /\ n \in Nat \ {0} /\ DOMAIN stack = 1..n /\ stack \in Seq(Frames)
      /\ stack' \in Seq(Frames) /\ Len(stack') = n - 1 /\ DOMAIN stack' = 1..(n - 1)
      /\ \A k \in 1..(n - 1) : stack'[k] = stack[k + 1]
  <2>1. stack \in Seq(Frames)
    BY <1>1, PassTypes
  <2> QED
    BY <1>1, <1>3, <2>1, TakeOff
<1>5. ASSUME NEW k \in DOMAIN stack'
      PROVE  /\ k \in Nat \ {0} /\ k + 1 \in DOMAIN stack /\ stack'[k] = stack[k + 1]
             /\ VisitedAt(k)' = VisitedAt(k + 1)
  <2>1. k \in Nat \ {0} /\ k + 1 \in DOMAIN stack /\ stack'[k] = stack[k + 1]
    BY <1>4
  <2> QED
    BY <1>1, <2>1 DEF VisitedAt
<1>6. Top.edge \in DOMAIN calls => Explored(stack[1].edge, 2)
  BY <1>1, LeavingIsExplored
<1>7. Top = stack[1]
  BY <1>1, <1>4, TakeOff DEF Top
<1>8. TypeOK'
  <2>1. roots' \in Seq(DOMAIN calls') /\ calls' \in Seq(Call) /\ Frames' = Frames
    BY <1>1 DEF TypeOK, Frames
  <2>2. callDepth' \in [Fns -> 0..MaxSelfCallingDepth]
    BY <1>1 DEF TypeOK
  <2> QED
    BY <1>2, <1>4, <2>1, <2>2 DEF TypeOK, GraphRight, Edges, Frames
<1>9. FramesAreCalls'
  <2>1. SUFFICES ASSUME NEW k \in DOMAIN stack'
                 PROVE  /\ stack'[k].done <= Len(stack'[k].kids)
                        /\ \A j \in DOMAIN stack'[k].kids :
                             callGraph'[stack'[k].kids[j]].caller = VisitedAt(k)'
                        /\ \A i \in Places(VisitedAt(k)') :
                             \E j \in DOMAIN stack'[k].kids : stack'[k].kids[j] = i
                        /\ k > 1 => /\ stack'[k].done >= 1
                                    /\ stack'[k].kids[stack'[k].done] = stack'[k - 1].edge
    <3>1. \A f : Places(f)' = Places(f)
      BY <1>2, CallsStay
    <3> QED
      BY <2>1, <3>1 DEF FramesAreCalls
  <2>2. k > 1 => stack'[k - 1] = stack[k] /\ (k + 1) - 1 = k
    <3>1. k > 1 => k - 1 \in 1..(n - 1) /\ (k - 1) + 1 = k /\ (k + 1) - 1 = k
      BY <1>4
    <3> QED
      BY <1>4, <3>1
  <2>3. /\ stack[k + 1].done <= Len(stack[k + 1].kids)
        /\ \A j \in DOMAIN stack[k + 1].kids :
             callGraph[stack[k + 1].kids[j]].caller = VisitedAt(k + 1)
        /\ \A i \in Places(VisitedAt(k + 1)) :
             \E j \in DOMAIN stack[k + 1].kids : stack[k + 1].kids[j] = i
        /\ stack[k + 1].done >= 1
        /\ stack[k + 1].kids[stack[k + 1].done] = stack[(k + 1) - 1].edge
    <3>1. k + 1 \in DOMAIN stack /\ k + 1 > 1
      BY <1>5
    <3> QED
      BY <1>1, <3>1 DEF FramesAreCalls
  <2> QED
    BY <1>1, <1>5, <2>2, <2>3
<1>10. TakenAreCovered'
  <2>1. SUFFICES ASSUME NEW k \in DOMAIN stack', NEW j \in DOMAIN stack'[k].kids, NEW p, NEW c,
                        p = stack'[k].edge, c = stack'[k].kids[j],
                        j <= stack'[k].done, p \in DOMAIN calls, c \in DOMAIN calls, Needs(p, c)
                 PROVE  CoveredBy(p, c)'
    BY <1>1, <1>2, CallsStay DEF TakenAreCovered
  <2> QED
    BY <1>1, <1>2, <1>5, <2>1, CoverStays DEF TakenAreCovered
<1>11. LeftAreExplored'
  <2>1. SUFFICES ASSUME NEW k \in DOMAIN stack', NEW j \in DOMAIN stack'[k].kids,
                        j \in 1..stack'[k].done, k > 1 => j < stack'[k].done,
                        NEW i \in DOMAIN calls, i = stack'[k].kids[j]
                 PROVE  Explored(i, k)'
    BY <1>1 DEF LeftAreExplored, IsLeft
  <2>2. /\ k \in Nat \ {0} /\ k + 1 \in DOMAIN stack /\ stack'[k] = stack[k + 1]
        /\ stack[k + 1].done \in Nat
    BY <1>1, <1>5, PassTypes DEF Frames
  <2>3. Explored(i, k + 1)
    <3>1. CASE j < stack[k + 1].done
      <4>1. IsLeft(k + 1, j)
        BY <2>1, <2>2, <3>1 DEF IsLeft
      <4> QED
        BY <1>1, <2>1, <2>2, <4>1 DEF LeftAreExplored
    <3>2. CASE ~(j < stack[k + 1].done)
      <4>1. k = 1 /\ j = stack[k + 1].done /\ k + 1 = 2 /\ 2 - 1 = 1 /\ 2 > 1
        BY <2>1, <2>2, <3>2
      <4>2. stack[2].kids[stack[2].done] = stack[2 - 1].edge
        BY <1>1, <2>2, <4>1 DEF FramesAreCalls
      <4>3. i = stack[1].edge
        BY <2>1, <2>2, <4>1, <4>2
      <4> QED
        BY <1>6, <1>7, <4>1, <4>3
    <3> QED
      BY <3>1, <3>2
  <2>4. ASSUME NEW l \in (k + 1)..Len(stack)
        PROVE  l - 1 \in k..Len(stack') /\ VisitedAt(l - 1)' = VisitedAt(l)
    <3>1. l - 1 \in 1..(n - 1) /\ (l - 1) + 1 = l /\ l - 1 \in k..(n - 1)
      BY <1>3, <1>4, <2>2
    <3> QED
      BY <1>4, <1>5, <3>1
  <2>5. \A l \in (k + 1)..Len(stack) : \E q \in k..Len(stack') : VisitedAt(q)' = VisitedAt(l)
    BY <2>4
  <2> QED
    BY <1>2, <2>3, <2>5, ExploredStays
<1>12. RootsAreExplored'
  <2>1. PICK m : m = Len(stack')
    OBVIOUS
  <2>2. SUFFICES ASSUME NEW i \in DOMAIN calls, IsRoot(i)
                 PROVE  \/ \E k \in DOMAIN roots' : roots'[k] = i
                        \/ stack' # <<>> /\ stack'[m].edge = i
                        \/ Explored(i, m + 1)'
    BY <1>1, <1>2, <2>1, CallsStay DEF RootsAreExplored
  <2>3. m = n - 1 /\ m + 1 = n /\ (n + 1)..Len(stack) = {}
    BY <1>3, <1>4, <2>1
  <2>4. CASE stack[n].edge = i
    <3>1. CASE n = 1
      <4>1. Explored(i, 2)
        BY <1>6, <1>7, <2>2, <2>4, <3>1
      <4>2. 2..Len(stack) = {}
        BY <2>3, <3>1
      <4> QED
        BY <1>2, <4>1, <4>2, ExploredStays
    <3>2. CASE n # 1
      <4>1. n - 1 \in 1..(n - 1) /\ (n - 1) + 1 = n /\ n - 1 # 0
        BY <1>4, <3>2
      <4>2. stack'[m] = stack[n] /\ Len(stack') # 0
        BY <1>4, <2>3, <4>1
      <4> QED
        BY <1>4, <2>4, <4>2, EmptySeq
    <3> QED
      BY <3>1, <3>2
  <2>5. CASE Explored(i, n + 1)
    BY <1>2, <2>3, <2>5, ExploredStays
  <2> QED
    BY <1>1, <1>3, <2>2, <2>4, <2>5 DEF RootsAreExplored
<1> QED
  BY <1>2, <1>8, <1>9, <1>10, <1>11, <1>12 DEF PassInv, GraphRight

LEMMA NextRootKeeps ==
  ASSUME PassInv, NextRoot
  PROVE  PassInv'
<1>1. /\ TypeOK /\ EdgesAreCalls /\ CallersAgree /\ TypesComeFromCallers /\ RootsAreExplored
      /\ stack = <<>> /\ roots # <<>> /\ stack' = Entered(Head(roots), <<>>) /\ roots' = Tail(roots)
      /\ UNCHANGED <<calls, callGraph, callers>> /\ callDepth' = callDepth
  BY DEF PassInv, NextRoot
<1>2. GraphGrows /\ GraphRight'
  BY <1>1, GraphStays
<1>3. PICK r : r = Head(roots)
  OBVIOUS
<1>4. PICK n : n = Len(roots)
  OBVIOUS
<1>5. /\ r \in DOMAIN calls /\ r = roots[1] /\ roots' \in Seq(DOMAIN calls) /\ n \in Nat \ {0}
      /\ DOMAIN roots = 1..n /\ DOMAIN roots' = 1..(n - 1)
      /\ \A k \in 1..(n - 1) : roots'[k] = roots[k + 1]
  <2>1. roots \in Seq(DOMAIN calls)
    BY <1>1 DEF TypeOK
  <2> QED
    BY <1>1, <1>3, <1>4, <2>1, TakeOff
<1>6. r \in DOMAIN callGraph /\ callGraph[r] = NewEdge(r)
  BY <1>1, <1>5, PassTypes, WiderRange DEF EdgesAreCalls
<1>7. PICK fn \in Fns : fn = callGraph[r].callee
  BY <1>1, <1>6, PassTypes DEF Edges
<1>8. DOMAIN stack = {} /\ Len(stack) = 0
  BY <1>1
<1>9. PICK new : new = Frame(r, callers[fn])
  OBVIOUS
<1>10. /\ new \in Frames /\ new \in Frames' /\ new.edge = r /\ new.kids = callers[fn]
       /\ new.done = 0
  BY <1>1, <1>2, <1>6, <1>9, FramesStayFrames DEF Frame
<1>11. stack' = <<new>>
  <2>1. ~OnStack(fn)
    BY <1>8 DEF OnStack
  <2>2. stack' = <<new>> \o <<>>
    BY <1>1, <1>3, <1>7, <1>9, <2>1 DEF Entered
  <2> QED
    BY <2>2
<1>12. /\ stack' \in Seq(Frames') /\ Len(stack') = 1 /\ DOMAIN stack' = {1} /\ stack'[1] = new
       /\ stack' # <<>>
  BY <1>10, <1>11
<1>13. VisitedAt(1)' = fn
  BY <1>1, <1>7, <1>10, <1>12 DEF VisitedAt
<1>14. TypeOK'
  <2>1. calls' \in Seq(Call) /\ roots' \in Seq(DOMAIN calls')
    BY <1>1, <1>5 DEF TypeOK
  <2>2. callDepth' \in [Fns -> 0..MaxSelfCallingDepth]
    BY <1>1 DEF TypeOK
  <2> QED
    BY <1>2, <1>12, <2>1, <2>2 DEF TypeOK, GraphRight, Edges, Frames
<1>15. /\ Len(callers[fn]) \in Nat /\ DOMAIN callers[fn] = 1..Len(callers[fn])
       /\ \A j \in DOMAIN callers[fn] : callers[fn][j] \in DOMAIN callGraph
  BY <1>1, PassTypes
<1>16. FramesAreCalls'
  <2>1. \A j \in DOMAIN callers[fn] : callGraph'[callers[fn][j]].caller = fn
    BY <1>1, <1>15 DEF CallersAgree
  <2>2. \A i \in Places(fn)' : \E j \in DOMAIN callers[fn] : callers[fn][j] = i
    <3>1. SUFFICES ASSUME NEW i \in Places(fn)
                   PROVE  \E j \in DOMAIN callers[fn] : callers[fn][j] = i
      BY <1>2, CallsStay
    <3>2. i \in DOMAIN calls /\ calls[i].caller = fn
      BY DEF Places
    <3>3. i \in DOMAIN callGraph /\ callGraph[i] = NewEdge(i)
      BY <1>1, <3>2, PassTypes, WiderRange DEF EdgesAreCalls
    <3>4. callGraph[i].caller = fn
      BY <3>2, <3>3 DEF NewEdge
    <3> QED
      BY <1>1, <3>3, <3>4 DEF CallersAgree
  <2> QED
    BY <1>10, <1>12, <1>13, <1>15, <2>1, <2>2 DEF FramesAreCalls
<1>17. TakenAreCovered' /\ LeftAreExplored'
  BY <1>10, <1>12, <1>15 DEF TakenAreCovered, LeftAreExplored, IsLeft
<1>18. RootsAreExplored'
  <2>1. SUFFICES ASSUME NEW i \in DOMAIN calls, IsRoot(i)
                 PROVE  \/ \E k \in DOMAIN roots' : roots'[k] = i
                        \/ stack' # <<>> /\ stack'[1].edge = i
                        \/ Explored(i, 2)'
    BY <1>1, <1>2, <1>12, CallsStay DEF RootsAreExplored
  <2>2. ASSUME NEW k \in DOMAIN roots, roots[k] = i
        PROVE  (\E m \in DOMAIN roots' : roots'[m] = i) \/ i = r
    <3>1. CASE k = 1
      BY <1>5, <2>2, <3>1
    <3>2. CASE k # 1
      <4>1. k - 1 \in 1..(n - 1) /\ (k - 1) + 1 = k
        BY <1>5, <3>2
      <4> QED
        BY <1>5, <2>2, <4>1
    <3> QED
      BY <3>1, <3>2
  <2>3. CASE Explored(i, 1)
    <3>1. 1..Len(stack) = {}
      BY <1>8
    <3> QED
      BY <1>2, <2>3, <3>1, ExploredStays
  <2>4. Explored(i, Len(stack) + 1) => Explored(i, 1)
    BY <1>8
  <2> QED
    BY <1>1, <1>10, <1>12, <2>1, <2>2, <2>3, <2>4 DEF RootsAreExplored
<1> QED
  BY <1>2, <1>14, <1>16, <1>17, <1>18 DEF PassInv, GraphRight

LEMMA PassStutters ==
  ASSUME PassInv, UNCHANGED vars
  PROVE  PassInv'
<1>1. /\ TypeOK /\ EdgesAreCalls /\ FramesAreCalls /\ CallersAgree /\ TypesComeFromCallers
      /\ LeftAreExplored /\ TakenAreCovered /\ RootsAreExplored
      /\ UNCHANGED <<calls, callGraph, callers>> /\ roots' = roots /\ stack' = stack
      /\ callDepth' = callDepth
  BY DEF PassInv, vars
<1>2. GraphGrows /\ GraphRight'
  BY <1>1, GraphStays
<1>3. TypeOK' /\ FramesAreCalls'
  BY <1>1 DEF TypeOK, FramesAreCalls, VisitedAt, Places
<1>4. \A i, k : Explored(i, k) => Explored(i, k)'
  <2>1. \A k : VisitedAt(k)' = VisitedAt(k)
    BY <1>1 DEF VisitedAt
  <2> QED
    BY <1>1, <1>2, <2>1, ExploredStays
<1>5. \A k, j : IsLeft(k, j)' <=> IsLeft(k, j)
  BY <1>1 DEF IsLeft
<1>6. LeftAreExplored'
  BY <1>1, <1>4, <1>5 DEF LeftAreExplored
<1>7. TakenAreCovered'
  BY <1>1, <1>2, CoverStays, CallsStay DEF TakenAreCovered
<1>8. RootsAreExplored'
  <2>1. PICK n : n = Len(stack)
    OBVIOUS
  <2>2. SUFFICES ASSUME NEW i \in DOMAIN calls, IsRoot(i)
                 PROVE  \/ \E k \in DOMAIN roots : roots[k] = i
                        \/ stack # <<>> /\ stack[n].edge = i
                        \/ Explored(i, n + 1)'
    BY <1>1, <1>2, <2>1, CallsStay DEF RootsAreExplored
  <2> QED
    BY <1>1, <1>4, <2>1, <2>2 DEF RootsAreExplored
<1> QED
  BY <1>2, <1>3, <1>6, <1>7, <1>8 DEF PassInv, GraphRight

LEMMA PassHolds == Spec => []PassInv
<1>1. ASSUME PassInv, [Next]_vars PROVE PassInv'
  BY <1>1, NextRootKeeps, SkipSelfCallKeeps, TakeChildKeeps, ReturnKeeps, PassStutters DEF Next
<1> QED
  BY <1>1, PassStart, PTL DEF Spec

-----------------------------------------------------------------------------
(* Callers and the call graph stay two views of one thing, however the     *)
(* pass extends both while it walks them (metadata.go:429-430).            *)
THEOREM CallersInStep == Spec => []CallersAgree
<1>1. PassInv => CallersAgree
  BY DEF PassInv
<1> QED
  BY <1>1, PassHolds, PTL

LEMMA DoneIsCovered == PassInv => CallersAreCovered
<1> SUFFICES ASSUME PassInv, Done PROVE CallersAreCovered
  BY DEF CallersAreCovered
<1>1. TypeOK /\ RootsAreExplored /\ roots = <<>> /\ stack = <<>>
  BY DEF PassInv, Done
<1>2. Len(stack) = 0 /\ DOMAIN roots = {}
  BY <1>1
<1>3. ASSUME NEW i \in DOMAIN calls, IsRoot(i)
      PROVE  Explored(i, 1)
  <2>1. Explored(i, Len(stack) + 1)
    BY <1>1, <1>2, <1>3 DEF RootsAreExplored
  <2> QED
    BY <1>2, <2>1
<1>4. ASSUME NEW p \in DOMAIN calls, OnChain(p)
      PROVE  CoversItsCalls(p)
  <2>1. PICK n \in 1..Cardinality(Fns) : \E s \in [1..n -> DOMAIN calls] : s[n] = p /\ Chain(s)
    BY <1>4 DEF OnChain
  <2>2. PICK s \in [1..n -> DOMAIN calls] : s[n] = p /\ Chain(s)
    BY <2>1
  <2>3. n \in Lengths /\ DOMAIN s = 1..n /\ 1 \in 1..n /\ s # <<>>
    BY <2>2 DEF Lengths
  <2>4. s[1] \in DOMAIN calls /\ IsRoot(s[1])
    BY <2>2, <2>3 DEF Chain
  <2>5. Linked(n, s)
    <3>1. \A k \in 2..n : k \in 1..n /\ k > 1
      BY <2>3 DEF Lengths
    <3> QED
      BY <2>2, <2>3, <3>1 DEF Chain, Linked
  <2>6. Clear(n, s, 1)
    BY <1>2 DEF Clear
  <2>7. CoversItsCalls(s[n])
    BY <1>3, <2>3, <2>4, <2>5, <2>6 DEF Explored
  <2> QED
    BY <2>2, <2>7
<1>5. SUFFICES ASSUME NEW p \in DOMAIN calls, NEW c \in DOMAIN calls, OnChain(p), Calls(p, c),
                      Needs(p, c)
               PROVE  CoveredBy(p, c)
  BY DEF CallersAreCovered, CoveredBy, Needs
<1> QED
  BY <1>4, <1>5 DEF CoversItsCalls

(* Every type argument of a call in the graph, copies included, is one     *)
(* that the call itself or some call leading to its caller was made with.  *)
(* And by the end, for every call p on a chain from a root that comes to   *)
(* no function twice, and every call c in the function p calls, other than *)
(* to that function itself, both of them generic and c without a type      *)
(* parameter that p has: there is a copy of c with the type arguments of p *)
(* and its own for the rest                                                *)
(* (metadata.go:402-433).                                                  *)
THEOREM InstancesRight == Spec => []InstancesAreCallers
<1>1. PassInv => InstancesAreCallers
  BY DoneIsCovered DEF PassInv, InstancesAreCallers
<1> QED
  BY <1>1, PassHolds, PTL

-----------------------------------------------------------------------------
(* What the types of results rest on.                                      *)

(* A set of naturals that is not empty has a least member. *)
LEMMA LeastHeight ==
  ASSUME NEW E, E \subseteq Nat, E # {}
  PROVE  \E m \in E : \A n \in E : m <= n
<1>1. PICK m \in E : \A n \in E : ~(<<n, m>> \in OpToRel(<, Nat))
  BY NatLessThanWellFounded, WFMin
<1>2. ASSUME NEW n \in E
      PROVE  ~(n < m)
  <2>1. n < m => <<n, m>> \in OpToRel(<, Nat)
    BY Zenon DEF OpToRel
  <2> QED
    BY <1>1, <2>1
<1> QED
  BY <1>2

(* What TypesOf is defined by: the types of e from those of its parts. *)
FromParts(f, e) == TypesFrom(e, f[e.of], f[e.key])

TypesSolve(f) == f = [e \in Exprs |-> TypesFrom(e, f[e.of], f[e.key])]

LEMMA SolvesFromParts ==
  \A f : TypesSolve(f) <=> f = [e \in Exprs |-> FromParts(f, e)]
  BY Zenon DEF TypesSolve, FromParts

LEMMA PartsCases ==
  ASSUME NEW e \in Exprs, NEW f
  PROVE  \/ e.kind = "ident" /\ e.type \in Types /\ FromParts(f, e) = {e.type}
         \/ /\ e.kind = "selector" /\ e.base \in Words /\ e.field \in Words
            /\ FromParts(f, e) = OfSelector(e)
         \/ /\ e.kind = "star" /\ e.of \in Exprs /\ Height[e.of] < Height[e]
            /\ FromParts(f, e) = Prefixed("*", f[e.of])
         \/ /\ e.kind = "slice" /\ e.of \in Exprs /\ Height[e.of] < Height[e]
            /\ FromParts(f, e) = Prefixed("[]", f[e.of])
         \/ /\ e.kind = "map" /\ e.key \in Exprs /\ e.of \in Exprs
            /\ Height[e.of] < Height[e] /\ Height[e.key] < Height[e]
            /\ FromParts(f, e) = MapsOf(f[e.key], f[e.of])
         \/ e.kind = "none" /\ FromParts(f, e) = {Unset}
<1>1. CASE e.kind = "ident"
  BY <1>1, ExprsAssumption DEF FromParts, TypesFrom
<1>2. CASE e.kind = "selector"
  BY <1>2, ExprsAssumption DEF FromParts, TypesFrom
<1>3. CASE e.kind = "star"
  BY <1>3, ExprsAssumption DEF FromParts, TypesFrom
<1>4. CASE e.kind = "slice"
  BY <1>4, ExprsAssumption DEF FromParts, TypesFrom
<1>5. CASE e.kind = "map"
  BY <1>5, ExprsAssumption DEF FromParts, TypesFrom
<1>6. CASE e.kind = "none"
  BY <1>6, ExprsAssumption DEF FromParts, TypesFrom
<1> QED
  BY <1>1, <1>2, <1>3, <1>4, <1>5, <1>6, ExprsAssumption

LEMMA PartsGrow ==
  ASSUME NEW e \in Exprs, NEW f, NEW g, \A x \in Exprs : f[x] \subseteq g[x]
  PROVE  FromParts(f, e) \subseteq FromParts(g, e)
<1>1. CASE e.kind = "star"
  BY <1>1, ExprsAssumption DEF FromParts, TypesFrom, Prefixed
<1>2. CASE e.kind = "slice"
  BY <1>2, ExprsAssumption DEF FromParts, TypesFrom, Prefixed
<1>3. CASE e.kind = "map"
  BY <1>3, ExprsAssumption DEF FromParts, TypesFrom, MapsOf
<1>4. CASE e.kind \in {"ident", "selector", "none"}
  BY <1>4 DEF FromParts, TypesFrom
<1> QED
  BY <1>1, <1>2, <1>3, <1>4, ExprsAssumption

LEMMA ShortSequences ==
  ASSUME NEW S
  PROVE  \A v, w, x \in S : <<v>> \in Seq(S) /\ <<v, w>> \in Seq(S) /\ <<v, w, x>> \in Seq(S)
  OBVIOUS

LEMMA TypesAreWords ==
  /\ Unset \in Types
  /\ \A t \in Types : <<"*">> \o t \in Types /\ <<"[]">> \o t \in Types
  /\ \A t, u \in Types : <<"map", "[">> \o t \o <<"]">> \o u \in Types
<1>1. <<"*">> \in Types /\ <<"[]">> \in Types /\ <<"map", "[">> \in Types /\ <<"]">> \in Types
  <2>1. \A v, w, x \in Words : <<v>> \in Types /\ <<v, w>> \in Types /\ <<v, w, x>> \in Types
    BY ShortSequences, Zenon DEF Types
  <2> QED
    BY <2>1, WordsAssumption, Zenon
<1>2. \A t, u \in Types : t \o u \in Types
  BY ConcatProperties DEF Types
<1> QED
  BY <1>1, <1>2 DEF Types, Unset

(* A field is looked up in the first file that has it: it has one type. *)
LEMMA FieldFacts ==
  ASSUME NEW base, NEW field
  PROVE  /\ FindFieldType(base, field) \subseteq Types
         /\ \A t, u \in FindFieldType(base, field) : t = u
<1>1. /\ DOMAIN SortedFiles \subseteq Nat
      /\ FilesWith(base, field) \subseteq DOMAIN SortedFiles
      /\ FirstOf(FilesWith(base, field)) \subseteq FilesWith(base, field)
  BY FilesAssumption, LenProperties DEF FilesWith, FirstOf
<1>2. \A i \in FilesWith(base, field) : FieldsOf[SortedFiles[i]][base][field] \in Types
  BY FilesAssumption DEF FilesWith
<1>3. \A i, j \in FirstOf(FilesWith(base, field)) : i = j
  <2>1. \A i, j \in FirstOf(FilesWith(base, field)) : i <= j /\ j <= i /\ i \in Nat /\ j \in Nat
    BY <1>1 DEF FirstOf
  <2> QED
    BY <2>1
<1> QED
  BY <1>1, <1>2, <1>3 DEF FindFieldType, Preferred

LEMMA SelectorFacts ==
  ASSUME NEW e \in Exprs, e.kind = "selector"
  PROVE  OfSelector(e) \subseteq Types /\ \A t, u \in OfSelector(e) : t = u
<1>1. CASE FindFieldType(e.base, e.field) = {}
  <2>1. OfSelector(e) = {<<e.base, ".", e.field>>}
    BY <1>1 DEF OfSelector
  <2>2. <<e.base, ".", e.field>> \in Types
    <3>1. \A v, w, x \in Words : <<v, w, x>> \in Types
      BY ShortSequences, Zenon DEF Types
    <3> QED
      BY <3>1, WordsAssumption, ExprsAssumption, Zenon
  <2> QED
    BY <2>1, <2>2
<1>2. CASE FindFieldType(e.base, e.field) # {}
  BY <1>2, FieldFacts DEF OfSelector
<1> QED
  BY <1>1, <1>2

LEMMA PartsTyped ==
  ASSUME NEW e \in Exprs, NEW f, \A x \in Exprs : f[x] \subseteq Types
  PROVE  FromParts(f, e) \subseteq Types
<1>1. CASE e.kind = "selector"
  BY <1>1, SelectorFacts, PartsCases
<1>2. CASE e.kind \in {"star", "slice"}
  <2>1. /\ e.of \in Exprs
        /\ \/ FromParts(f, e) = Prefixed("*", f[e.of])
           \/ FromParts(f, e) = Prefixed("[]", f[e.of])
    BY <1>2, ExprsAssumption DEF FromParts, TypesFrom
  <2>2. \A t \in f[e.of] : t \in Types
    BY <2>1
  <2>3. \A t \in f[e.of] : <<"*">> \o t \in Types /\ <<"[]">> \o t \in Types
    BY <2>2, TypesAreWords, Zenon
  <2> QED
    BY <2>1, <2>3, Zenon DEF Prefixed
<1>3. CASE e.kind = "map"
  <2>1. /\ e.key \in Exprs /\ e.of \in Exprs
        /\ FromParts(f, e) = MapsOf(f[e.key], f[e.of])
    BY <1>3, ExprsAssumption DEF FromParts, TypesFrom
  <2>2. \A u \in f[e.key] \X f[e.of] : u[1] \in Types /\ u[2] \in Types
    BY <2>1
  <2>3. \A u \in f[e.key] \X f[e.of] : <<"map", "[">> \o u[1] \o <<"]">> \o u[2] \in Types
    BY <2>2, TypesAreWords, Zenon
  <2> QED
    BY <2>1, <2>3, Zenon DEF MapsOf
<1>4. CASE e.kind \in {"ident", "none"}
  <2>1. \/ FromParts(f, e) = {e.type} /\ e.type \in Types
        \/ FromParts(f, e) = {Unset}
    BY <1>4, ExprsAssumption DEF FromParts, TypesFrom
  <2> QED
    BY <2>1, TypesAreWords
<1> QED
  BY <1>1, <1>2, <1>3, <1>4, ExprsAssumption

(* The definition of TypesOf has a solution: the types that every table    *)
(* has that is closed under it.                                            *)
TypesClosed(R) ==
  \A e \in Exprs : FromParts([x \in Exprs |-> {t \in Types : <<x, t>> \in R}], e)
                     \subseteq {t \in Types : <<e, t>> \in R}

LEMMA SomethingSolves == \E f : TypesSolve(f)
<1> DEFINE In(R) == [x \in Exprs |-> {t \in Types : <<x, t>> \in R}]
           Tables == SUBSET (Exprs \X Types)
<1>1. PICK f : f = [x \in Exprs |-> {t \in Types : \A R \in Tables : TypesClosed(R) => <<x, t>> \in R}]
  OBVIOUS
<1>2. /\ \A x \in Exprs : f[x] \subseteq Types
      /\ \A R \in Tables : TypesClosed(R) => \A x \in Exprs : f[x] \subseteq In(R)[x]
  BY <1>1
<1>3. ASSUME NEW e \in Exprs
      PROVE  FromParts(f, e) \subseteq f[e]
  <2>1. FromParts(f, e) \subseteq Types
    BY <1>2, PartsTyped
  <2>2. ASSUME NEW R \in Tables, TypesClosed(R)
        PROVE  FromParts(f, e) \subseteq {t \in Types : <<e, t>> \in R}
    <3>1. FromParts(f, e) \subseteq FromParts(In(R), e)
      <4>1. \A x \in Exprs : f[x] \subseteq In(R)[x]
        BY <1>2, <2>2
      <4> HIDE DEF In
      <4> QED
        BY <4>1, PartsGrow
    <3>2. FromParts(In(R), e) \subseteq {t \in Types : <<e, t>> \in R}
      BY <2>2 DEF TypesClosed
    <3> QED
      BY <3>1, <3>2
  <2> QED
    BY <1>1, <2>1, <2>2
<1>4. PICK Own : Own = {r \in Exprs \X Types : r[2] \in FromParts(f, r[1])}
  OBVIOUS
<1>5. Own \in Tables /\ \A e \in Exprs : {t \in Types : <<e, t>> \in Own} = FromParts(f, e)
  <2>1. \A e \in Exprs : FromParts(f, e) \subseteq Types
    BY <1>2, PartsTyped
  <2> QED
    BY <1>4, <2>1
<1>6. TypesClosed(Own)
  <2>1. \A x \in Exprs : In(Own)[x] \subseteq f[x]
    BY <1>3, <1>5
  <2>2. \A e \in Exprs : FromParts(In(Own), e) \subseteq FromParts(f, e)
    <3> HIDE DEF In
    <3> QED
      BY <2>1, PartsGrow
  <2> QED
    BY <1>5, <2>2 DEF TypesClosed
<1>7. \A e \in Exprs : f[e] \subseteq FromParts(f, e)
  BY <1>2, <1>5, <1>6
<1>8. \A e \in Exprs : f[e] = FromParts(f, e)
  BY <1>3, <1>7
<1>9. f = [e \in Exprs |-> FromParts(f, e)]
  <2>1. f = [e \in Exprs |-> f[e]]
    BY <1>1
  <2> QED
    BY <1>8, <2>1
<1> QED
  BY <1>9, SolvesFromParts

LEMMA TypesOfSolves == TypesSolve(TypesOf)
<1>1. TypesOf = CHOOSE f : TypesSolve(f)
  BY Zenon DEF TypesOf, TypesSolve
<1> QED
  BY <1>1, SomethingSolves

(* And every expression has one type at most: at the lowest one with two   *)
(* its parts would have had one.                                           *)
LEMMA OneTypeEach ==
  ASSUME NEW e \in Exprs, NEW t \in TypesOf[e], NEW u \in TypesOf[e]
  PROVE  t = u
<1> DEFINE Twice == {x \in Exprs : \E v, w \in TypesOf[x] : v # w}
           Heights == {n \in Nat : \E x \in Twice : Height[x] = n}
<1> SUFFICES ASSUME Twice # {} PROVE FALSE
  BY DEF Twice
<1>1. \A x \in Exprs : Height[x] \in Nat
  BY ResultsAssumption
<1>2. Heights # {} /\ Heights \subseteq Nat
  BY <1>1
<1>3. PICK n \in Heights : \A m \in Heights : n <= m
  <2> HIDE DEF Heights
  <2> QED
    BY <1>2, LeastHeight
<1>4. PICK x \in Twice : Height[x] = n
  BY <1>3
<1>5. x \in Exprs /\ \E v, w \in TypesOf[x] : v # w
  BY <1>4
<1>6. \A y \in Exprs : Height[y] < Height[x] => \A v, w \in TypesOf[y] : v = w
  <2>1. SUFFICES ASSUME NEW y \in Exprs, Height[y] < Height[x], y \in Twice PROVE FALSE
    OBVIOUS
  <2>2. Height[y] \in Heights
    BY <1>1, <2>1
  <2> QED
    BY <1>1, <1>3, <1>4, <1>5, <2>1, <2>2
<1> HIDE DEF Twice, Heights
<1>7. TypesOf[x] = FromParts(TypesOf, x)
  <2>1. TypesOf = [e1 \in Exprs |-> FromParts(TypesOf, e1)]
    BY TypesOfSolves, SolvesFromParts
  <2> QED
    BY <1>5, <2>1
<1>8. CASE x.kind = "selector"
  <2>1. TypesOf[x] = OfSelector(x)
    BY <1>5, <1>7, <1>8, PartsCases
  <2> QED
    BY <1>5, <1>8, <2>1, SelectorFacts
<1>9. CASE x.kind \in {"star", "slice"}
  <2>1. \A v, w \in TypesOf[x.of] : v = w
    BY <1>5, <1>6, <1>9, ExprsAssumption
  <2>2. \/ TypesOf[x] = Prefixed("*", TypesOf[x.of])
        \/ TypesOf[x] = Prefixed("[]", TypesOf[x.of])
    BY <1>5, <1>7, <1>9, PartsCases
  <2> QED
    BY <1>5, <2>1, <2>2 DEF Prefixed
<1>10. CASE x.kind = "map"
  <2>1. /\ \A v, w \in TypesOf[x.of] : v = w
        /\ \A v, w \in TypesOf[x.key] : v = w
    BY <1>5, <1>6, <1>10, ExprsAssumption
  <2>2. TypesOf[x] = MapsOf(TypesOf[x.key], TypesOf[x.of])
    BY <1>5, <1>7, <1>10, PartsCases
  <2>3. \A v, w \in TypesOf[x.key] \X TypesOf[x.of] : v[1] = w[1] /\ v[2] = w[2]
    BY <2>1
  <2>4. \A v, w \in MapsOf(TypesOf[x.key], TypesOf[x.of]) : v = w
    BY <2>3, Zenon DEF MapsOf
  <2> QED
    BY <1>5, <2>2, <2>4
<1>11. CASE x.kind \in {"ident", "none"}
  <2>1. TypesOf[x] = {x.type} \/ TypesOf[x] = {Unset}
    BY <1>5, <1>7, <1>11, PartsCases
  <2> QED
    BY <1>5, <2>1
<1> QED
  BY <1>5, <1>8, <1>9, <1>10, <1>11, ExprsAssumption

-----------------------------------------------------------------------------
(* What has been resolved.                                                 *)

(* A type that has been resolved is the declaration's, one that an         *)
(* argument has been given is of something its call may mean.              *)
TypesInv ==
  /\ toResolve \in 0..Len(Declarations)
  /\ DOMAIN resolvedType = DOMAIN Declarations
  /\ toType \subseteq DOMAIN argType
  /\ \A d \in DOMAIN Declarations :
       resolvedType[d] # Unset => resolvedType[d] \in TypesOf[Declarations[d].result]
  /\ \A a \in DOMAIN argType : argType[a] # Unset =>
       \E d \in Meant(a) : argType[a] \in TypesOf[Declarations[d].result]

Unflipped ==
  /\ \A d \in DOMAIN resolvedType :
       resolvedType[d] # Unset => resolvedType'[d] = resolvedType[d]
  /\ \A a \in DOMAIN argType :
       argType[a] # Unset /\ OneType(a) => argType'[a] = argType[a]

LEMMA DeclarationFacts ==
  /\ Len(Declarations) \in Nat /\ DOMAIN Declarations = 1..Len(Declarations)
  /\ \A d \in DOMAIN Declarations : Declarations[d].result \in Exprs
  /\ \A a : Meant(a) \subseteq DOMAIN Declarations
<1>1. \A a : Meant(a) \subseteq DOMAIN Declarations
  BY DEF Meant, MeantIn
<1>2. /\ Len(Declarations) \in Nat /\ DOMAIN Declarations = 1..Len(Declarations)
      /\ \A d \in DOMAIN Declarations :
           Declarations[d] \in [name : STRING, file : STRING, isMethod : BOOLEAN, result : Exprs]
  BY ResultsAssumption, LenProperties, ElementOfSeq
<1> QED
  BY <1>1, <1>2

LEMMA ReturnStart == ReturnInit => TypesInv
<1> SUFFICES ASSUME ReturnInit PROVE TypesInv
  OBVIOUS
<1>1. PICK as \in Arguments : argType = [a \in as |-> Unset]
  BY DEF ReturnInit
<1>2. toResolve \in 0..Len(Declarations)
  BY DeclarationFacts DEF ReturnInit
<1> QED
  BY <1>1, <1>2 DEF ReturnInit, TypesInv

LEMMA ResolveKeeps ==
  ASSUME TypesInv, Resolve
  PROVE  TypesInv' /\ Unflipped
<1>1. PICK d : d = toResolve + 1
  OBVIOUS
<1>2. d \in DOMAIN Declarations /\ toResolve' = d /\ d \in 0..Len(Declarations)
  BY <1>1, DeclarationFacts DEF TypesInv, Resolve
<1>3. PICK t \in TypesOf[Declarations[d].result] :
        resolvedType' = IF t = Unset THEN resolvedType ELSE [resolvedType EXCEPT ![d] = t]
  BY <1>1 DEF Resolve
<1>4. argType' = argType /\ toType' = toType /\ DOMAIN resolvedType = DOMAIN Declarations
  BY DEF Resolve, TypesInv
<1>5. /\ DOMAIN resolvedType' = DOMAIN resolvedType
      /\ \A b \in DOMAIN resolvedType : b # d => resolvedType'[b] = resolvedType[b]
      /\ IF t = Unset THEN resolvedType'[d] = resolvedType[d] ELSE resolvedType'[d] = t
  BY <1>2, <1>3, <1>4
<1>6. resolvedType[d] # Unset => resolvedType[d] \in TypesOf[Declarations[d].result]
  BY <1>2 DEF TypesInv
<1>7. resolvedType[d] # Unset => resolvedType'[d] = resolvedType[d]
  <2>1. resolvedType[d] # Unset => resolvedType[d] = t
    BY <1>2, <1>3, <1>6, OneTypeEach, DeclarationFacts
  <2> QED
    BY <1>5, <2>1
<1>8. \A b \in DOMAIN resolvedType : resolvedType[b] # Unset => resolvedType'[b] = resolvedType[b]
  BY <1>5, <1>7
<1>9. Unflipped
  BY <1>4, <1>8 DEF Unflipped
<1>10. ASSUME NEW b \in DOMAIN Declarations, resolvedType'[b] # Unset
       PROVE  resolvedType'[b] \in TypesOf[Declarations[b].result]
  <2>1. CASE b = d
    BY <1>3, <1>5, <1>6, <1>10, <2>1
  <2>2. CASE b # d
    BY <1>4, <1>5, <1>10, <2>2 DEF TypesInv
  <2> QED
    BY <2>1, <2>2
<1>11. TypesInv'
  BY <1>2, <1>4, <1>5, <1>10 DEF TypesInv
<1> QED
  BY <1>9, <1>11

LEMMA TypeArgumentKeeps ==
  ASSUME TypesInv, NEW a \in toType, TypeArgument(a)
  PROVE  TypesInv' /\ Unflipped
<1>1. /\ resolvedType' = resolvedType /\ toResolve' = toResolve /\ toType' = toType \ {a}
      /\ toType \subseteq DOMAIN argType /\ a \in DOMAIN argType
      /\ DOMAIN resolvedType = DOMAIN Declarations
  BY DEF TypeArgument, TypesInv
<1>2. CASE argType' = argType
  BY <1>1, <1>2 DEF TypesInv, Unflipped
<1>3. ASSUME NEW d \in Meant(a), resolvedType[d] # Unset,
             argType' = [argType EXCEPT ![a] = resolvedType[d]]
      PROVE  TypesInv' /\ Unflipped
  <2>1. d \in DOMAIN Declarations /\ resolvedType[d] \in TypesOf[Declarations[d].result]
    BY <1>3, DeclarationFacts DEF TypesInv
  <2>2. /\ DOMAIN argType' = DOMAIN argType /\ argType'[a] = resolvedType[d]
        /\ \A b \in DOMAIN argType : b # a => argType'[b] = argType[b]
    BY <1>1, <1>3
  <2>3. TypesInv'
    <3>1. \A b \in DOMAIN argType' : argType'[b] # Unset =>
            \E e \in Meant(b) : argType'[b] \in TypesOf[Declarations[e].result]
      BY <2>1, <2>2 DEF TypesInv
    <3> QED
      BY <1>1, <2>2, <3>1 DEF TypesInv
  <2>4. ASSUME argType[a] # Unset, OneType(a)
        PROVE  argType'[a] = argType[a]
    <3>1. PICK e \in Meant(a) : argType[a] \in TypesOf[Declarations[e].result]
      BY <1>1, <2>4 DEF TypesInv
    <3>2. TypesOf[Declarations[e].result] = TypesOf[Declarations[d].result]
      BY <2>4 DEF OneType
    <3>3. Declarations[d].result \in Exprs
      BY <2>1, DeclarationFacts
    <3> QED
      BY <2>1, <2>2, <3>1, <3>2, <3>3, OneTypeEach
  <2>5. Unflipped
    BY <1>1, <2>2, <2>4 DEF Unflipped
  <2> QED
    BY <2>3, <2>5
<1>4. \/ argType' = argType
      \/ \E d \in Meant(a) : /\ resolvedType[d] # Unset
                             /\ argType' = [argType EXCEPT ![a] = resolvedType[d]]
  BY DEF TypeArgument
<1> QED
  BY <1>2, <1>3, <1>4

LEMMA ReloadKeeps ==
  ASSUME TypesInv, Reload
  PROVE  TypesInv' /\ Unflipped
<1>1. resolvedType' = resolvedType /\ argType' = argType /\ toType' = DOMAIN argType /\ toResolve' = 0
  BY DEF Reload
<1>2. 0 \in 0..Len(Declarations)
  BY DeclarationFacts
<1> QED
  BY <1>1, <1>2 DEF TypesInv, Unflipped

LEMMA ReturnKeepsTypes ==
  ASSUME TypesInv, [ReturnNext]_returnVars
  PROVE  TypesInv' /\ Unflipped
<1>1. CASE UNCHANGED returnVars
  BY <1>1 DEF returnVars, TypesInv, Unflipped
<1> QED
  BY <1>1, ResolveKeeps, TypeArgumentKeeps, ReloadKeeps DEF ReturnNext

(* However often the metadata are loaded, and in whatever order Go's maps  *)
(* give what a call may mean: what has been resolved is never changed, and *)
(* an argument keeps its type if all that its call may mean is of one type *)
(* (types.go:1379).                                                        *)
THEOREM TypesStay == ReturnSpec => TypesDoNotFlip
<1>1. TypesInv /\ [ReturnNext]_returnVars => TypesInv'
  BY ReturnKeepsTypes
<1>2. TypesInv /\ [ReturnNext]_returnVars => [Unflipped]_returnVars
  BY ReturnKeepsTypes
<1>3. ReturnSpec => [][Unflipped]_returnVars
  BY <1>1, <1>2, ReturnStart, PTL DEF ReturnSpec
<1> QED
  BY <1>3, Zenon DEF TypesDoNotFlip, Unflipped

-----------------------------------------------------------------------------
(* The types that are nested in others.                                    *)

(* The equation that Nested is defined by, in the types R. *)
Layers(N, R) ==
  N = [d \in Nat |-> IF d = 0 THEN R ELSE UNION {RangeOf(Parts(t)) : t \in N[d - 1]}]

(* It has a solution: at each depth the types that every table has there   *)
(* that is closed under it.                                                *)
LEMMA SomethingLayers ==
  ASSUME NEW R
  PROVE  \E N : Layers(N, R)
<1> DEFINE All == R \union UNION {RangeOf(Parts(t)) : t \in DOMAIN TypeExprs}
           Closed(T) == /\ \A t \in R : <<0, t>> \in T
                        /\ \A d \in Nat, s \in All : <<d, s>> \in T =>
                             \A u \in RangeOf(Parts(s)) : <<d + 1, u>> \in T
           Tables == SUBSET (Nat \X All)
<1>1. \A s : RangeOf(Parts(s)) \subseteq All
  <2>1. SUFFICES ASSUME NEW s PROVE RangeOf(Parts(s)) \subseteq All
    OBVIOUS
  <2>2. CASE s \in DOMAIN TypeExprs
    BY <2>2
  <2>3. CASE s \notin DOMAIN TypeExprs
    BY <2>3 DEF Parts, RangeOf
  <2> QED
    BY <2>2, <2>3
<1>2. PICK f : f = [d \in Nat |-> {t \in All : \A T \in Tables : Closed(T) => <<d, t>> \in T}]
  OBVIOUS
<1>3. \A d \in Nat : /\ f[d] \subseteq All
                     /\ \A t \in All : t \in f[d] <=> \A T \in Tables : Closed(T) => <<d, t>> \in T
  BY <1>2
<1>4. R \subseteq f[0]
  <2>1. \A t \in R : t \in All /\ \A T \in Tables : Closed(T) => <<0, t>> \in T
    OBVIOUS
  <2> HIDE DEF All, Closed, Tables
  <2> QED
    BY <1>3, <2>1
<1>5. \A d \in Nat : \A s \in f[d] : \A u \in RangeOf(Parts(s)) : u \in f[d + 1]
  <2>1. SUFFICES ASSUME NEW d \in Nat, NEW s \in f[d], NEW u \in RangeOf(Parts(s)) PROVE u \in f[d + 1]
    OBVIOUS
  <2>2. u \in All /\ s \in All /\ d + 1 \in Nat
    BY <1>1, <1>3
  <2>3. ASSUME NEW T \in Tables, Closed(T)
        PROVE  <<d + 1, u>> \in T
    <3>1. <<d, s>> \in T
      <4> HIDE DEF All, Closed, Tables
      <4> QED
        BY <1>3, <2>2, <2>3
    <3> QED
      BY <2>2, <2>3, <3>1
  <2> HIDE DEF All, Closed, Tables
  <2> QED
    BY <1>3, <2>2, <2>3
<1>6. f[0] \subseteq R
  <2> DEFINE T == {r \in Nat \X All : r[1] = 0 => r[2] \in R}
  <2>1. T \in Tables /\ Closed(T)
    <3>1. \A t \in R : <<0, t>> \in T
      OBVIOUS
    <3>2. \A d \in Nat, u \in All : <<d + 1, u>> \in T
      <4>1. \A d \in Nat : d + 1 \in Nat /\ d + 1 # 0
        OBVIOUS
      <4> HIDE DEF All
      <4> QED
        BY <4>1
    <3>3. \A d \in Nat, s \in All : \A u \in RangeOf(Parts(s)) : <<d + 1, u>> \in T
      <4> HIDE DEF T, All
      <4> QED
        BY <1>1, <3>2
    <3>4. T \in Tables
      OBVIOUS
    <3> HIDE DEF T
    <3> QED
      BY <3>1, <3>3, <3>4
  <2>2. \A t \in f[0] : <<0, t>> \in T
    <3> HIDE DEF T, All, Closed, Tables
    <3> QED
      BY <1>3, <2>1
  <2> QED
    BY <2>2
<1>7. ASSUME NEW d \in Nat, NEW u \in f[d + 1]
      PROVE  \E s \in f[d] : u \in RangeOf(Parts(s))
  <2> DEFINE T == {r \in Nat \X All : r[2] \in f[r[1]] /\ r # <<d + 1, u>>}
  <2>1. SUFFICES ASSUME \A s \in f[d] : u \notin RangeOf(Parts(s)) PROVE FALSE
    OBVIOUS
  <2>2. \A t \in R : <<0, t>> \in T
    <3>1. \A t \in R : t \in f[0] /\ t \in All /\ 0 # d + 1
      BY <1>4
    <3> HIDE DEF All
    <3> QED
      BY <3>1
  <2>3. ASSUME NEW e \in Nat, NEW s \in All, <<e, s>> \in T, NEW v \in RangeOf(Parts(s))
        PROVE  <<e + 1, v>> \in T
    <3>1. s \in f[e] /\ e + 1 \in Nat
      BY <2>3
    <3>2. v \in f[e + 1] /\ v \in All
      BY <1>1, <1>5, <3>1
    <3>3. <<e + 1, v>> # <<d + 1, u>>
      <4>1. CASE e = d
        BY <2>1, <2>3, <3>1, <4>1
      <4>2. CASE e # d
        BY <4>2
      <4> QED
        BY <4>1, <4>2
    <3> HIDE DEF All
    <3> QED
      BY <3>1, <3>2, <3>3
  <2>4. T \in Tables
    OBVIOUS
  <2>5. Closed(T)
    <3> HIDE DEF T, All
    <3> QED
      BY <2>2, <2>3
  <2>6. <<d + 1, u>> \in T
    <3>1. u \in All /\ d + 1 \in Nat
      BY <1>3
    <3> HIDE DEF T, All, Closed, Tables
    <3> QED
      BY <1>3, <2>4, <2>5, <3>1
  <2> QED
    BY <2>6
<1>8. \A d \in Nat : f[d] = IF d = 0 THEN R ELSE UNION {RangeOf(Parts(t)) : t \in f[d - 1]}
  <2>1. SUFFICES ASSUME NEW d \in Nat
                 PROVE  f[d] = IF d = 0 THEN R ELSE UNION {RangeOf(Parts(t)) : t \in f[d - 1]}
    OBVIOUS
  <2>2. CASE d = 0
    BY <1>4, <1>6, <2>2
  <2>3. CASE d # 0
    <3>1. PICK e \in Nat : e = d - 1 /\ e + 1 = d
      BY <2>3
    <3> HIDE DEF All, Closed, Tables
    <3>2. f[d] = UNION {RangeOf(Parts(t)) : t \in f[e]}
      BY <1>5, <1>7, <3>1
    <3> QED
      BY <2>3, <3>1, <3>2
  <2> QED
    BY <2>2, <2>3
<1>9. f = [d \in Nat |-> f[d]]
  BY <1>2
<1> HIDE DEF All, Closed, Tables
<1>10. Layers(f, R)
  BY <1>8, <1>9 DEF Layers
<1> QED
  BY <1>10

LEMMA NestedLayers == Layers(Nested, referred)
<1>1. Nested = CHOOSE N : Layers(N, referred)
  BY Zenon DEF Nested, Layers
<1> QED
  BY <1>1, SomethingLayers

LEMMA LayerFacts ==
  ASSUME NEW N, NEW R, Layers(N, R)
  PROVE  /\ N[0] = R
         /\ \A d \in Nat : \A s \in N[d] : \A u \in RangeOf(Parts(s)) : u \in N[d + 1]
         /\ \A d \in Nat : \A u \in N[d + 1] : \E s \in N[d] : u \in RangeOf(Parts(s))
<1>1. \A d \in Nat : N[d] = IF d = 0 THEN R ELSE UNION {RangeOf(Parts(t)) : t \in N[d - 1]}
  BY DEF Layers
<1>2. \A d \in Nat : N[d + 1] = UNION {RangeOf(Parts(t)) : t \in N[d]}
  <2>1. SUFFICES ASSUME NEW d \in Nat PROVE N[d + 1] = UNION {RangeOf(Parts(t)) : t \in N[d]}
    OBVIOUS
  <2>2. d + 1 \in Nat /\ d + 1 # 0 /\ (d + 1) - 1 = d
    OBVIOUS
  <2> QED
    BY <1>1, <2>2
<1>3. N[0] = R
  BY <1>1
<1>4. \A d \in Nat : \A u : u \in N[d + 1] <=> \E s \in N[d] : u \in RangeOf(Parts(s))
  <2>1. SUFFICES ASSUME NEW d \in Nat
                 PROVE  \A u : u \in N[d + 1] <=> \E s \in N[d] : u \in RangeOf(Parts(s))
    OBVIOUS
  <2>2. PICK M, L : M = N[d + 1] /\ L = N[d]
    OBVIOUS
  <2>3. M = UNION {RangeOf(Parts(t)) : t \in L}
    BY <1>2, <2>2
  <2> QED
    BY <2>2, <2>3
<1> QED
  BY <1>3, <1>4, Zenon

-----------------------------------------------------------------------------
(* What pairing and considering keep.                                      *)

PairedSoFar == Len(Declared) - Len(toPair)

(* The declared types are paired in their order, and what is paired is on  *)
(* both sides.                                                             *)
PairInv ==
  /\ toPair \in Seq(RangeOf(Declared)) /\ Len(toPair) <= Len(Declared)
  /\ \A j \in DOMAIN toPair : toPair[j] = Declared[PairedSoFar + j]
  /\ implements \in [DOMAIN Declared -> Seq(Nat)]
  /\ implementedBy \in [DOMAIN Interfaces -> Seq(Nat)]
  /\ \A k \in 1..PairedSoFar : RangeOf(implements[k]) = Paired(Declared[k])
  /\ \A i \in DOMAIN Interfaces :
       RangeOf(implementedBy[i]) = {k \in 1..PairedSoFar : i \in Paired(Declared[k])}

(* Interfaces from elsewhere come last. *)
MatchInv ==
  matched => /\ toPair = <<>> /\ toConsider = {} /\ work = <<>>
             /\ \A k \in DOMAIN Declared :
                  RangeOf(implementsOuter[k])
                    = {t \in external : Satisfies(MethodSet(Declared[k]), Outer[t])}

WalkInv ==
  /\ referred \subseteq Nat /\ toConsider \subseteq referred
  /\ seen \subseteq Nat
  /\ external = {t \in seen : t \in DOMAIN Outer /\ DOMAIN Outer[t] # {}}
  /\ work \in Seq(Nat \X Nat)

(* A type that has come up has been looked into, or will be, or it is met  *)
(* just beyond the limit.                                                  *)
Met(t, N) ==
  t \in seen \/ (\E k \in DOMAIN work : work[k][1] = t) \/ t \in N[MaxDepth + 1]

(* With N for the layers: types are considered where they are nested, and  *)
(* what is referred to or part of a type looked into has come up.          *)
LayersInv(N) ==
  /\ \A k \in DOMAIN work : work[k][2] <= MaxDepth + 1 /\ work[k][1] \in N[work[k][2]]
  /\ \A t \in seen : \E d \in 0..MaxDepth : t \in N[d]
  /\ \A t \in referred \ toConsider : Met(t, N)
  /\ \A s \in seen : \A u \in RangeOf(Parts(s)) : Met(u, N)

ImplInv == PairInv /\ MatchInv /\ WalkInv /\ \A N : Layers(N, referred) => LayersInv(N)

LEMMA ImplConstants ==
  /\ Len(Declared) \in Nat /\ DOMAIN Declared = 1..Len(Declared)
  /\ Declared \in Seq(RangeOf(Declared))
  /\ DOMAIN Interfaces = 1..Len(Interfaces) /\ Len(Interfaces) \in Nat
  /\ DOMAIN Outer = 1..Len(Outer) /\ Len(Outer) \in Nat
  /\ IsFiniteSet(DOMAIN Interfaces) /\ IsFiniteSet(DOMAIN Outer)
<1>1. /\ Len(Declared) \in Nat /\ DOMAIN Declared = 1..Len(Declared)
      /\ DOMAIN Interfaces = 1..Len(Interfaces) /\ Len(Interfaces) \in Nat
      /\ DOMAIN Outer = 1..Len(Outer) /\ Len(Outer) \in Nat
  BY PairsAssumption, LenProperties
<1> QED
  BY <1>1, PairsAssumption, FS_Interval

LEMMA InOrderIsAll ==
  ASSUME NEW S, S \subseteq Nat, IsFiniteSet(S)
  PROVE  RangeOf(InOrder(S)) = S
<1>1. PICK s \in Seq(S) : s = InOrder(S) /\ \A i \in S : \E k \in DOMAIN s : s[k] = i
  BY InOrderFacts
<1>2. \A k \in DOMAIN s : s[k] \in S
  BY <1>1, ElementOfSeq, LenProperties
<1> QED
  BY <1>1, <1>2 DEF RangeOf

LEMMA ImplStart == ImplInit => ImplInv
<1> SUFFICES ASSUME ImplInit PROVE ImplInv
  OBVIOUS
<1> USE DEF ImplInit
<1>1. /\ Len(Declared) \in Nat /\ Declared \in Seq(RangeOf(Declared)) /\ DOMAIN Declared = 1..Len(Declared)
      /\ DOMAIN Interfaces = 1..Len(Interfaces) /\ Len(Interfaces) \in Nat
  BY ImplConstants
<1>2. PairInv
  <2>1. <<>> \in Seq(Nat) /\ PairedSoFar = 0
    BY <1>1 DEF PairedSoFar
  <2>2. \A j \in DOMAIN toPair : toPair[j] = Declared[0 + j]
    BY <1>1
  <2>3. RangeOf(<<>>) = {} /\ 1..0 = {}
    BY DEF RangeOf
  <2> QED
    BY <1>1, <2>1, <2>2, <2>3 DEF PairInv
<1>3. WalkInv
  BY NestingAssumption DEF WalkInv
<1>4. ASSUME NEW N
      PROVE  LayersInv(N)
  BY DEF LayersInv
<1> QED
  BY <1>2, <1>3, <1>4 DEF ImplInv, MatchInv

(* Two spellings are one, but for the package, where two signatures have   *)
(* one name and are written in one form.                                   *)
LEMMA SameSpelling ==
  ASSUME NEW sig1, NEW sig2, NEW pkg1, NEW pkg2
  PROVE  normalizeSignature(Spelled(sig1, pkg1)) = normalizeSignature(Spelled(sig2, pkg2))
           <=> sig1.name = sig2.name /\ sig1.form = sig2.form
<1>1. \A sig, p : Spelled(sig, p).name = sig.name /\ Spelled(sig, p).form = sig.form
  BY SMT DEF Spelled
<1>2. \A n1, f1, n2, f2 :
        [name |-> n1, form |-> f1] = [name |-> n2, form |-> f2] => n1 = n2 /\ f1 = f2
  BY SMT
<1> QED
  BY <1>1, <1>2, Zenon DEF normalizeSignature

(* Where two types' methods are written alike, what is paired is what the  *)
(* declared methods of the one and the named ones of the other say in Go.  *)
LEMMA PairedIsDeclared ==
  ASSUME NEW s, NEW i, WrittenAlike(s, i)
  PROVE  implementsInterface(s, i) <=> DOMAIN i.methods # {} /\ Satisfies(s.methods, i.methods)
<1>1. ASSUME NEW m \in DOMAIN s.methods \intersect DOMAIN i.methods
      PROVE  normalizeSignature(Spelled(s.methods[m], s.pkg))
                 = normalizeSignature(Spelled(i.methods[m], i.pkg))
               <=> SameInGo(s.methods[m], i.methods[m])
  BY <1>1, SameSpelling DEF WrittenAlike
<1> QED
  BY <1>1, Zenon DEF implementsInterface, Satisfies

(* What all methods of a method set fulfil, the declared ones do.          *)
LEMMA DeclaredFirst ==
  ASSUME NEW t
  PROVE  /\ DOMAIN MethodSet(t) = DOMAIN t.methods \union DOMAIN t.inherited
         /\ \A m \in DOMAIN t.methods : MethodSet(t)[m] = t.methods[m]
BY DEF MethodSet

LEMMA PairTypeKeeps ==
  ASSUME ImplInv, PairType
  PROVE  ImplInv'
<1> DEFINE of == Paired(Head(toPair))
<1>1. /\ toPair \in Seq(RangeOf(Declared)) /\ toPair # <<>> /\ Len(toPair) <= Len(Declared)
      /\ Len(Declared) \in Nat /\ DOMAIN Declared = 1..Len(Declared)
      /\ toPair' = Tail(toPair)
  BY ImplConstants DEF ImplInv, PairInv, PairType
<1>2. /\ Head(toPair) = toPair[1] /\ Tail(toPair) \in Seq(RangeOf(Declared))
      /\ Len(toPair) \in Nat \ {0} /\ DOMAIN toPair = 1..Len(toPair)
      /\ Len(Tail(toPair)) = Len(toPair) - 1 /\ DOMAIN Tail(toPair) = 1..(Len(toPair) - 1)
      /\ \A j \in 1..(Len(toPair) - 1) : Tail(toPair)[j] = toPair[j + 1]
  BY <1>1, TakeOff
<1>3. PICK k : k = Len(Declared) - Len(toPair) + 1
  OBVIOUS
<1>4. k \in DOMAIN Declared /\ k \in Nat /\ PairedSoFar = k - 1 /\ PairedSoFar' = k
  BY <1>1, <1>2, <1>3 DEF PairedSoFar
<1>5. Head(toPair) = Declared[k]
  <2>1. 1 \in DOMAIN toPair /\ PairedSoFar + 1 = k
    BY <1>2, <1>4
  <2> QED
    BY <1>2, <2>1 DEF ImplInv, PairInv
<1>6. of = Paired(Declared[k])
  BY <1>5
<1>7. /\ implements' = [implements EXCEPT ![k] = InOrder(of)]
      /\ implementedBy' = [i \in DOMAIN Interfaces |->
                             IF i \in of THEN Append(implementedBy[i], k) ELSE implementedBy[i]]
  BY <1>3 DEF PairType
<1> HIDE DEF of
<1>8. of \subseteq DOMAIN Interfaces /\ of \subseteq Nat /\ IsFiniteSet(of)
  BY <1>6, ImplConstants, FS_Subset DEF Paired
<1>9. InOrder(of) \in Seq(Nat) /\ RangeOf(InOrder(of)) = of
  <2>1. InOrder(of) \in Seq(of)
    BY <1>8, InOrderFacts
  <2> QED
    BY <1>8, <2>1, InOrderIsAll, SeqMonotonic
<1>10. implements \in [DOMAIN Declared -> Seq(Nat)] /\ implementedBy \in [DOMAIN Interfaces -> Seq(Nat)]
  BY DEF ImplInv, PairInv
<1>11. implements' \in [DOMAIN Declared -> Seq(Nat)]
  BY <1>4, <1>7, <1>9, <1>10
<1>12. \A i \in DOMAIN Interfaces :
         /\ Append(implementedBy[i], k) \in Seq(Nat)
         /\ RangeOf(Append(implementedBy[i], k)) = RangeOf(implementedBy[i]) \union {k}
  <2>1. SUFFICES ASSUME NEW i \in DOMAIN Interfaces
                 PROVE  /\ Append(implementedBy[i], k) \in Seq(Nat)
                        /\ RangeOf(Append(implementedBy[i], k)) = RangeOf(implementedBy[i]) \union {k}
    OBVIOUS
  <2>2. PICK s \in Seq(Nat) : s = implementedBy[i]
    BY <1>10
  <2>3. /\ Append(s, k) \in Seq(Nat) /\ Len(Append(s, k)) = Len(s) + 1 /\ Len(s) \in Nat
        /\ DOMAIN s = 1..Len(s) /\ DOMAIN Append(s, k) = 1..(Len(s) + 1)
        /\ \A j \in 1..Len(s) : Append(s, k)[j] = s[j]
        /\ Append(s, k)[Len(s) + 1] = k
    BY <1>4, AppendProperties, LenProperties
  <2>4. DOMAIN Append(s, k) = DOMAIN s \union {Len(s) + 1} /\ Len(s) + 1 \notin DOMAIN s
    BY <2>3
  <2> QED
    BY <2>2, <2>3, <2>4 DEF RangeOf
<1>13. implementedBy' \in [DOMAIN Interfaces -> Seq(Nat)]
  BY <1>7, <1>10, <1>12
<1>14. /\ \A j \in 1..k : RangeOf(implements'[j]) = Paired(Declared[j])
       /\ \A i \in DOMAIN Interfaces :
            RangeOf(implementedBy'[i]) = {j \in 1..k : i \in Paired(Declared[j])}
  <2>1. ASSUME NEW j \in 1..k
        PROVE  RangeOf(implements'[j]) = Paired(Declared[j])
    <3>1. CASE j = k
      BY <1>4, <1>6, <1>7, <1>9, <1>10, <3>1
    <3>2. CASE j # k
      <4>1. j \in 1..(k - 1) /\ j \in DOMAIN Declared
        BY <1>1, <1>4, <3>2
      <4>2. implements'[j] = implements[j]
        BY <1>7, <1>10, <3>2, <4>1
      <4> QED
        BY <1>4, <4>1, <4>2 DEF ImplInv, PairInv
    <3> QED
      BY <3>1, <3>2
  <2>2. ASSUME NEW i \in DOMAIN Interfaces
        PROVE  RangeOf(implementedBy'[i]) = {j \in 1..k : i \in Paired(Declared[j])}
    <3>1. RangeOf(implementedBy[i]) = {j \in 1..(k - 1) : i \in Paired(Declared[j])}
      BY <1>4 DEF ImplInv, PairInv
    <3>2. 1..k = (1..(k - 1)) \union {k}
      BY <1>1, <1>4
    <3>3. implementedBy'[i] = IF i \in Paired(Declared[k]) THEN Append(implementedBy[i], k)
                              ELSE implementedBy[i]
      BY <1>6, <1>7
    <3> QED
      BY <1>12, <3>1, <3>2, <3>3
  <2> QED
    BY <2>1, <2>2
<1>15. PairInv'
  <2>1. \A j \in DOMAIN toPair' : toPair'[j] = Declared[k + j]
    <3>1. SUFFICES ASSUME NEW j \in 1..(Len(toPair) - 1) PROVE Tail(toPair)[j] = Declared[k + j]
      BY <1>1, <1>2
    <3>2. j + 1 \in DOMAIN toPair /\ (k - 1) + (j + 1) = k + j
      BY <1>2, <1>4
    <3>3. toPair[j + 1] = Declared[(k - 1) + (j + 1)]
      BY <1>4, <3>2 DEF ImplInv, PairInv
    <3> QED
      BY <1>2, <3>2, <3>3
  <2>2. toPair' \in Seq(RangeOf(Declared)) /\ Len(toPair') <= Len(Declared)
    BY <1>1, <1>2
  <2> QED
    BY <1>4, <1>11, <1>13, <1>14, <2>1, <2>2 DEF PairInv
<1>16. WalkInv' /\ \A N : Layers(N, referred') => LayersInv(N)'
  BY DEF ImplInv, WalkInv, LayersInv, Met, PairType
<1>17. MatchInv'
  BY <1>1 DEF ImplInv, MatchInv, PairType
<1> QED
  BY <1>15, <1>16, <1>17 DEF ImplInv

LEMMA NextReferredKeeps ==
  ASSUME ImplInv, NEW t \in toConsider, NextReferred(t)
  PROVE  ImplInv'
<1>1. /\ work = <<>> /\ work' = <<<<t, 0>>>> /\ toConsider' = toConsider \ {t}
      /\ toPair' = toPair /\ implements' = implements /\ implementedBy' = implementedBy
      /\ referred' = referred /\ seen' = seen /\ external' = external
  BY DEF NextReferred
<1>2. PairInv'
  BY <1>1 DEF ImplInv, PairInv, PairedSoFar
<1>3. t \in referred /\ t \in Nat /\ MaxDepth \in Nat
  BY NestingAssumption DEF ImplInv, WalkInv
<1>4. DOMAIN work = {} /\ DOMAIN work' = {1} /\ work'[1] = <<t, 0>> /\ work' \in Seq(Nat \X Nat)
  BY <1>1, <1>3
<1>5. WalkInv'
  BY <1>1, <1>4 DEF ImplInv, WalkInv
<1>6. ASSUME NEW N, Layers(N, referred)
      PROVE  LayersInv(N)'
  <2>1. LayersInv(N) /\ N[0] = referred
    BY <1>6, LayerFacts DEF ImplInv
  <2>2. \A u : Met(u, N) => Met(u, N)'
    BY <1>1, <1>4 DEF Met
  <2>3. Met(t, N)'
    BY <1>4 DEF Met
  <2>4. work'[1][2] <= MaxDepth + 1 /\ work'[1][1] \in N[work'[1][2]]
    BY <1>3, <1>4, <2>1
  <2> QED
    BY <1>1, <1>4, <2>1, <2>2, <2>3, <2>4 DEF LayersInv
<1>7. MatchInv'
  BY DEF ImplInv, MatchInv, NextReferred
<1> QED
  BY <1>1, <1>2, <1>5, <1>6, <1>7 DEF ImplInv

LEMMA ConsiderKeeps ==
  ASSUME ImplInv, Consider
  PROVE  ImplInv'
<1>1. /\ work # <<>> /\ toConsider' = toConsider /\ referred' = referred
      /\ toPair' = toPair /\ implements' = implements /\ implementedBy' = implementedBy
  BY DEF Consider
<1>2. PairInv'
  BY <1>1 DEF ImplInv, PairInv, PairedSoFar
<1>10. MatchInv'
  BY DEF ImplInv, MatchInv, Consider
<1>3. MaxDepth \in Nat /\ work \in Seq(Nat \X Nat) /\ WalkInv
  BY NestingAssumption DEF ImplInv, WalkInv
<1>4. PICK n \in Nat : /\ n = Len(Tail(work)) /\ DOMAIN Tail(work) = 1..n /\ DOMAIN work = 1..(n + 1)
                       /\ Tail(work) \in Seq(Nat \X Nat)
                       /\ Head(work) = work[1] /\ work[1] \in Nat \X Nat
                       /\ \A k \in 1..n : Tail(work)[k] = work[k + 1]
  <2>1. /\ Head(work) = work[1] /\ work[1] \in Nat \X Nat
        /\ Tail(work) \in Seq(Nat \X Nat)
        /\ Len(work) \in Nat \ {0} /\ DOMAIN work = 1..Len(work)
        /\ Len(Tail(work)) = Len(work) - 1 /\ DOMAIN Tail(work) = 1..(Len(work) - 1)
        /\ \A k \in 1..(Len(work) - 1) : Tail(work)[k] = work[k + 1]
    BY <1>1, <1>3, TakeOff
  <2>2. PICK n \in Nat : n = Len(work) - 1
    <3>1. PICK l \in Nat \ {0} : l = Len(work)
      BY <2>1
    <3>2. l - 1 \in Nat
      OBVIOUS
    <3> QED
      BY <3>1, <3>2
  <2>3. Len(work) = n + 1
    BY <2>1, <2>2
  <2> QED
    BY <2>1, <2>2, <2>3
<1>5. PICK t \in Nat, depth \in Nat : t = Head(work)[1] /\ depth = Head(work)[2]
  BY <1>4
<1>6. \A N : Layers(N, referred) => /\ LayersInv(N) /\ depth <= MaxDepth + 1 /\ t \in N[depth]
  <2>1. 1 \in DOMAIN work
    BY <1>4
  <2> QED
    BY <1>4, <1>5, <2>1 DEF ImplInv, LayersInv
<1>7. \A u : (\E k \in DOMAIN work : work[k][1] = u) => u = t \/ \E k \in 1..n : Tail(work)[k][1] = u
  <2>1. SUFFICES ASSUME NEW k \in 1..(n + 1), k # 1 PROVE k - 1 \in 1..n /\ work[k] = Tail(work)[k - 1]
    BY <1>4, <1>5
  <2>2. k - 1 \in 1..n /\ (k - 1) + 1 = k
    BY <1>4, <2>1
  <2> QED
    BY <1>4, <2>2
<1>8. CASE TooDeep(depth) \/ t \in seen
  <2>1. work' = Tail(work) /\ seen' = seen /\ external' = external
    BY <1>5, <1>8 DEF Consider
  <2>2. WalkInv'
    BY <1>1, <1>4, <2>1 DEF ImplInv, WalkInv
  <2>3. ASSUME NEW N, Layers(N, referred)
        PROVE  LayersInv(N)'
    <3>1. LayersInv(N) /\ depth <= MaxDepth + 1 /\ t \in N[depth]
      BY <1>6, <2>3
    <3>2. \A k \in 1..n : work'[k] = work[k + 1] /\ k + 1 \in DOMAIN work
      BY <1>4, <2>1
    <3>3. DOMAIN work' = 1..n
      BY <1>4, <2>1
    <3>4. t \in seen \/ t \in N[MaxDepth + 1]
      <4>1. TooDeep(depth) => depth = MaxDepth + 1
        BY <1>3, <3>1 DEF TooDeep
      <4> QED
        BY <1>8, <3>1, <4>1
    <3>5. \A u : Met(u, N) => Met(u, N)'
      BY <1>7, <2>1, <3>3, <3>4 DEF Met
    <3>6. \A k \in DOMAIN work' : work'[k][2] <= MaxDepth + 1 /\ work'[k][1] \in N[work'[k][2]]
      BY <3>1, <3>2, <3>3 DEF LayersInv
    <3> QED
      BY <1>1, <2>1, <3>1, <3>5, <3>6 DEF LayersInv
  <2> QED
    BY <1>1, <1>2, <1>10, <2>2, <2>3 DEF ImplInv
<1>9. CASE ~TooDeep(depth) /\ t \notin seen
  <2>1. /\ work' = Below(t, depth) \o Tail(work) /\ seen' = seen \union {t}
        /\ external' = IF t \in DOMAIN Outer /\ DOMAIN Outer[t] # {}
                       THEN external \union {t} ELSE external
    BY <1>5, <1>9 DEF Consider
  <2>2. depth \in 0..MaxDepth
    BY <1>3, <1>9 DEF TooDeep
  <2>3. Parts(t) \in Seq(Nat)
    BY NestingAssumption DEF Parts
  <2>4. PICK m \in Nat : m = Len(Parts(t)) /\ DOMAIN Parts(t) = 1..m /\ \A k \in 1..m : Parts(t)[k] \in Nat
    BY <2>3, LenProperties, ElementOfSeq
  <2>5. PICK b : b = Below(t, depth)
    OBVIOUS
  <2>6. b = [k \in 1..m |-> <<Parts(t)[k], depth + 1>>]
    BY <2>4, <2>5 DEF Below
  <2>7. b \in Seq(Nat \X Nat) /\ Len(b) = m /\ \A k \in 1..m : b[k] = <<Parts(t)[k], depth + 1>>
    <3>1. b \in [1..m -> Nat \X Nat]
      BY <2>4, <2>6
    <3> QED
      BY <2>6, <3>1, IsASeq, LenProperties
  <2>8. /\ work' \in Seq(Nat \X Nat) /\ DOMAIN work' = 1..(m + n)
        /\ \A k \in 1..m : work'[k] = <<Parts(t)[k], depth + 1>>
        /\ \A k \in 1..n : work'[m + k] = work[k + 1]
    <3>1. PICK S : S = Nat \X Nat
      OBVIOUS
    <3>2. PICK w \in Seq(S) : w = Tail(work) /\ Len(w) = n /\ \A k \in 1..n : w[k] = work[k + 1]
      BY <1>4, <3>1
    <3>3. b \in Seq(S) /\ Len(b) = m
      BY <2>7, <3>1
    <3>4. /\ b \o w \in Seq(S) /\ Len(b \o w) = m + n
          /\ \A k \in 1..(m + n) : (b \o w)[k] = IF k <= m THEN b[k] ELSE w[k - m]
      BY <3>2, <3>3, ConcatProperties
    <3>5. DOMAIN (b \o w) = 1..(m + n)
      BY <3>4, LenProperties
    <3>6. \A k \in 1..m : (b \o w)[k] = b[k]
      <4>1. \A k \in 1..m : k \in 1..(m + n) /\ k <= m
        OBVIOUS
      <4> QED
        BY <3>4, <4>1
    <3>7. \A k \in 1..n : (b \o w)[m + k] = w[k]
      <4>1. \A k \in 1..n : m + k \in 1..(m + n) /\ ~(m + k <= m) /\ (m + k) - m = k
        OBVIOUS
      <4> QED
        BY <3>4, <4>1
    <3>8. work' = b \o w
      BY <2>1, <2>5, <3>2
    <3> QED
      BY <2>7, <3>1, <3>2, <3>4, <3>5, <3>6, <3>7, <3>8
  <2>9. WalkInv'
    <3>1. external' = {u \in seen' : u \in DOMAIN Outer /\ DOMAIN Outer[u] # {}}
      BY <1>3, <2>1 DEF WalkInv
    <3> QED
      BY <1>1, <1>3, <2>1, <2>8, <3>1 DEF WalkInv
  <2>10. ASSUME NEW N, Layers(N, referred)
         PROVE  LayersInv(N)'
    <3>1. LayersInv(N) /\ depth <= MaxDepth + 1 /\ t \in N[depth]
      BY <1>6, <2>10
    <3>2. \A k \in DOMAIN work' : work'[k][2] <= MaxDepth + 1 /\ work'[k][1] \in N[work'[k][2]]
      <4>1. SUFFICES ASSUME NEW k \in 1..(m + n)
                     PROVE  work'[k][2] <= MaxDepth + 1 /\ work'[k][1] \in N[work'[k][2]]
        BY <2>8
      <4>2. CASE k \in 1..m
        <5>1. Parts(t)[k] \in RangeOf(Parts(t))
          BY <2>4, <4>2 DEF RangeOf
        <5>2. Parts(t)[k] \in N[depth + 1]
          BY <2>10, <3>1, <5>1, LayerFacts
        <5>3. depth + 1 <= MaxDepth + 1
          BY <1>3, <2>2
        <5> QED
          BY <2>8, <4>2, <5>2, <5>3
      <4>3. CASE k \notin 1..m
        <5>1. PICK j : j = k - m
          OBVIOUS
        <5>2. j \in 1..n /\ k = m + j /\ j + 1 \in 1..(n + 1)
          BY <4>3, <5>1
        <5>3. work'[k] = work[j + 1]
          BY <2>8, <5>2
        <5>4. j + 1 \in DOMAIN work
          BY <1>4, <5>2
        <5> QED
          BY <3>1, <5>3, <5>4 DEF LayersInv
      <4> QED
        BY <4>2, <4>3
    <3>3. \A u \in RangeOf(Parts(t)) : Met(u, N)'
      <4>1. SUFFICES ASSUME NEW u \in RangeOf(Parts(t)) PROVE \E k \in DOMAIN work' : work'[k][1] = u
        BY DEF Met
      <4>2. PICK k \in 1..m : Parts(t)[k] = u
        BY <2>4 DEF RangeOf
      <4>3. k \in DOMAIN work' /\ work'[k][1] = u
        BY <2>8, <4>2
      <4> QED
        BY <4>3
    <3>4. \A u : Met(u, N) => Met(u, N)'
      <4>1. ASSUME NEW k \in 1..n
            PROVE  \E j \in DOMAIN work' : work'[j][1] = Tail(work)[k][1]
        <5>1. m + k \in 1..(m + n)
          OBVIOUS
        <5>2. work'[m + k] = Tail(work)[k]
          BY <1>4, <2>8
        <5> QED
          BY <2>8, <5>1, <5>2
      <4>2. ASSUME NEW u, NEW k \in DOMAIN work, work[k][1] = u
            PROVE  u \in seen' \/ \E j \in DOMAIN work' : work'[j][1] = u
        <5>1. u = t \/ \E j \in 1..n : Tail(work)[j][1] = u
          BY <1>7, <4>2
        <5>2. t \in seen'
          BY <2>1
        <5> QED
          BY <4>1, <5>1, <5>2
      <4> QED
        BY <2>1, <4>2 DEF Met
    <3>5. \A s \in seen' : \E d \in 0..MaxDepth : s \in N[d]
      BY <2>1, <2>2, <3>1 DEF LayersInv
    <3>6. \A u \in referred' \ toConsider' : Met(u, N)'
      BY <1>1, <3>1, <3>4 DEF LayersInv
    <3>7. \A s \in seen' : \A u \in RangeOf(Parts(s)) : Met(u, N)'
      BY <2>1, <3>1, <3>3, <3>4 DEF LayersInv
    <3> QED
      BY <3>2, <3>5, <3>6, <3>7 DEF LayersInv
  <2> QED
    BY <1>1, <1>2, <1>10, <2>9, <2>10 DEF ImplInv
<1> QED
  BY <1>8, <1>9

LEMMA RecordExternalKeeps ==
  ASSUME ImplInv, RecordExternal
  PROVE  ImplInv'
<1> DEFINE found(k) == {t \in external : Satisfies(MethodSet(Declared[k]), Outer[t])}
<1>1. /\ implementsOuter' = [k \in DOMAIN Declared |-> InOrder(found(k))]
      /\ toPair = <<>> /\ toConsider = {} /\ work = <<>>
      /\ toPair' = toPair /\ implements' = implements /\ implementedBy' = implementedBy
      /\ referred' = referred /\ toConsider' = toConsider /\ work' = work /\ seen' = seen
      /\ external' = external
  BY DEF RecordExternal
<1>2. \A k : RangeOf(InOrder(found(k))) = found(k)
  <2>1. SUFFICES ASSUME NEW k PROVE RangeOf(InOrder(found(k))) = found(k)
    OBVIOUS
  <2>2. found(k) \subseteq DOMAIN Outer /\ found(k) \subseteq Nat
    BY DEF ImplInv, WalkInv
  <2>3. PICK F : F = found(k)
    OBVIOUS
  <2>4. IsFiniteSet(F) /\ F \subseteq Nat
    BY <2>2, <2>3, ImplConstants, FS_Subset
  <2>5. RangeOf(InOrder(F)) = F
    BY <2>4, InOrderIsAll
  <2> QED
    BY <2>3, <2>5
<1>3. PairInv'
  BY <1>1 DEF ImplInv, PairInv, PairedSoFar
<1>4. WalkInv' /\ \A N : Layers(N, referred') => LayersInv(N)'
  BY <1>1 DEF ImplInv, WalkInv, LayersInv, Met
<1>5. \A k \in DOMAIN Declared : RangeOf(implementsOuter'[k]) = found(k)
  BY <1>1, <1>2
<1>6. MatchInv'
  BY <1>1, <1>5 DEF MatchInv
<1> QED
  BY <1>3, <1>4, <1>6 DEF ImplInv

LEMMA ImplHolds == ImplSpec => []ImplInv
<1>1. ImplInv /\ [ImplNext]_implVars => ImplInv'
  <2>1. SUFFICES ASSUME ImplInv, [ImplNext]_implVars PROVE ImplInv'
    OBVIOUS
  <2>2. CASE UNCHANGED implVars
    BY <2>1, <2>2 DEF implVars, ImplInv, PairInv, PairedSoFar, MatchInv, WalkInv, LayersInv, Met
  <2> QED
    BY <2>1, <2>2, PairTypeKeeps, NextReferredKeeps, ConsiderKeeps, RecordExternalKeeps DEF ImplNext
<1> QED
  BY <1>1, ImplStart, PTL DEF ImplSpec

(* At the end an interface has been looked into, or it is nested beyond    *)
(* the limit: at the least depth where that fails what it is part of has.  *)
LEMMA InReachIsSeen ==
  ASSUME NEW N, Layers(N, referred), LayersInv(N), toConsider = {}, work = <<>>,
         NEW d \in Nat, NEW t \in N[d]
  PROVE  t \in seen \/ \E e \in (MaxDepth + 1)..(MaxDepth + 1 + d) : t \in N[e]
<1> DEFINE beyond(u, c) == \E e \in (MaxDepth + 1)..(MaxDepth + 1 + c) : u \in N[e]
           Missed == {c \in Nat : \E u \in N[c] : u \notin seen /\ ~beyond(u, c)}
<1> SUFFICES ASSUME Missed # {} PROVE FALSE
  OBVIOUS
<1>1. PICK c \in Missed : \A b \in Missed : c <= b
  <2>1. Missed \subseteq Nat
    OBVIOUS
  <2> HIDE DEF Missed
  <2> QED
    BY <2>1, LeastHeight
<1>2. PICK u \in N[c] : u \notin seen /\ ~beyond(u, c)
  BY <1>1
<1>3. c \in Nat /\ MaxDepth \in Nat
  BY <1>1, NestingAssumption
<1>4. \A v : Met(v, N) => v \in seen \/ v \in N[MaxDepth + 1]
  BY DEF Met
<1>5. u \notin N[MaxDepth + 1]
  <2>1. MaxDepth + 1 \in (MaxDepth + 1)..(MaxDepth + 1 + c)
    BY <1>3
  <2> QED
    BY <1>2, <2>1
<1>6. c # 0
  BY <1>2, <1>4, <1>5, LayerFacts DEF LayersInv
<1>7. PICK b \in Nat : c = b + 1
  BY <1>3, <1>6
<1>8. PICK s \in N[b] : u \in RangeOf(Parts(s))
  BY <1>2, <1>7, LayerFacts
<1>9. s \notin seen
  BY <1>2, <1>4, <1>5, <1>8 DEF LayersInv
<1>10. b \notin Missed
  BY <1>1, <1>7
<1>11. PICK e \in (MaxDepth + 1)..(MaxDepth + 1 + b) : s \in N[e]
  BY <1>8, <1>9, <1>10
<1>12. e \in Nat /\ e + 1 \in (MaxDepth + 1)..(MaxDepth + 1 + c)
  BY <1>3, <1>7
<1>13. u \in N[e + 1]
  BY <1>8, <1>11, <1>12, LayerFacts
<1> QED
  BY <1>2, <1>12, <1>13

(* For any types and interfaces, in whatever order those that are referred *)
(* to are considered: a struct and an interface of analysed packages are   *)
(* paired on both sides or on neither; where methods are written alike, a  *)
(* struct that declares what the interface asks for is paired, and what is *)
(* paired with an interface that embeds none implements it.  A type is     *)
(* recorded with an interface from elsewhere only if it implements it and  *)
(* that is nested within the limit, and surely if it is not nested beyond  *)
(* also (metadata.go:2008-2209).                                           *)
THEOREM ImplementationsFound == ImplSpec => []ImplementationsAreFound
<1>1. ASSUME ImplInv
      PROVE  PairsAreRight
  <2>1. SUFFICES ASSUME toPair = <<>>, NEW k \in DOMAIN Declared, NEW i \in DOMAIN Interfaces,
                        NEW s, s = Declared[k], NEW n, n = Interfaces[i]
                 PROVE  /\ i \in RangeOf(implements[k]) <=> k \in RangeOf(implementedBy[i])
                        /\ WrittenAlike(s, n) =>
                             /\ s.isStruct /\ DOMAIN n.methods # {} /\ Satisfies(s.methods, MethodSet(n))
                                  => i \in RangeOf(implements[k])
                             /\ i \in RangeOf(implements[k]) /\ DOMAIN n.inherited = {}
                                  => Satisfies(MethodSet(s), MethodSet(n))
    BY DEF PairsAreRight
  <2>2. PairedSoFar = Len(Declared) /\ k \in 1..PairedSoFar
    BY <2>1, ImplConstants DEF PairedSoFar
  <2>3. /\ i \in RangeOf(implements[k]) <=> i \in Paired(s)
        /\ k \in RangeOf(implementedBy[i]) <=> i \in Paired(s)
    BY <1>1, <2>1, <2>2 DEF ImplInv, PairInv
  <2>4. i \in Paired(s) <=> s.isStruct /\ implementsInterface(s, n)
    BY <2>1 DEF Paired
  <2>5. ASSUME WrittenAlike(s, n), s.isStruct, DOMAIN n.methods # {},
               Satisfies(s.methods, MethodSet(n))
        PROVE  i \in Paired(s)
    <3>1. Satisfies(s.methods, n.methods)
      BY <2>5, DeclaredFirst, Zenon DEF Satisfies
    <3> QED
      BY <2>4, <2>5, <3>1, PairedIsDeclared
  <2>6. ASSUME WrittenAlike(s, n), i \in Paired(s), DOMAIN n.inherited = {}
        PROVE  Satisfies(MethodSet(s), MethodSet(n))
    <3>1. Satisfies(s.methods, n.methods)
      BY <2>4, <2>6, PairedIsDeclared
    <3>2. DOMAIN MethodSet(n) = DOMAIN n.methods
      BY <2>6, DeclaredFirst
    <3> QED
      BY <3>1, <3>2, DeclaredFirst, Zenon DEF Satisfies
  <2> QED
    BY <2>3, <2>5, <2>6
<1>2. ASSUME ImplInv
      PROVE  ExternalsAreNear
  <2>1. SUFFICES ASSUME matched, NEW k \in DOMAIN Declared, NEW t \in DOMAIN Outer,
                        NEW holds, holds = (DOMAIN Outer[t] # {} /\ Satisfies(MethodSet(Declared[k]), Outer[t]))
                 PROVE  /\ t \in RangeOf(implementsOuter[k]) => holds /\ NestedWithin(t)
                        /\ holds /\ NestedWithin(t) /\ ~NestedBeyond(t)
                             => t \in RangeOf(implementsOuter[k])
    BY DEF ExternalsAreNear
  <2>2. PICK N : N = Nested
    OBVIOUS
  <2>3. Layers(N, referred) /\ LayersInv(N)
    BY <1>2, <2>2, NestedLayers DEF ImplInv
  <2>4. /\ toConsider = {} /\ work = <<>>
        /\ t \in RangeOf(implementsOuter[k]) <=>
             t \in external /\ Satisfies(MethodSet(Declared[k]), Outer[t])
    BY <1>2, <2>1 DEF ImplInv, MatchInv
  <2>5. t \in external <=> t \in seen /\ DOMAIN Outer[t] # {}
    BY <1>2, <2>1 DEF ImplInv, WalkInv
  <2>6. t \in seen => NestedWithin(t)
    BY <2>2, <2>3 DEF LayersInv, NestedWithin
  <2>7. ASSUME NestedWithin(t), t \notin seen
        PROVE  NestedBeyond(t)
    <3>1. PICK d \in 0..MaxDepth : t \in N[d]
      BY <2>2, <2>7 DEF NestedWithin
    <3>2. MaxDepth \in Nat /\ d \in Nat
      BY NestingAssumption
    <3>3. PICK e \in (MaxDepth + 1)..(MaxDepth + 1 + d) : t \in N[e]
      BY <2>3, <2>4, <2>7, <3>1, <3>2, InReachIsSeen
    <3>4. e \in (MaxDepth + 1)..(2 * MaxDepth + 1)
      BY <3>1, <3>2
    <3> QED
      BY <2>2, <3>3, <3>4 DEF NestedBeyond
  <2> QED
    BY <2>1, <2>4, <2>5, <2>6, <2>7
<1>3. ImplInv => ImplementationsAreFound
  BY <1>1, <1>2 DEF ImplementationsAreFound
<1> QED
  BY <1>3, ImplHolds, PTL

-----------------------------------------------------------------------------
(* What a trace may do.                                                    *)

Names == {<<>>} \union (Vars \X {PkgOf[f] : f \in Funcs})

(* An outcome ends the trace or leads to a key. *)
Leads(o) ==
  /\ o.ends \in BOOLEAN
  /\ ~o.ends => o.at \in Keys /\ o.named \in Names

LEMMA EndsAndGoesTo ==
  /\ \A a, kept : /\ Ends(a, kept).ends /\ Ends(a, kept).answer = a /\ Ends(a, kept).kept = kept
                  /\ Leads(Ends(a, kept))
  /\ \A k \in Keys, n \in Names : Leads(GoesTo(k, n))
<1>1. \A a, kept : /\ Ends(a, kept).ends /\ Ends(a, kept).answer = a /\ Ends(a, kept).kept = kept
                   /\ Leads(Ends(a, kept))
  BY DEF Ends, Leads
<1>2. \A k \in Keys, n \in Names : Leads(GoesTo(k, n))
  BY DEF GoesTo, Leads
<1> QED
  BY <1>1, <1>2

LEMMA CallerLeads ==
  ASSUME program \in Programs, NEW k \in Keys, NEW n \in 0..Len(program.calls), NEW o \in ByCaller(k, n)
  PROVE  Leads(o)
<1> DEFINE to == {i \in 1..n : program.calls[i].callee = k[1]}
           i == CHOOSE j \in to : \A l \in to : j <= l
           first == program.calls[i]
<1>1. Len(program.calls) \in Nat
  BY ProgramsAssumption
<1>2. CASE to # {} /\ k[2] \in DOMAIN first.types
  <2>1. o = Ends(Origin(k, first.types[k[2]], first.caller), TRUE)
    BY <1>2 DEF ByCaller
  <2> QED
    BY <2>1, EndsAndGoesTo, Zenon
<1>3. CASE to # {} /\ k[2] \in DOMAIN first.args \ DOMAIN first.types
  <2>1. to \subseteq Nat
    OBVIOUS
  <2>2. \E j \in to : \A l \in to : j <= l
    <3> HIDE DEF to
    <3> QED
      BY <1>3, <2>1, LeastHeight
  <2>3. i \in to
    <3> HIDE DEF to
    <3> QED
      BY <2>2
  <2>4. i \in 1..Len(program.calls)
    BY <1>1, <2>3
  <2> HIDE DEF i
  <2>5. first.caller \in Funcs /\ first.args[k[2]] \in Vars
    BY <1>3, <2>4, ProgramsAssumption
  <2>6. o = GoesTo(<<first.caller, first.args[k[2]]>>, <<>>)
    BY <1>3 DEF ByCaller, i
  <2> QED
    BY <2>5, <2>6, EndsAndGoesTo DEF Keys, Names
<1>4. CASE ~(to # {} /\ k[2] \in DOMAIN first.types)
           /\ ~(to # {} /\ k[2] \in DOMAIN first.args \ DOMAIN first.types)
  BY <1>4 DEF ByCaller
<1> QED
  BY <1>2, <1>3, <1>4

LEMMA OtherwiseLeads ==
  ASSUME program \in Programs, NEW k \in Keys, NEW n \in 0..Len(program.calls), NEW pkgs,
         NEW o \in Otherwise(k, n, pkgs)
  PROVE  Leads(o)
<1>1. \A u \in ByVariable(k) \union FallBack(k) : Leads(u)
  <2>1. \A u \in ByVariable(k) : u = Ends(Origin(k, "declared", k[1]), TRUE)
    BY DEF ByVariable
  <2>2. \A u \in FallBack(k) : u = Ends(Itself(k), TRUE)
    BY DEF FallBack
  <2>3. \A a, kept : Leads(Ends(a, kept))
    BY EndsAndGoesTo, Zenon
  <2> QED
    BY <2>1, <2>2, <2>3
<1>2. o \in ByCaller(k, n) \union ByVariable(k) \union FallBack(k)
  BY DEF Otherwise, OrElse
<1> QED
  BY <1>1, <1>2, CallerLeads

(* A variable has one last assignment. *)
LEMMA LastFacts ==
  ASSUME program \in Programs, NEW k \in Keys
  PROVE  /\ \A a, b \in Last(k) : a = b
         /\ \A a \in Last(k) : /\ a.kind = "alias" => a.of \in Vars
                               /\ a.kind = "call" => a.of \in Funcs /\ a.ret \in Nat \ {0}
<1>1. k[1] \in Funcs
  BY DEF Keys
<1>2. \A a \in Last(k) : a = program.assigns[k[1]][k[2]] /\ k[2] \in DOMAIN program.assigns[k[1]]
  BY DEF Last, Named
<1> QED
  BY <1>1, <1>2, ProgramsAssumption

LEMMA ResultLeads ==
  ASSUME program \in Programs, NEW k \in Keys, NEW a, a.of \in Funcs, a.ret \in Nat \ {0},
         NEW d \in Decls, HasResult(d, a.ret)
  PROVE  Leads(ByResult(k, a, d))
<1>1. Len(program.returns[d]) >= a.ret /\ d.name \in Funcs
  BY DeclsAssumption DEF HasResult
<1>2. CASE program.returns[d][a.ret] = Literal
  BY <1>2, EndsAndGoesTo DEF ByResult
<1>3. CASE program.returns[d][a.ret] # Literal
  <2>1. a.ret \in 1..Len(program.returns[d])
    BY DEF HasResult
  <2>2. program.returns[d][a.ret] \in Vars
    BY <1>3, <2>1, ProgramsAssumption
  <2>3. ByResult(k, a, d) = GoesTo(<<d.name, program.returns[d][a.ret]>>,
                                   <<program.returns[d][a.ret], PkgOf[a.of]>>)
    BY <1>3 DEF ByResult
  <2> QED
    BY <1>1, <2>2, <2>3, EndsAndGoesTo DEF Keys, Names
<1> QED
  BY <1>2, <1>3

LEMMA CalleeFacts ==
  ASSUME NEW a, NEW file, NEW m \in Decls \union {NoMethod}
  PROVE  \A d \in Callee(a, file, m) : d \in Decls /\ HasResult(d, a.ret)
  BY DEF Callee, Named

(* What comes of an assignment. *)
OfAssignment(k, pkgs, file, m, a) ==
  CASE a.kind = "alias" /\ a.of # k[2] -> {GoesTo(<<k[1], a.of>>, <<>>)}
    [] a.kind = "call" /\ PkgOf[a.of] \in pkgs /\ Callee(a, file, m) # {} ->
         {ByResult(k, a, d) : d \in Callee(a, file, m)}
    [] OTHER -> {Ends(Origin(k, "assigned", k[1]), TRUE)}

LEMMA ByAssignmentFacts ==
  ASSUME NEW k, NEW pkgs, NEW file, NEW m
  PROVE  ByAssignment(k, pkgs, file, m) = UNION {OfAssignment(k, pkgs, file, m, a) : a \in Last(k)}
  BY Zenon DEF ByAssignment, OfAssignment

LEMMA AssignmentLeads ==
  ASSUME program \in Programs, NEW k \in Keys, NEW pkgs, NEW file, NEW m \in Decls \union {NoMethod},
         NEW o \in ByAssignment(k, pkgs, file, m)
  PROVE  Leads(o)
<1>1. PICK a \in Last(k) : o \in OfAssignment(k, pkgs, file, m, a)
  BY ByAssignmentFacts
<1>2. /\ a.kind = "alias" => a.of \in Vars
      /\ a.kind = "call" => a.of \in Funcs /\ a.ret \in Nat \ {0}
  BY LastFacts
<1>3. CASE a.kind = "alias" /\ a.of # k[2]
  <2>1. o = GoesTo(<<k[1], a.of>>, <<>>)
    BY <1>1, <1>3 DEF OfAssignment
  <2>2. <<k[1], a.of>> \in Keys /\ <<>> \in Names
    BY <1>2, <1>3 DEF Keys, Names
  <2> QED
    BY <2>1, <2>2, EndsAndGoesTo
<1>4. CASE a.kind = "call" /\ PkgOf[a.of] \in pkgs /\ Callee(a, file, m) # {}
  <2>1. PICK d \in Callee(a, file, m) : o = ByResult(k, a, d)
    <3>1. OfAssignment(k, pkgs, file, m, a) = {ByResult(k, a, d) : d \in Callee(a, file, m)}
      BY <1>4 DEF OfAssignment
    <3> QED
      BY <1>1, <3>1, Zenon
  <2>2. d \in Decls /\ HasResult(d, a.ret)
    BY CalleeFacts
  <2> QED
    BY <1>2, <1>4, <2>1, <2>2, ResultLeads
<1>5. CASE /\ ~(a.kind = "alias" /\ a.of # k[2])
           /\ ~(a.kind = "call" /\ PkgOf[a.of] \in pkgs /\ Callee(a, file, m) # {})
  <2>1. o = Ends(Origin(k, "assigned", k[1]), TRUE)
    <3>1. OfAssignment(k, pkgs, file, m, a) = {Ends(Origin(k, "assigned", k[1]), TRUE)}
      BY <1>5 DEF OfAssignment
    <3> QED
      BY <1>1, <3>1, Zenon
  <2> QED
    BY <2>1, EndsAndGoesTo
<1> QED
  BY <1>3, <1>4, <1>5

LEMMA OutcomesLead ==
  ASSUME program \in Programs, NEW k \in Keys, NEW o \in Outcomes(k)
  PROVE  Leads(o)
<1>1. Len(program.calls) \in Nat /\ Len(program.calls) \in 0..Len(program.calls)
  BY ProgramsAssumption
<1>2. CASE o \in Otherwise(k, Len(program.calls), FilePackages)
  BY <1>1, <1>2, OtherwiseLeads
<1>3. CASE o \in Assigned(k)
  <2>1. PICK file \in WalkedFirst(k) : \E m \in Methods(k, file) : o \in ByAssignment(k, FilePackages, file, m)
    BY <1>3 DEF Assigned
  <2>2. PICK m \in Methods(k, file) : o \in ByAssignment(k, FilePackages, file, m)
    BY <2>1
  <2>3. m \in Decls \union {NoMethod}
    BY DEF Methods, MethodsIn, OrElse, Named
  <2> QED
    BY <2>2, <2>3, AssignmentLeads
<1> QED
  BY <1>2, <1>3 DEF Outcomes

(* No cached method has another answer than one looked up: of a name that  *)
(* is only a method's in that file, it could have been found by walking    *)
(* the file first.                                                         *)
MethodsAreOfTheirNames ==
  \A f \in DOMAIN methodLookupCache :
    \E file \in DOMAIN Pkg : Pkg[file] = PkgOf[f] /\ methodLookupCache[f] \in MethodsIn(file, f)

(* What is called is in the package of the file that is walked first.      *)
LEMMA WalkedFacts ==
  ASSUME program \in Programs, NEW k \in Keys, NEW file \in WalkedFirst(k),
         NEW a \in Called(k, FilePackages)
  PROVE  file \in DOMAIN Pkg /\ Pkg[file] = PkgOf[a.of]
<1> DEFINE its == {x \in DOMAIN Pkg : \A b \in Last(k) : b.kind = "call" => Pkg[x] = PkgOf[b.of]}
<1>1. a \in Last(k) /\ a.kind = "call" /\ \A b \in Last(k) : b = a
  BY LastFacts DEF Called
<1>2. PICK f1 \in DOMAIN Pkg : Pkg[f1] = PkgOf[a.of]
  BY DEF Called, FilePackages
<1>3. f1 \in its
  BY <1>1, <1>2
<1>4. file \in its
  BY <1>3 DEF WalkedFirst, OrElse
<1> QED
  BY <1>1, <1>4

LEMMA LookupFacts ==
  ASSUME MethodsAreOfTheirNames, program \in Programs, recorded \subseteq FilePackages,
         NEW k \in Keys, NEW file \in WalkedFirst(k), NEW m,
         Lookup(k, file, m)
  PROVE  \/ LooksUp(k, recorded, file) = {} /\ m = NoMethod
         \/ \E a \in LooksUp(k, recorded, file), f1 \in DOMAIN Pkg :
              Pkg[f1] = PkgOf[a.of] /\ m \in MethodsIn(f1, a.of)
<1>1. CASE LooksUp(k, recorded, file) = {}
  BY <1>1 DEF Lookup
<1>2. CASE LooksUp(k, recorded, file) # {}
  <2>1. PICK a \in LooksUp(k, recorded, file) :
          IF a.of \in DOMAIN methodLookupCache
          THEN m = methodLookupCache[a.of] /\ UNCHANGED methodLookupCache
          ELSE m \in MethodsIn(file, a.of)
    BY <1>2 DEF Lookup
  <2>2. file \in DOMAIN Pkg /\ Pkg[file] = PkgOf[a.of]
    BY WalkedFacts DEF LooksUp, Called
  <2>3. \E f1 \in DOMAIN Pkg : Pkg[f1] = PkgOf[a.of] /\ m \in MethodsIn(f1, a.of)
    BY <2>1, <2>2 DEF MethodsAreOfTheirNames
  <2> QED
    BY <2>3
<1> QED
  BY <1>1, <1>2

LEMMA LookupKeeps ==
  ASSUME MethodsAreOfTheirNames, program \in Programs, recorded \subseteq FilePackages,
         NEW k \in Keys, NEW file \in WalkedFirst(k), NEW m,
         Lookup(k, file, m)
  PROVE  MethodsAreOfTheirNames'
<1>1. CASE UNCHANGED methodLookupCache
  BY <1>1 DEF MethodsAreOfTheirNames
<1>2. ASSUME NEW a \in LooksUp(k, recorded, file), m \in MethodsIn(file, a.of),
             methodLookupCache' = With(methodLookupCache, a.of, m)
      PROVE  MethodsAreOfTheirNames'
  <2>1. file \in DOMAIN Pkg /\ Pkg[file] = PkgOf[a.of]
    BY WalkedFacts DEF LooksUp, Called
  <2>2. /\ DOMAIN methodLookupCache' = {a.of} \union DOMAIN methodLookupCache
        /\ \A f \in DOMAIN methodLookupCache' :
             methodLookupCache'[f] = IF f = a.of THEN m ELSE methodLookupCache[f]
    BY <1>2 DEF With
  <2> QED
    BY <1>2, <2>1, <2>2 DEF MethodsAreOfTheirNames
<1> QED
  BY <1>1, <1>2 DEF Lookup

LEMMA LookupIsTraced ==
  ASSUME NamesApart, MethodsAreOfTheirNames, program \in Programs, recorded = FilePackages,
         NEW k \in Keys, NEW file \in WalkedFirst(k), NEW m \in Decls \union {NoMethod},
         Lookup(k, file, m), NEW o \in ByAssignment(k, FilePackages, file, m)
  PROVE  o \in Assigned(k)
<1>1. PICK a \in Last(k) : o \in OfAssignment(k, FilePackages, file, m, a)
  BY ByAssignmentFacts
<1>2. \A b \in Last(k) : b = a
  BY LastFacts
<1>3. \A f1 \in WalkedFirst(k) : \A n \in Methods(k, f1) :
        o \in OfAssignment(k, FilePackages, f1, n, a) => o \in Assigned(k)
  <2>1. SUFFICES ASSUME NEW f1 \in WalkedFirst(k), NEW n \in Methods(k, f1),
                        o \in OfAssignment(k, FilePackages, f1, n, a)
                 PROVE  o \in Assigned(k)
    OBVIOUS
  <2>2. o \in ByAssignment(k, FilePackages, f1, n)
    BY <2>1, ByAssignmentFacts
  <2> QED
    BY <2>2 DEF Assigned
<1>4. \A f1 : \E n : n \in Methods(k, f1)
  <2>1. \A f1, f : MethodsIn(f1, f) # {}
    BY DEF MethodsIn, OrElse
  <2> QED
    BY <2>1 DEF Methods, OrElse
<1>5. CASE ~(a.kind = "call" /\ PkgOf[a.of] \in FilePackages)
  <2>1. PICK n \in Methods(k, file) : TRUE
    BY <1>4
  <2>2. OfAssignment(k, FilePackages, file, n, a) = OfAssignment(k, FilePackages, file, m, a)
    <3>1. CASE a.kind = "alias" /\ a.of # k[2]
      BY <3>1 DEF OfAssignment
    <3>2. CASE ~(a.kind = "alias" /\ a.of # k[2])
      BY <1>5, <3>2 DEF OfAssignment
    <3> QED
      BY <3>1, <3>2
  <2> QED
    BY <1>1, <1>3, <2>2
<1>6. CASE a.kind = "call" /\ PkgOf[a.of] \in FilePackages
  <2>1. \A f1 : Methods(k, f1) = MethodsIn(f1, a.of)
    <3>1. Called(k, FilePackages) = {a}
      BY <1>2, <1>6 DEF Called
    <3>2. \A f1 : MethodsIn(f1, a.of) # {}
      BY DEF MethodsIn, OrElse
    <3> QED
      BY <3>1, <3>2 DEF Methods, OrElse
  <2>2. \A f1 \in DOMAIN Pkg : Pkg[f1] = PkgOf[a.of] => f1 \in WalkedFirst(k)
    BY <1>2, <1>6 DEF WalkedFirst, OrElse
  <2>3. ~(a.kind = "alias" /\ a.of # k[2])
    BY <1>6
  <2> DEFINE fns == {d \in Named(a.of, FALSE) : HasResult(d, a.ret)}
             inFile(f1) == {d \in fns : d.file = f1}
  <2>4. \A f1, n : Callee(a, f1, n) = IF inFile(f1) # {} THEN inFile(f1)
                                      ELSE IF n # NoMethod /\ HasResult(n, a.ret) THEN {n} ELSE fns
    BY Zenon DEF Callee
  <2>5. LooksUp(k, FilePackages, file) = IF inFile(file) = {} THEN {a} ELSE {}
    <3>1. LooksUp(k, FilePackages, file) = {b \in {a} : \A d \in Named(b.of, FALSE) :
                                                      d.file = file => ~HasResult(d, b.ret)}
      BY <1>2, <1>6 DEF LooksUp, Called
    <3> QED
      BY <3>1
  <2>6. CASE Callee(a, file, m) # {}
    <3>1. PICK d \in Callee(a, file, m) : o = ByResult(k, a, d)
      <4>1. OfAssignment(k, FilePackages, file, m, a) = {ByResult(k, a, d) : d \in Callee(a, file, m)}
        BY <1>6, <2>6 DEF OfAssignment
      <4> QED
        BY <1>1, <4>1, Zenon
    <3>2. ASSUME NEW f1 \in WalkedFirst(k), NEW n \in Methods(k, f1), d \in Callee(a, f1, n)
          PROVE  o \in Assigned(k)
      <4>1. OfAssignment(k, FilePackages, f1, n, a) = {ByResult(k, a, e) : e \in Callee(a, f1, n)}
        BY <1>6, <3>2 DEF OfAssignment
      <4> QED
        BY <1>3, <3>1, <3>2, <4>1, Zenon
    <3>3. CASE d \in fns
      <4>1. d.file \in DOMAIN Pkg /\ Pkg[d.file] = PkgOf[a.of]
        BY <3>3, DeclsAssumption DEF Named
      <4>2. PICK n \in Methods(k, d.file) : TRUE
        BY <1>4
      <4>3. d \in inFile(d.file)
        BY <3>3
      <4>4. d \in Callee(a, d.file, n)
        <5> HIDE DEF fns, inFile
        <5> QED
          BY <2>4, <4>3
      <4> QED
        BY <2>2, <3>2, <4>1, <4>4
    <3>4. CASE d \notin fns
      <4>1. m # NoMethod /\ HasResult(m, a.ret) /\ d = m /\ inFile(file) = {}
        <5>1. inFile(file) \subseteq fns
          OBVIOUS
        <5> HIDE DEF fns, inFile
        <5> QED
          BY <2>4, <3>1, <3>4, <5>1
      <4>2. PICK f1 \in DOMAIN Pkg : Pkg[f1] = PkgOf[a.of] /\ m \in MethodsIn(f1, a.of)
        BY <2>5, <4>1, LookupFacts
      <4>3. m \in Decls /\ m.name = a.of /\ m.isMethod = TRUE /\ m.file = f1
        BY <4>1, <4>2 DEF MethodsIn, OrElse, Named
      <4>4. inFile(f1) = {}
        BY <4>3 DEF NamesApart, Named
      <4>5. d \in Callee(a, f1, m)
        <5> HIDE DEF fns, inFile
        <5> QED
          BY <2>4, <4>1, <4>4
      <4> QED
        BY <2>1, <2>2, <3>2, <4>2, <4>5
    <3> QED
      BY <3>3, <3>4
  <2>7. CASE Callee(a, file, m) = {}
    <3>1. inFile(file) = {} /\ fns = {} /\ ~(m # NoMethod /\ HasResult(m, a.ret))
      <4>1. inFile(file) # {} => Callee(a, file, m) # {}
        BY <2>4, Zenon
      <4> HIDE DEF fns, inFile
      <4> QED
        BY <2>4, <2>7, <4>1
    <3>2. PICK f1 \in DOMAIN Pkg : Pkg[f1] = PkgOf[a.of] /\ m \in MethodsIn(f1, a.of)
      BY <2>5, <3>1, LookupFacts
    <3>3. inFile(f1) = {}
      BY <3>1
    <3>4. Callee(a, f1, m) = {}
      <4> HIDE DEF fns, inFile
      <4> QED
        BY <2>4, <3>1, <3>3
    <3>5. OfAssignment(k, FilePackages, f1, m, a) = OfAssignment(k, FilePackages, file, m, a)
      BY <2>3, <2>7, <3>4 DEF OfAssignment
    <3> QED
      BY <1>1, <1>3, <2>1, <2>2, <3>2, <3>5
  <2> QED
    BY <2>6, <2>7
<1> QED
  BY <1>5, <1>6

-----------------------------------------------------------------------------
(* What a trace without caches can answer.                                 *)

Stops(k) == {o.answer : o \in {u \in Outcomes(k) : u.ends}}

(* The answers where an outcome of l leads, renamed. *)
LedTo(f, l, o) == {Renamed(a, o.named) : a \in f[Look(o.at, l.visited \union {l.at})]}

(* What is answered at l, from the answers f where the outcomes lead. *)
AnswersFrom(f, l) ==
  IF l.at \in l.visited THEN {Itself(l.at)}
  ELSE IF l.at \in early THEN {traceVariableCache[l.at]}
  ELSE Stops(l.at)
         \union UNION {LedTo(f, l, o) : o \in {u \in Outcomes(l.at) : ~u.ends}}

(* The equation that Traced is defined by. *)
TraceSolves(f) ==
  f = [l \in Looks |->
         IF l.at \in l.visited THEN {Itself(l.at)}
         ELSE IF l.at \in early THEN {traceVariableCache[l.at]}
         ELSE {o.answer : o \in {u \in Outcomes(l.at) : u.ends}}
                \union UNION {{Renamed(a, o.named) : a \in f[Look(o.at, l.visited \union {l.at})]} :
                                o \in {u \in Outcomes(l.at) : ~u.ends}}]

LEMMA TraceSolvesFrom ==
  \A f : TraceSolves(f) <=> f = [l \in Looks |-> AnswersFrom(f, l)]
  BY Zenon DEF TraceSolves, AnswersFrom, Stops, LedTo

LEMMA LookFacts ==
  /\ \A k \in Keys, ks \in SUBSET Keys : /\ Look(k, ks) \in Looks
                                         /\ Look(k, ks).at = k /\ Look(k, ks).visited = ks
  /\ \A l \in Looks : l.at \in Keys /\ l.visited \subseteq Keys
  BY DEF Look, Looks

(* The last renaming counts. *)
LEMMA RenamedTwice ==
  ASSUME NEW a, NEW n, NEW m
  PROVE  /\ Renamed(a, <<>>) = a
         /\ Renamed(Renamed(a, n), m) = IF m = <<>> THEN Renamed(a, n) ELSE Renamed(a, m)
<1>1. Renamed(a, <<>>) = a /\ (m = <<>> => Renamed(Renamed(a, n), m) = Renamed(a, n))
  BY DEF Renamed
<1>2. ASSUME m # <<>>
      PROVE  Renamed(Renamed(a, n), m) = Renamed(a, m)
  <2>1. CASE n = <<>>
    BY <2>1 DEF Renamed
  <2>2. CASE n # <<>>
    <3>1. PICK v, p, w, q : v = n[1] /\ p = n[2] /\ w = m[1] /\ q = m[2]
      OBVIOUS
    <3>2. [[a EXCEPT !.var = v, !.pkg = p] EXCEPT !.var = w, !.pkg = q] = [a EXCEPT !.var = w, !.pkg = q]
      OBVIOUS
    <3>3. /\ Renamed(a, n) = [a EXCEPT !.var = v, !.pkg = p]
          /\ Renamed(a, m) = [a EXCEPT !.var = w, !.pkg = q]
          /\ \A b : Renamed(b, m) = [b EXCEPT !.var = w, !.pkg = q]
      BY <1>2, <2>2, <3>1 DEF Renamed
    <3> QED
      BY <3>2, <3>3
  <2> QED
    BY <2>1, <2>2
<1> QED
  BY <1>1, <1>2

LEMMA AnswersFromCases ==
  ASSUME NEW f, NEW l
  PROVE  /\ l.at \in l.visited => AnswersFrom(f, l) = {Itself(l.at)}
         /\ l.at \notin l.visited /\ l.at \in early => AnswersFrom(f, l) = {traceVariableCache[l.at]}
         /\ l.at \notin l.visited /\ l.at \notin early =>
              \A a : a \in AnswersFrom(f, l) <=>
                       \/ a \in Stops(l.at)
                       \/ \E o \in Outcomes(l.at) : ~o.ends /\ a \in LedTo(f, l, o)
<1>1. l.at \in l.visited => AnswersFrom(f, l) = {Itself(l.at)}
  BY DEF AnswersFrom
<1>2. l.at \notin l.visited /\ l.at \in early => AnswersFrom(f, l) = {traceVariableCache[l.at]}
  BY DEF AnswersFrom
<1>3. ASSUME l.at \notin l.visited, l.at \notin early
      PROVE  \A a : a \in AnswersFrom(f, l) <=>
                       \/ a \in Stops(l.at)
                       \/ \E o \in Outcomes(l.at) : ~o.ends /\ a \in LedTo(f, l, o)
  <2>1. AnswersFrom(f, l) = Stops(l.at) \union UNION {LedTo(f, l, o) : o \in {u \in Outcomes(l.at) : ~u.ends}}
    BY <1>3, Zenon DEF AnswersFrom
  <2> QED
    BY <2>1
<1> QED
  BY <1>1, <1>2, <1>3

LEMMA AnswersGrow ==
  ASSUME program \in Programs, NEW l \in Looks, NEW f, NEW g, \A x \in Looks : f[x] \subseteq g[x]
  PROVE  AnswersFrom(f, l) \subseteq AnswersFrom(g, l)
<1>1. \A o \in Outcomes(l.at) : ~o.ends => Look(o.at, l.visited \union {l.at}) \in Looks
  <2>1. SUFFICES ASSUME NEW o \in Outcomes(l.at), ~o.ends
                 PROVE  Look(o.at, l.visited \union {l.at}) \in Looks
    OBVIOUS
  <2>2. l.at \in Keys /\ l.visited \union {l.at} \in SUBSET Keys
    BY LookFacts
  <2>3. o.at \in Keys
    BY <2>1, <2>2, OutcomesLead DEF Leads
  <2> QED
    BY <2>2, <2>3, LookFacts
<1>2. CASE l.at \in l.visited \/ l.at \in early
  BY <1>2, AnswersFromCases
<1>3. CASE l.at \notin l.visited /\ l.at \notin early
  <2>1. SUFFICES ASSUME NEW a, a \in AnswersFrom(f, l)
                 PROVE  a \in AnswersFrom(g, l)
    OBVIOUS
  <2>2. CASE a \in Stops(l.at)
    BY <1>3, <2>2, AnswersFromCases
  <2>3. ASSUME NEW o \in Outcomes(l.at), ~o.ends, a \in LedTo(f, l, o)
        PROVE  a \in AnswersFrom(g, l)
    <3>1. Look(o.at, l.visited \union {l.at}) \in Looks
      BY <1>1, <2>3
    <3>2. a \in LedTo(g, l, o)
      BY <2>3, <3>1 DEF LedTo
    <3> QED
      BY <1>3, <2>3, <3>2, AnswersFromCases
  <2> QED
    BY <1>3, <2>1, <2>2, <2>3, AnswersFromCases
<1> QED
  BY <1>2, <1>3

(* It has a solution: at each look the answers that every table has there  *)
(* that is closed under it.                                                *)
LEMMA SomethingTraces ==
  ASSUME program \in Programs
  PROVE  \E f : TraceSolves(f)
<1> DEFINE Base == {Itself(k) : k \in Keys} \union {traceVariableCache[k] : k \in early}
                     \union UNION {Stops(k) : k \in Keys}
           NamesGiven == {<<>>} \union UNION {{o.named : o \in {u \in Outcomes(k) : ~u.ends}} : k \in Keys}
           All == UNION {{Renamed(b, n) : b \in Base} : n \in NamesGiven}
           In(R) == [l \in Looks |-> {a \in All : <<l, a>> \in R}]
           Tables == SUBSET (Looks \X All)
           Closed(R) == \A l \in Looks : AnswersFrom(In(R), l) \subseteq {a \in All : <<l, a>> \in R}
<1>1. Base \subseteq All
  <2>1. <<>> \in NamesGiven
    OBVIOUS
  <2>2. \A a \in Base : a = Renamed(a, <<>>)
    BY RenamedTwice, Zenon
  <2> HIDE DEF Base, NamesGiven
  <2> QED
    BY <2>1, <2>2
<1>2. \A a \in All, n \in NamesGiven : Renamed(a, n) \in All
  <2> HIDE DEF Base, NamesGiven
  <2>1. \A b \in Base, m \in NamesGiven : Renamed(b, m) \in All
    OBVIOUS
  <2>2. \A a \in All : \E b \in Base, m \in NamesGiven : a = Renamed(b, m)
    OBVIOUS
  <2> HIDE DEF All
  <2> QED
    BY <2>1, <2>2, RenamedTwice
<1>3. ASSUME NEW l \in Looks, NEW f, \A x \in Looks : f[x] \subseteq All
      PROVE  AnswersFrom(f, l) \subseteq All
  <2>1. l.at \in Keys /\ l.visited \union {l.at} \in SUBSET Keys
    BY LookFacts
  <2>2. CASE l.at \in l.visited
    <3>1. Itself(l.at) \in Base
      BY <2>1
    <3> HIDE DEF Base, All
    <3> QED
      BY <1>1, <2>2, <3>1, AnswersFromCases
  <2>3. CASE l.at \notin l.visited /\ l.at \in early
    <3>1. traceVariableCache[l.at] \in Base
      BY <2>3
    <3> HIDE DEF Base, All
    <3> QED
      BY <1>1, <2>3, <3>1, AnswersFromCases
  <2>4. CASE l.at \notin l.visited /\ l.at \notin early
    <3>1. Stops(l.at) \subseteq All
      <4>1. Stops(l.at) \subseteq Base
        BY <2>1
      <4> HIDE DEF Base, All
      <4> QED
        BY <1>1, <4>1
    <3>2. ASSUME NEW o \in Outcomes(l.at), ~o.ends, NEW a \in LedTo(f, l, o)
          PROVE  a \in All
      <4>1. o.at \in Keys
        BY <2>1, <3>2, OutcomesLead DEF Leads
      <4>2. PICK b \in f[Look(o.at, l.visited \union {l.at})] : a = Renamed(b, o.named)
        BY DEF LedTo
      <4>3. b \in All
        <5>1. Look(o.at, l.visited \union {l.at}) \in Looks
          BY <2>1, <4>1, LookFacts
        <5> HIDE DEF All
        <5> QED
          BY <1>3, <5>1
      <4>4. o.named \in NamesGiven
        BY <2>1, <3>2
      <4> HIDE DEF All, NamesGiven
      <4> QED
        BY <1>2, <4>2, <4>3, <4>4
    <3> HIDE DEF Base, All
    <3> QED
      BY <2>4, <3>1, <3>2, AnswersFromCases
  <2> QED
    BY <2>2, <2>3, <2>4
<1> HIDE DEF All, Base, NamesGiven
<1>4. PICK f : f = [l \in Looks |-> {a \in All : \A R \in Tables : Closed(R) => <<l, a>> \in R}]
  OBVIOUS
<1>5. /\ \A l \in Looks : f[l] \subseteq All
      /\ \A R \in Tables : Closed(R) => \A l \in Looks : f[l] \subseteq In(R)[l]
  <2> HIDE DEF Closed
  <2> QED
    BY <1>4
<1>6. ASSUME NEW l \in Looks
      PROVE  AnswersFrom(f, l) \subseteq f[l]
  <2>1. AnswersFrom(f, l) \subseteq All
    BY <1>3, <1>5
  <2>2. ASSUME NEW R \in Tables, Closed(R)
        PROVE  AnswersFrom(f, l) \subseteq {a \in All : <<l, a>> \in R}
    <3>1. AnswersFrom(f, l) \subseteq AnswersFrom(In(R), l)
      <4>1. \A x \in Looks : f[x] \subseteq In(R)[x]
        BY <1>5, <2>2
      <4> HIDE DEF In
      <4> QED
        BY <4>1, AnswersGrow
    <3>2. AnswersFrom(In(R), l) \subseteq {a \in All : <<l, a>> \in R}
      BY <2>2
    <3> QED
      BY <3>1, <3>2
  <2> HIDE DEF Closed
  <2> QED
    BY <1>4, <2>1, <2>2
<1>7. PICK Own : Own = {r \in Looks \X All : r[2] \in AnswersFrom(f, r[1])}
  OBVIOUS
<1>8. Own \in Tables /\ \A l \in Looks : {a \in All : <<l, a>> \in Own} = AnswersFrom(f, l)
  <2>1. \A l \in Looks : AnswersFrom(f, l) \subseteq All
    BY <1>3, <1>5
  <2> QED
    BY <1>7, <2>1
<1>9. Closed(Own)
  <2>1. \A x \in Looks : In(Own)[x] \subseteq f[x]
    BY <1>6, <1>8
  <2>2. \A l \in Looks : AnswersFrom(In(Own), l) \subseteq AnswersFrom(f, l)
    <3> HIDE DEF In
    <3> QED
      BY <2>1, AnswersGrow
  <2> QED
    BY <1>8, <2>2
<1>10. \A l \in Looks : f[l] \subseteq AnswersFrom(f, l)
  <2>1. \A l \in Looks : In(Own)[l] = AnswersFrom(f, l)
    BY <1>8
  <2> HIDE DEF Closed, In
  <2> QED
    BY <1>5, <1>8, <1>9, <2>1
<1>11. f = [l \in Looks |-> AnswersFrom(f, l)]
  <2>1. \A l \in Looks : f[l] = AnswersFrom(f, l)
    BY <1>6, <1>10
  <2>2. f = [l \in Looks |-> f[l]]
    BY <1>4
  <2> QED
    BY <2>1, <2>2
<1> QED
  BY <1>11, TraceSolvesFrom

LEMMA TracedSolves ==
  ASSUME program \in Programs
  PROVE  TraceSolves(Traced)
<1>1. Traced = CHOOSE f : TraceSolves(f)
  BY Zenon DEF Traced, TraceSolves
<1> QED
  BY <1>1, SomethingTraces

-----------------------------------------------------------------------------
(* What a trace answers.                                                   *)

TraceTypes ==
  /\ program \in Programs /\ recorded \subseteq FilePackages /\ edges \in 0..Len(program.calls)
  /\ trace.state = "busy" =>
       trace \in [state : {"busy"}, asked : Keys, at : Keys, visited : SUBSET Keys, named : Names]

(* What was remembered since all has been recorded ends a trace. *)
KeptInv ==
  /\ early \subseteq DOMAIN traceVariableCache
  /\ \A k \in DOMAIN traceVariableCache \ early :
       Complete /\ \E o \in Outcomes(k) : o.ends /\ o.answer = traceVariableCache[k]

(* Whatever could be answered from where the trace is could be answered to *)
(* what was asked.                                                       *)
WayInv ==
  trace.state = "busy" /\ Complete =>
    \A f : TraceSolves(f) =>
      \A a \in f[Look(trace.at, trace.visited)] : Renamed(a, trace.named) \in f[Look(trace.asked, {})]

AnswerInv ==
  trace.state = "answered" /\ trace.complete =>
    Complete /\ \A f : TraceSolves(f) => trace.answer \in f[Look(trace.asked, {})]

OriginInv == NamesApart /\ TraceTypes /\ MethodsAreOfTheirNames /\ KeptInv /\ WayInv /\ AnswerInv

LEMMA SolvesAt ==
  ASSUME NEW f, TraceSolves(f), NEW l \in Looks
  PROVE  f[l] = AnswersFrom(f, l)
  BY TraceSolvesFrom, Zenon

LEMMA OutcomesKept ==
  ASSUME UNCHANGED program
  PROVE  \A k : Outcomes(k)' = Outcomes(k)
  BY DEF Outcomes, Otherwise, IsLocal, ByCaller, ByVariable, IsGlobal, Last, Assigned, Methods, MethodsIn,
         Called, WalkedFirst, ByAssignment, Callee, ByResult, HasResult, OrElse

(* With a cache that is the same where it was filled early, the equation   *)
(* is the same.                                                            *)
LEMMA SolvesKept ==
  ASSUME UNCHANGED <<program, early>>, \A k \in early : traceVariableCache'[k] = traceVariableCache[k]
  PROVE  \A f : TraceSolves(f)' => TraceSolves(f)
<1>1. \A k : Stops(k)' = Stops(k)
  BY OutcomesKept DEF Stops
<1>2. \A f, l : AnswersFrom(f, l)' = AnswersFrom(f, l)
  <2>1. SUFFICES ASSUME NEW f, NEW l
                 PROVE  AnswersFrom(f, l)' = AnswersFrom(f, l)
    OBVIOUS
  <2>2. CASE l.at \in l.visited
    BY <2>2 DEF AnswersFrom
  <2>3. CASE l.at \notin l.visited /\ l.at \in early
    BY <2>3 DEF AnswersFrom
  <2>4. CASE l.at \notin l.visited /\ l.at \notin early
    BY <1>1, <2>4, OutcomesKept DEF AnswersFrom
  <2> QED
    BY <2>2, <2>3, <2>4
<1>3. \A f : TraceSolves(f)' <=> f = [l \in Looks |-> AnswersFrom(f, l)']
  BY Zenon DEF TraceSolves, AnswersFrom, Stops, LedTo
<1> QED
  BY <1>2, <1>3, TraceSolvesFrom

LEMMA RememberedFacts ==
  ASSUME NEW k, NEW a, NEW kept, Remembers(k, a, kept), k \notin DOMAIN traceVariableCache,
         early \subseteq DOMAIN traceVariableCache
  PROVE  /\ early \subseteq early' /\ early' \subseteq DOMAIN traceVariableCache'
         /\ Complete => early' = early
         /\ \A j \in early : traceVariableCache'[j] = traceVariableCache[j]
         /\ \A j \in DOMAIN traceVariableCache' \ early' :
              \/ j \in DOMAIN traceVariableCache \ early /\ traceVariableCache'[j] = traceVariableCache[j]
              \/ Complete /\ j = k /\ traceVariableCache'[j] = a
<1>1. CASE UNCHANGED <<traceVariableCache, early>>
  BY <1>1
<1>2. CASE /\ traceVariableCache' = With(traceVariableCache, k, a)
           /\ early' = IF Complete THEN early ELSE early \union {k}
  <2>1. /\ DOMAIN traceVariableCache' = {k} \union DOMAIN traceVariableCache
        /\ \A j \in DOMAIN traceVariableCache' :
             traceVariableCache'[j] = IF j = k THEN a ELSE traceVariableCache[j]
    BY <1>2 DEF With
  <2> QED
    BY <1>2, <2>1
<1> QED
  BY <1>1, <1>2 DEF Remembers

LEMMA TakesKeeps ==
  ASSUME OriginInv, Unknown, NEW o, Leads(o), Complete => o \in Outcomes(trace.at),
         Takes(trace.at, o), UNCHANGED <<program, recorded, edges>>
  PROVE  (TraceTypes /\ KeptInv /\ WayInv /\ AnswerInv)'
<1>1. PICK k, past, aim, named :
        /\ k = trace.at /\ past = trace.visited /\ aim = trace.asked /\ named = trace.named
        /\ k \in Keys /\ past \in SUBSET Keys /\ aim \in Keys /\ named \in Names
        /\ trace = [state |-> "busy", asked |-> aim, at |-> k, visited |-> past, named |-> named]
  <2>1. trace \in [state : {"busy"}, asked : Keys, at : Keys, visited : SUBSET Keys, named : Names]
    BY DEF OriginInv, TraceTypes, Unknown
  <2> QED
    BY <2>1
<1>2. Complete' = Complete
  BY DEF Complete
<1>3. k \notin past /\ k \notin DOMAIN traceVariableCache /\ k \notin early /\ trace.state = "busy"
  BY <1>1 DEF Unknown, OriginInv, KeptInv
<1>4. Look(k, past) \in Looks /\ Look(k, past).at = k /\ Look(k, past).visited = past
  BY <1>1, LookFacts
<1>5. \A j : Outcomes(j)' = Outcomes(j)
  BY OutcomesKept
<1>6. early \subseteq DOMAIN traceVariableCache
  BY DEF OriginInv, KeptInv
<1>7. ASSUME Complete
      PROVE  \A f : TraceSolves(f) => \A a \in AnswersFrom(f, Look(k, past)) : Renamed(a, named) \in f[Look(aim, {})]
  <2>1. \A f : TraceSolves(f) => \A a \in f[Look(k, past)] : Renamed(a, named) \in f[Look(aim, {})]
    BY <1>1, <1>3, <1>7 DEF OriginInv, WayInv
  <2> QED
    BY <1>4, <2>1, SolvesAt
<1>8. CASE o.ends
  <2>1. trace' = [state |-> "answered", asked |-> aim, answer |-> Renamed(o.answer, named), complete |-> Complete]
    BY <1>1, <1>8 DEF Takes, Answers
  <2>2. Remembers(k, o.answer, o.kept)
    BY <1>1, <1>8 DEF Takes
  <2>3. TraceTypes'
    BY <2>1 DEF OriginInv, TraceTypes
  <2>4. WayInv'
    BY <2>1 DEF WayInv
  <2>5. /\ early \subseteq early' /\ early' \subseteq DOMAIN traceVariableCache'
        /\ Complete => early' = early
        /\ \A j \in early : traceVariableCache'[j] = traceVariableCache[j]
        /\ \A j \in DOMAIN traceVariableCache' \ early' :
             \/ j \in DOMAIN traceVariableCache \ early /\ traceVariableCache'[j] = traceVariableCache[j]
             \/ Complete /\ j = k /\ traceVariableCache'[j] = o.answer
    BY <1>3, <1>6, <2>2, RememberedFacts
  <2>6. KeptInv'
    <3>1. \A j \in DOMAIN traceVariableCache \ early :
            Complete /\ \E u \in Outcomes(j) : u.ends /\ u.answer = traceVariableCache[j]
      BY DEF OriginInv, KeptInv
    <3>2. Complete => o \in Outcomes(k)
      BY <1>1
    <3>3. ASSUME NEW j \in DOMAIN traceVariableCache' \ early'
          PROVE  Complete /\ \E u \in Outcomes(j) : u.ends /\ u.answer = traceVariableCache'[j]
      BY <1>8, <2>5, <3>1, <3>2, <3>3
    <3> QED
      BY <1>2, <1>5, <2>5, <3>3 DEF KeptInv
  <2>7. AnswerInv'
    <3>1. SUFFICES ASSUME Complete, NEW f, TraceSolves(f)'
                   PROVE  Renamed(o.answer, named) \in f[Look(aim, {})]
      BY <1>2, <2>1 DEF AnswerInv
    <3>2. TraceSolves(f)
      BY <2>5, <3>1, SolvesKept
    <3>3. o.answer \in Stops(k)
      BY <1>1, <1>8, <3>1 DEF Stops
    <3>4. o.answer \in AnswersFrom(f, Look(k, past))
      BY <1>3, <1>4, <3>3, AnswersFromCases
    <3> QED
      BY <1>7, <3>1, <3>2, <3>4
  <2> QED
    BY <2>3, <2>4, <2>6, <2>7
<1>9. CASE ~o.ends
  <2>1. o.at \in Keys /\ o.named \in Names
    BY <1>9 DEF Leads
  <2>2. PICK to, then : /\ to = o.at /\ then = IF named = <<>> THEN o.named ELSE named
                        /\ to \in Keys /\ then \in Names
    BY <1>1, <2>1
  <2>3. /\ trace' \in [state : {"busy"}, asked : Keys, at : Keys, visited : SUBSET Keys, named : Names]
        /\ trace'.state = "busy" /\ trace'.asked = aim /\ trace'.at = to
        /\ trace'.visited = past \union {k} /\ trace'.named = then
    <3>1. trace' = [trace EXCEPT !.at = o.at, !.visited = trace.visited \union {trace.at},
                                 !.named = IF trace.named = <<>> THEN o.named ELSE trace.named]
      BY <1>9 DEF Takes, Visited
    <3>2. trace' = [trace EXCEPT !.at = to, !.visited = past \union {k}, !.named = then]
      BY <1>1, <2>2, <3>1
    <3>3. /\ trace \in [state : {"busy"}, asked : Keys, at : Keys, visited : SUBSET Keys, named : Names]
          /\ trace.state = "busy" /\ trace.asked = aim /\ past \union {k} \in SUBSET Keys
      BY <1>1
    <3> QED
      BY <2>2, <3>2, <3>3
  <2>4. UNCHANGED <<traceVariableCache, early>>
    BY <1>9 DEF Takes
  <2>5. TraceTypes'
    BY <2>3 DEF OriginInv, TraceTypes
  <2>6. KeptInv'
    BY <1>2, <1>5, <2>4 DEF OriginInv, KeptInv
  <2>7. AnswerInv'
    BY <2>3 DEF AnswerInv
  <2>8. WayInv'
    <3>1. SUFFICES ASSUME Complete, NEW f, TraceSolves(f)', NEW a \in f[Look(to, past \union {k})]
                   PROVE  Renamed(a, then) \in f[Look(aim, {})]
      BY <1>2, <2>3 DEF WayInv
    <3>2. TraceSolves(f)
      BY <2>4, <3>1, SolvesKept
    <3>3. PICK b : b = Renamed(a, o.named)
      OBVIOUS
    <3>4. b \in LedTo(f, Look(k, past), o)
      BY <1>4, <2>2, <3>3 DEF LedTo
    <3>5. b \in AnswersFrom(f, Look(k, past))
      BY <1>1, <1>3, <1>4, <1>9, <3>1, <3>4, AnswersFromCases
    <3>6. Renamed(b, named) \in f[Look(aim, {})]
      BY <1>7, <3>1, <3>2, <3>5
    <3>7. Renamed(b, named) = Renamed(a, then)
      BY <2>2, <3>3, RenamedTwice
    <3> QED
      BY <3>6, <3>7
  <2> QED
    BY <2>5, <2>6, <2>7, <2>8
<1> QED
  BY <1>8, <1>9

LEMMA CutKeeps ==
  ASSUME OriginInv, CutOrCached
  PROVE  OriginInv'
<1>1. PICK k, past, aim, named :
        /\ k = trace.at /\ past = trace.visited /\ aim = trace.asked /\ named = trace.named
        /\ k \in Keys /\ past \in SUBSET Keys /\ aim \in Keys /\ named \in Names
        /\ trace = [state |-> "busy", asked |-> aim, at |-> k, visited |-> past, named |-> named]
  <2>1. trace \in [state : {"busy"}, asked : Keys, at : Keys, visited : SUBSET Keys, named : Names]
    BY DEF OriginInv, TraceTypes, CutOrCached
  <2> QED
    BY <2>1
<1>2. UNCHANGED <<program, recorded, edges, traceVariableCache, methodLookupCache, early>>
  BY DEF CutOrCached
<1>3. PICK a : /\ trace' = [state |-> "answered", asked |-> aim, answer |-> Renamed(a, named), complete |-> Complete]
               /\ \/ k \in past /\ a = Itself(k)
                  \/ k \in DOMAIN traceVariableCache \ past /\ a = traceVariableCache[k]
  BY <1>1 DEF CutOrCached, Answers
<1>4. NamesApart /\ TraceTypes' /\ MethodsAreOfTheirNames' /\ KeptInv' /\ WayInv'
  <2>1. \A j : Outcomes(j)' = Outcomes(j)
    BY <1>2, OutcomesKept
  <2>2. KeptInv'
    BY <1>2, <2>1 DEF OriginInv, KeptInv, Complete
  <2>3. TraceTypes' /\ MethodsAreOfTheirNames' /\ WayInv'
    BY <1>2, <1>3 DEF OriginInv, TraceTypes, MethodsAreOfTheirNames, WayInv
  <2> QED
    BY <2>2, <2>3 DEF OriginInv
<1>5. AnswerInv'
  <2>1. Complete' = Complete
    BY <1>2 DEF Complete
  <2>2. SUFFICES ASSUME Complete, NEW f, TraceSolves(f)'
                 PROVE  Renamed(a, named) \in f[Look(aim, {})]
    BY <1>3, <2>1 DEF AnswerInv
  <2>3. TraceSolves(f)
    BY <1>2, <2>2, SolvesKept
  <2>4. Look(k, past) \in Looks /\ Look(k, past).at = k /\ Look(k, past).visited = past
    BY <1>1, LookFacts
  <2>5. a \in AnswersFrom(f, Look(k, past))
    <3>1. CASE k \in past /\ a = Itself(k)
      BY <2>4, <3>1, AnswersFromCases
    <3>2. CASE k \in DOMAIN traceVariableCache \ past /\ a = traceVariableCache[k] /\ k \in early
      BY <2>4, <3>2, AnswersFromCases
    <3>3. CASE k \in DOMAIN traceVariableCache \ past /\ a = traceVariableCache[k] /\ k \notin early
      <4>1. a \in Stops(k)
        BY <3>3 DEF OriginInv, KeptInv, Stops
      <4> QED
        BY <2>4, <3>3, <4>1, AnswersFromCases
    <3> QED
      BY <1>3, <3>1, <3>2, <3>3
  <2>6. a \in f[Look(k, past)]
    BY <2>3, <2>4, <2>5, SolvesAt
  <2> QED
    BY <1>1, <2>2, <2>3, <2>6 DEF OriginInv, WayInv
<1> QED
  BY <1>4, <1>5 DEF OriginInv

LEMMA StepKeeps ==
  ASSUME OriginInv, Step \/ StepToAssigned
  PROVE  OriginInv'
<1>1. trace.at \in Keys /\ Unknown /\ UNCHANGED <<program, recorded, edges>>
  BY DEF OriginInv, TraceTypes, Step, StepToAssigned, Unknown
<1>2. program \in Programs /\ edges \in 0..Len(program.calls) /\ NamesApart /\ MethodsAreOfTheirNames
  BY DEF OriginInv, TraceTypes
<1>3. Complete => edges = Len(program.calls) /\ recorded = FilePackages
  BY DEF Complete
<1>4. CASE Step
  <2>1. PICK o \in Otherwise(trace.at, edges, recorded) : Takes(trace.at, o)
    BY <1>4 DEF Step
  <2>2. Leads(o)
    BY <1>1, <1>2, OtherwiseLeads
  <2>3. Complete => o \in Outcomes(trace.at)
    BY <1>3 DEF Outcomes
  <2>4. MethodsAreOfTheirNames'
    BY <1>2, <1>4 DEF Step, MethodsAreOfTheirNames
  <2> QED
    BY <1>1, <1>2, <2>1, <2>2, <2>3, <2>4, TakesKeeps DEF OriginInv
<1>5. CASE StepToAssigned
  <2>1. PICK file \in WalkedFirst(trace.at), m \in Decls \union {NoMethod} :
          /\ Lookup(trace.at, file, m)
          /\ \E o \in ByAssignment(trace.at, recorded, file, m) : Takes(trace.at, o)
    BY <1>5 DEF StepToAssigned
  <2>2. PICK o \in ByAssignment(trace.at, recorded, file, m) : Takes(trace.at, o)
    BY <2>1
  <2>3. Leads(o)
    BY <1>1, <1>2, AssignmentLeads
  <2>4. Complete => o \in Outcomes(trace.at)
    <3>1. ASSUME Complete PROVE o \in Assigned(trace.at)
      BY <1>1, <1>2, <1>3, <2>1, <3>1, LookupIsTraced
    <3>2. IsLocal(trace.at, edges, recorded)
      BY <1>5 DEF StepToAssigned
    <3> QED
      BY <1>3, <3>1, <3>2 DEF Outcomes
  <2>5. MethodsAreOfTheirNames'
    <3>1. recorded \subseteq FilePackages
      BY DEF OriginInv, TraceTypes
    <3> QED
      BY <1>1, <1>2, <2>1, <3>1, LookupKeeps
  <2> QED
    BY <1>1, <1>2, <2>2, <2>3, <2>4, <2>5, TakesKeeps DEF OriginInv
<1> QED
  BY <1>4, <1>5

(* While all is not yet recorded, no answer is held to anything. *)
LEMMA RecordKeeps ==
  ASSUME OriginInv, RecordCall \/ \E p \in FilePackages : RecordPackage(p)
  PROVE  OriginInv'
<1>1. /\ ~Complete /\ trace.state # "busy"
      /\ UNCHANGED <<program, traceVariableCache, methodLookupCache, trace, early>>
      /\ recorded' \subseteq FilePackages /\ edges' \in 0..Len(program.calls)
  <2>1. Len(program.calls) \in Nat
    BY ProgramsAssumption DEF OriginInv, TraceTypes
  <2>2. edges \in 0..Len(program.calls) /\ recorded \subseteq FilePackages
    BY DEF OriginInv, TraceTypes
  <2>3. CASE RecordCall
    BY <2>1, <2>2, <2>3 DEF RecordCall, Complete
  <2>4. CASE \E p \in FilePackages : RecordPackage(p)
    BY <2>2, <2>4 DEF RecordPackage, Complete
  <2> QED
    BY <2>3, <2>4
<1>2. DOMAIN traceVariableCache \ early = {} /\ ~(trace.state = "answered" /\ trace.complete)
  BY <1>1 DEF OriginInv, KeptInv, AnswerInv
<1> QED
  BY <1>1, <1>2 DEF OriginInv, TraceTypes, MethodsAreOfTheirNames, KeptInv, WayInv, AnswerInv

LEMMA AskKeeps ==
  ASSUME OriginInv, NEW k \in Keys, Ask(k)
  PROVE  OriginInv'
<1>1. /\ trace' = [state |-> "busy", asked |-> k, at |-> k, visited |-> {}, named |-> <<>>]
      /\ UNCHANGED <<program, recorded, edges, traceVariableCache, methodLookupCache, early>>
  BY DEF Ask
<1>2. TraceTypes' /\ MethodsAreOfTheirNames' /\ AnswerInv'
  BY <1>1 DEF OriginInv, TraceTypes, MethodsAreOfTheirNames, AnswerInv, Names
<1>3. KeptInv'
  BY <1>1, OutcomesKept DEF OriginInv, KeptInv, Complete
<1>4. WayInv'
  BY <1>1, RenamedTwice DEF WayInv
<1> QED
  BY <1>2, <1>3, <1>4 DEF OriginInv

LEMMA OriginStays ==
  ASSUME OriginInv, UNCHANGED originVars
  PROVE  OriginInv'
<1>1. UNCHANGED <<program, recorded, edges, traceVariableCache, methodLookupCache, trace, early>>
  BY DEF originVars
<1>2. Complete' = Complete /\ \A f : TraceSolves(f)' => TraceSolves(f)
  BY <1>1, SolvesKept DEF Complete
<1>3. \A k : Outcomes(k)' = Outcomes(k)
  BY <1>1, OutcomesKept
<1> QED
  BY <1>1, <1>2, <1>3 DEF OriginInv, TraceTypes, MethodsAreOfTheirNames, KeptInv, WayInv, AnswerInv

(* Provided that no file has a function and a method of the same name, the *)
(* caches never change what a trace answers, whatever was asked before and *)
(* in whatever order the files were walked (TraceVariableOrigin).          *)
THEOREM AnswersTraced == NamesApart /\ OriginSpec => []AnswersAreTraced
<1>1. NamesApart /\ OriginInit => OriginInv
  <2>1. SUFFICES ASSUME NamesApart, OriginInit
                 PROVE  OriginInv
    OBVIOUS
  <2>2. Len(program.calls) \in Nat
    BY <2>1, ProgramsAssumption DEF OriginInit
  <2> QED
    BY <2>1, <2>2 DEF OriginInit, OriginInv, TraceTypes, MethodsAreOfTheirNames, KeptInv, WayInv, AnswerInv
<1>2. OriginInv /\ [OriginNext]_originVars => OriginInv'
  <2>1. SUFFICES ASSUME OriginInv, [OriginNext]_originVars
                 PROVE  OriginInv'
    OBVIOUS
  <2>2. CASE RecordCall \/ \E p \in FilePackages : RecordPackage(p)
    BY <2>1, <2>2, RecordKeeps
  <2>3. ASSUME NEW k \in Asked, Ask(k) PROVE OriginInv'
    BY <2>1, <2>3, AskKeeps, AskedAssumption
  <2>4. CASE CutOrCached
    BY <2>1, <2>4, CutKeeps
  <2>5. CASE Step \/ StepToAssigned
    BY <2>1, <2>5, StepKeeps
  <2>6. CASE UNCHANGED originVars
    BY <2>1, <2>6, OriginStays
  <2> QED
    BY <2>1, <2>2, <2>3, <2>4, <2>5, <2>6 DEF OriginNext, TraceStep
<1>3. OriginInv => AnswersAreTraced
  <2>1. SUFFICES ASSUME OriginInv, trace.state = "answered", trace.complete
                 PROVE  trace.answer \in Traced[Look(trace.asked, {})]
    BY DEF AnswersAreTraced
  <2>2. TraceSolves(Traced)
    <3>1. program \in Programs
      BY <2>1 DEF OriginInv, TraceTypes
    <3> QED
      BY <3>1, TracedSolves, Zenon
  <2> QED
    BY <2>1, <2>2 DEF OriginInv, AnswerInv
<1> QED
  BY <1>1, <1>2, <1>3, PTL DEF OriginSpec
=============================================================================
