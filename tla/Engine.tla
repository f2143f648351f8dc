------------------------------- MODULE Engine -------------------------------
(***************************************************************************)
(* The engine (internal/engine/engine.go) as its callers drive it: the     *)
(* command line, the UI server and the diagram server make an engine with  *)
(* a configuration of its own for every run; the library's Generator       *)
(* (generator/generator.go) makes an engine for every run too, but gives   *)
(* all of them the one APISpecConfig object it was created with.  A run    *)
(* loads the packages of a module, leaves out what the filters and the     *)
(* type checker reject, looks for framework packages, generates metadata   *)
(* and, unless only metadata was wanted, maps it to a specification.       *)
(*                                                                         *)
(* Left out: the files of a package (a package all of whose files are      *)
(* filtered out counts as filtered), the fields of the configuration that  *)
(* only describe the API, what the metadata and the specification contain. *)
(***************************************************************************)
EXTENDS FrameworkImports, Functions

CONSTANTS
  Projects,       \* module directories
  Packages, Outside,
  WalkOf,         \* project -> its packages, in the order of a file walk
  Imports,        \* package -> paths it imports
  Detected,       \* framework type -> the paths its patterns match
  Rejected,       \* packages the automatic and the file filters leave nothing of
  Patterns,       \* filter patterns; every path is one
  Matches,        \* <<pattern, package>> pairs that match
  CliFilters,     \* filter fields of EngineConfig, [include, exclude]
  ObjectFilters,  \* filters of the config object the user wrote
  Sharings,       \* whether all runs share the object
  Sources,        \* where the config comes from: "object", "file", "default"
  MaxRuns

ASSUME WalkAssumption == WalkOf \in [Projects -> Seq(Packages)]

ASSUME ImportsAssumption == \A p \in Packages : Imports[p] \subseteq Packages \union Outside

(* A path can be given as a pattern: autoIncludeFrameworkPackages does so. *)
ASSUME PatternsAssumption == Packages \union Outside \subseteq Patterns

Filters == [include : SUBSET Patterns, exclude : SUBSET Patterns]

ASSUME FiltersAssumption == CliFilters \in Filters /\ ObjectFilters \in Filters

ASSUME UseAssumption ==
  /\ Sharings \subseteq BOOLEAN
  /\ Sources \subseteq {"object", "file", "default"}
  /\ MaxRuns \in Nat

VARIABLES
  shared, source,  \* how the engine is used
  pc,              \* the phase of the current run; "idle" between runs
  wanted,          \* "metadata" or "openapi"
  resolve,         \* ResolveCallGraph
  project,
  cancelled,       \* the context of the run is cancelled
  filters,         \* the filter fields of the run's EngineConfig
  object,          \* the filters in the config object
  pkgs,            \* packages under analysis
  broken,          \* loaded packages with errors
  metadata, skipped, resolvedGraph,  \* fields of the engine
  surface,         \* frameworks whose patterns are in the effective config
  outcome,         \* of the latest run: "none", "error", "metadata", "openapi"
  run              \* runs started

use == <<shared, source>>
engine == <<metadata, skipped, resolvedGraph>>
vars == <<use, pc, wanted, resolve, project, cancelled, filters, object, pkgs, broken,
          engine, surface, outcome, run>>

Phases == {"load", "validate", "dependencies", "metadata", "resolve",
           "configure", "tree", "map", "write"}

NoMetadata == [stored |-> FALSE]
Metadata(ps) == [stored |-> TRUE, packages |-> ps]

TypeOK ==
  /\ shared \in BOOLEAN
  /\ source \in {"object", "file", "default"}
  /\ pc \in Phases \union {"idle"}
  /\ wanted \in {"metadata", "openapi"}
  /\ resolve \in BOOLEAN
  /\ project \in Projects
  /\ cancelled \in BOOLEAN
  /\ filters \in Filters
  /\ object \in Filters
  /\ pkgs \subseteq Packages
  /\ broken \subseteq Packages
  /\ metadata = NoMetadata \/ metadata.packages \subseteq Packages
  /\ skipped \subseteq Packages
  /\ resolvedGraph \in BOOLEAN
  /\ surface \subseteq FrameworkTypes
  /\ outcome \in {"none", "error", "metadata", "openapi"}
  /\ run \in 0..MaxRuns

Init ==
  /\ shared \in Sharings
  /\ source \in Sources
  /\ pc = "idle"
  /\ wanted = "metadata"
  /\ resolve = FALSE
  /\ project \in Projects
  /\ cancelled = FALSE
  /\ filters = CliFilters
  /\ object = ObjectFilters
  /\ pkgs = {}
  /\ broken = {}
  /\ metadata = NoMetadata
  /\ skipped = {}
  /\ resolvedGraph = FALSE
  /\ surface = {}
  /\ outcome = "none"
  /\ run = 0

-----------------------------------------------------------------------------
Union(f, g) == [include |-> f.include \union g.include,
                exclude |-> f.exclude \union g.exclude]

MatchesAny(ps, p) == \E q \in ps : <<q, p>> \in Matches

(* Excludes win; without include patterns everything is included. *)
shouldIncludePackage(f, p) ==
  /\ p \notin Rejected
  /\ ~MatchesAny(f.exclude, p)
  /\ f.include = {} \/ MatchesAny(f.include, p)

PackagesOf(d) == Range(WalkOf[d])

(* A package all of whose files are left out is left out. *)
loadFilteredPackages(d, f) == {p \in PackagesOf(d) : shouldIncludePackage(f, p)}

(* The run returns an error; what it left in the engine stays readable. *)
Fail == pc' = "idle" /\ outcome' = "error"

(* A new engine, applyConfigFilters, the checks of the input directory. *)
Begin(d, w, r) ==
  /\ pc = "idle"
  /\ run < MaxRuns
  /\ run' = run + 1
  /\ wanted' = w
  /\ resolve' = r
  /\ project' = d
  /\ cancelled' = FALSE
  /\ object' = IF shared THEN object ELSE ObjectFilters
  /\ filters' = IF source = "object" THEN Union(CliFilters, object') ELSE CliFilters
  /\ pkgs' = {}
  /\ broken' = {}
  /\ metadata' = NoMetadata
  /\ skipped' = {}
  /\ resolvedGraph' = FALSE
  /\ surface' = {}
  /\ \/ pc' = "load" /\ outcome' = "none"
     \/ Fail      \* no such directory, or no go.mod above it
  /\ UNCHANGED use

(* The caller's context may be cancelled at any moment. *)
Cancel ==
  /\ pc # "idle"
  /\ ~cancelled
  /\ cancelled' = TRUE
  /\ UNCHANGED <<use, pc, wanted, resolve, project, filters, object, pkgs, broken,
                 engine, surface, outcome, run>>

(* loadFilteredPackages and the check behind it; errs are the packages *)
(* that do not type-check at the moment.                               *)
Load(errs) ==
  /\ pc = "load"
  /\ errs \subseteq PackagesOf(project)
  /\ pkgs' = loadFilteredPackages(project, filters)
  /\ broken' = errs
  /\ \/ ~cancelled /\ pc' = "validate" /\ UNCHANGED outcome
     \/ Fail
  /\ UNCHANGED <<use, wanted, resolve, project, cancelled, filters, object, engine, surface, run>>

(* Packages with errors are skipped, the others grouped by package. *)
Validate ==
  /\ pc = "validate"
  /\ skipped' = pkgs \intersect broken
  /\ pkgs' = {p \in pkgs \ broken : shouldIncludePackage(filters, p)}
  /\ IF pkgs \ broken = {} THEN Fail
     ELSE pc' = "dependencies" /\ UNCHANGED outcome
  /\ UNCHANGED <<use, wanted, resolve, project, cancelled, filters, object, broken,
                 metadata, resolvedGraph, surface, run>>

(* The lists FrameworkDeps can come to for the packages ps: the packages  *)
(* that use a framework, those that reach one of them, and some of the    *)
(* other paths these import.                                              *)
FrameworkLists(ps) ==
  LET graph   == [p \in ps |-> Imports[p]]
      direct  == {p \in ps : detectFrameworkType(p, graph, Detected, {}) # NoFramework}
      deps    == {p \in ps \ direct :
                    \E q \in direct : Reaches(p, q, graph, Packages \union Outside)}
      sure    == direct \union deps
  IN  {sure \union more : more \in SUBSET ((UNION {Imports[p] : p \in ps}) \ sure)}

autoIncludeFrameworkPackages(f, list) == [f EXCEPT !.include = @ \union list]

KeepsListed(list, p) == p \in list

keep(list, p) == p \in list \/ p \in PackagesOf(project)

(* analyzeFrameworkDependencies and, with AutoIncludeFrameworkPackages,  *)
(* autoIncludeFrameworkPackages and filterToFrameworkPackages.           *)
Dependencies ==
  /\ pc = "dependencies"
  /\ \E list \in FrameworkLists(pkgs), analyze, autoInclude \in BOOLEAN :
       IF analyze /\ autoInclude
       THEN /\ filters' = autoIncludeFrameworkPackages(filters, list)
            /\ pkgs' = {p \in pkgs : keep(list, p)}
       ELSE UNCHANGED <<filters, pkgs>>
  /\ pc' = "metadata"
  /\ UNCHANGED <<use, wanted, resolve, project, cancelled, object, broken, engine, surface,
                 outcome, run>>

(* GenerateMetadataWithLogger and the check behind it. *)
GenerateMetadata ==
  /\ pc = "metadata"
  /\ IF cancelled THEN Fail ELSE pc' = "resolve" /\ UNCHANGED outcome
  /\ UNCHANGED <<use, wanted, resolve, project, cancelled, filters, object, pkgs, broken,
                 engine, surface, run>>

(* The metadata becomes the engine's: all of the run for GenerateMetadataOnly. *)
Store ==
  /\ metadata' = Metadata(pkgs)
  /\ IF wanted = "metadata"
     THEN pc' = "idle" /\ outcome' = "metadata"
     ELSE pc' = "configure" /\ UNCHANGED outcome

(* With ResolveCallGraph the type-checked call graph is built, and the *)
(* context checked once more, before the metadata is stored.           *)
ResolveCallGraph ==
  /\ pc = "resolve"
  /\ resolvedGraph' = resolve
  /\ IF resolve /\ cancelled THEN Fail /\ UNCHANGED metadata ELSE Store
  /\ UNCHANGED <<use, wanted, resolve, project, cancelled, filters, object, pkgs, broken,
                 skipped, surface, run>>

-----------------------------------------------------------------------------
(* The frameworks the core detector tells apart; net/http is its fallback. *)
Recognised == {"gin", "chi", "echo", "fiber", "mux"}

UsedBy(p) == {t \in Recognised : Imports[p] \intersect Detected[t] # {}}

DetectFirst(d) ==
  LET ps == SelectSeq(WalkOf[d], LAMBDA p : UsedBy(p) # {})
  IN  IF ps = <<>> THEN {"http"} ELSE UsedBy(Head(ps))

(* DetectAll walks every Go file below the module root, the filtered ones *)
(* as well; the first framework it sees is the primary one.               *)
DetectAll(d) ==
  LET seen == UNION {UsedBy(p) : p \in PackagesOf(d)}
  IN  IF seen = {} THEN {"http"} ELSE seen

mergeIncludeExcludePatterns(o, f) == Union(o, f)

(* The diagram, DetectAll, the choice of a configuration, and             *)
(* mergeIncludeExcludePatterns, which writes into the object it is given. *)
(* Any of these may fail; the check comes when the object is written.     *)
Configure ==
  /\ pc = "configure"
  /\ \/ Fail /\ UNCHANGED <<object, surface>>
     \/ /\ object' = IF source = "object" THEN mergeIncludeExcludePatterns(object, filters)
                     ELSE object
        /\ surface' = IF source = "default" THEN DetectAll(project) \union {"http"}
                      ELSE surface
        /\ IF cancelled THEN Fail ELSE pc' = "tree" /\ UNCHANGED outcome
  /\ UNCHANGED <<use, wanted, resolve, project, cancelled, filters, pkgs, broken, engine, run>>

BuildTreeUnchecked ==
  /\ pc = "tree"
  /\ pc' = "map"
  /\ UNCHANGED <<use, wanted, resolve, project, cancelled, filters, object, pkgs, broken,
                 engine, surface, outcome, run>>

(* The tracker tree, lazy or eager, and the last check. *)
BuildTree ==
  /\ pc = "tree"
  /\ IF cancelled THEN Fail ELSE pc' = "map" /\ UNCHANGED outcome
  /\ UNCHANGED <<use, wanted, resolve, project, cancelled, filters, object, pkgs, broken,
                 engine, surface, run>>

(* MapMetadataToOpenAPIWithDiagnostics. *)
Map ==
  /\ pc = "map"
  /\ \/ pc' = "write" /\ UNCHANGED outcome
     \/ Fail
  /\ UNCHANGED <<use, wanted, resolve, project, cancelled, filters, object, pkgs, broken,
                 engine, surface, run>>

(* The metadata file and the effective configuration, if asked for. *)
Write ==
  /\ pc = "write"
  /\ \/ pc' = "idle" /\ outcome' = "openapi"
     \/ Fail
  /\ UNCHANGED <<use, wanted, resolve, project, cancelled, filters, object, pkgs, broken,
                 engine, surface, run>>

Step ==
  \/ \E errs \in SUBSET Packages : Load(errs)
  \/ Validate
  \/ Dependencies
  \/ GenerateMetadata
  \/ ResolveCallGraph
  \/ Configure
  \/ BuildTree
  \/ Map
  \/ Write

Next ==
  \/ \E d \in Projects, w \in {"metadata", "openapi"}, r \in BOOLEAN : Begin(d, w, r)
  \/ Cancel
  \/ Step

Spec == Init /\ [][Next]_vars /\ WF_vars(Step)

-----------------------------------------------------------------------------
(* What the user asked to be analysed: with the patterns of the command *)
(* line and of the config object.                                       *)
UsersFilters == IF source = "object" THEN Union(CliFilters, ObjectFilters) ELSE CliFilters

UsersSelection(d) == {p \in PackagesOf(d) : shouldIncludePackage(UsersFilters, p)}

(* The metadata of a run is about the packages of the user's selection that *)
(* type-check, all of them and no others.  Not so on a shared object: "it's *)
(* safe to call more than once" (applyConfigFilters, engine.go:736), but    *)
(* the framework packages of one run are filters of the next.               *)
SelectionIsTheUsers ==
  metadata.stored => metadata.packages = UsersSelection(project) \ broken

OwnSelectionIsTheUsers == ~shared \/ run <= 1 => SelectionIsTheUsers

ExcludedStayOut ==
  \A p \in Packages : MatchesAny(UsersFilters.exclude, p) =>
    /\ metadata.stored => p \notin metadata.packages
    /\ p \notin skipped

(* Adding the framework packages to the filters half way, and filtering by  *)
(* them, loses none of the user's packages and brings none that do not      *)
(* belong, for an engine that has its configuration to itself and for the   *)
(* first run on a shared object (engine.go:1078-1188); and whatever earlier *)
(* runs have added to the object, what the user excluded stays out of the   *)
(* metadata and of the list of skipped packages (engine.go:775-803).        *)
SelectionHolds == OwnSelectionIsTheUsers /\ ExcludedStayOut

(* A specification made without the user's own config knows every framework *)
(* by which one of the packages behind it registers routes, not only the    *)
(* primary one, although packages are found by the type checker's list and  *)
(* frameworks by a walk over the files (engine.go:570-602, DetectAll).      *)
EveryFrameworkIsTraced ==
  outcome = "openapi" /\ source = "default" =>
    \A p \in metadata.packages : UsedBy(p) \union {"http"} \subseteq surface

(* Seen from its caller a run is a job that stops when told to: the checks *)
(* of the context sit where they must (AnalysisJob).                       *)
Job == INSTANCE AnalysisJob WITH
  stage  <- CASE pc = "idle" -> "idle"
              [] pc \in {"map", "write"} -> "committed"
              [] pc = "resolve" /\ wanted = "metadata" /\ ~resolve -> "committed"
              [] OTHER -> "running",
  stop   <- cancelled,
  result <- CASE outcome = "error" -> "failed"
              [] outcome \in {"metadata", "openapi"} -> "delivered"
              [] OTHER -> "none"

ImplementsJob == Job!JobSpec
=============================================================================
