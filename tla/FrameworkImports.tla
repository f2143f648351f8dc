-------------------------- MODULE FrameworkImports --------------------------
(***************************************************************************)
(* What internal/metadata/dependency_analyzer.go reads off the import      *)
(* graph of the packages it is given: the framework a package uses and     *)
(* what can be reached over imports.  A graph maps a package to the paths  *)
(* its files import; detected maps a framework to the paths its patterns   *)
(* match.  Shared by the search itself (FrameworkDeps) and by the engine   *)
(* that works with its result (Engine).                                    *)
(***************************************************************************)
EXTENDS Naturals, Sequences

(* The specific frameworks come before "http": nearly every handler *)
(* imports net/http as well.                                        *)
frameworkDetectionOrder ==
  <<"gin", "echo", "fiber", "chi", "mux", "fasthttp", "http">>

FrameworkTypes == {frameworkDetectionOrder[i] : i \in DOMAIN frameworkDetectionOrder}

NoFramework == "none"

(* The first type of the order that is not disabled and that some import *)
(* of p matches.                                                         *)
detectFrameworkType(p, graph, detected, disabled) ==
  LET Hit(i) == /\ frameworkDetectionOrder[i] \notin disabled
                /\ graph[p] \intersect detected[frameworkDetectionOrder[i]] # {}
  IN  IF \E i \in DOMAIN frameworkDetectionOrder : Hit(i)
      THEN frameworkDetectionOrder[
             CHOOSE i \in DOMAIN frameworkDetectionOrder :
               Hit(i) /\ \A j \in 1..(i - 1) : ~Hit(j)]
      ELSE NoFramework

(* A set of paths that holds everything its packages import. *)
ClosedUnderImports(S, graph) == \A p \in S \intersect DOMAIN graph : graph[p] \subseteq S

(* What p reaches over at least one import: q is in every closed set that *)
(* holds what p imports.                                                  *)
Reaches(p, q, graph, paths) ==
  \A S \in SUBSET paths :
    graph[p] \subseteq S /\ ClosedUnderImports(S, graph) => q \in S

=============================================================================
