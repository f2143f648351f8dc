------------------------------ MODULE DiagView ------------------------------
(***************************************************************************)
(* What the diagram server shows of a call graph                           *)
(* (internal/diagserver/server.go): the breadth-first pass that gives the  *)
(* functions their depth (calculateCallGraphDepth), the pages of           *)
(* handlePaginatedDiagram, the package view of handlePackageBasedDiagram   *)
(* and the package tree of handlePackageHierarchy.  The caches in front of *)
(* them are in DiagServer.  Diagrams of the tracker tree, which are        *)
(* ordered differently, are left out.                                      *)
(*                                                                         *)
(* A graph has its nodes 1, 2, ... in the order of CytoscapeData.Nodes and *)
(* a sequence of edges.  parent is the function a literal is written in (0 *)
(* for none), pkg a package path as the sequence of its elements (empty    *)
(* where there is none).                                                   *)
(***************************************************************************)
EXTENDS Integers, FiniteSets, SequencesExt, Orders

CONSTANTS
  Graphs,     \* [size, edges, mains, parent, pkg] records
  ViewRequests,   \* [depth, matching, pageSize, selected] records
  Known       \* packages of the metadata, as paths

ASSUME GraphsAssumption ==
  \A g \in Graphs : g.size \in Nat /\ g.edges \in Seq((1..g.size) \X (1..g.size))

\* A size below 1 is replaced by the server's own (server.go:824-830).
ASSUME RequestsAssumption == \A r \in ViewRequests : r.pageSize \in Nat \ {0}

\* Paths are sequences; those of the metadata are not empty.
ASSUME PathsAssumption ==
  /\ \A g \in Graphs : \A n \in 1..g.size : g.pkg[n] \in Seq(Range(g.pkg[n]))
  /\ IsFiniteSet(Known) /\ \A q \in Known : q # <<>> /\ q \in Seq(Range(q))

VARIABLES
  graph,
  queue,      \* nodes still to be taken, with the depth they were put in at
  depths,     \* node -> depth, for the nodes that have one
  visited,
  viewRequest  \* NoRequest until the depths are known

viewVars == <<graph, queue, depths, visited, viewRequest>>

NoRequest == [answered |-> FALSE]

Nodes == 1..graph.size

IsEdge(a, b) == \E i \in DOMAIN graph.edges : graph.edges[i] = <<a, b>>

InDegree(n) == Cardinality({i \in DOMAIN graph.edges : graph.edges[i][2] = n})

(* The fallback for an empty list of roots asks the same question again, *)
(* and finds none either.                                                *)
Roots == InOrder({n \in Nodes : InDegree(n) = 0 \/ n \in graph.mains})

ViewInit ==
  /\ graph \in Graphs
  /\ queue = [i \in DOMAIN Roots |-> [node |-> Roots[i], depth |-> 0]]
  /\ depths = [n \in Range(Roots) |-> 0]
  /\ visited = {}
  /\ viewRequest = NoRequest

-----------------------------------------------------------------------------
LacksAlways(n, d) == TRUE

(* A shorter distance than the one known. *)
Lacks(n, d) == IF n \in DOMAIN depths THEN d < depths[n] ELSE TRUE

(* The neighbours of n that get the depth d, in the order of the edges; a *)
(* neighbour called twice gets it once.                                   *)
Improved(n, d) ==
  LET found == InOrder({i \in DOMAIN graph.edges :
                          /\ graph.edges[i][1] = n
                          /\ Lacks(graph.edges[i][2], d)
                          /\ \A j \in 1..(i - 1) : graph.edges[j] # graph.edges[i]})
  IN  [k \in DOMAIN found |-> graph.edges[found[k]][2]]

(* One turn of the loop over the queue. *)
Dequeue ==
  /\ queue # <<>>
  /\ LET n   == Head(queue).node
         d   == Head(queue).depth + 1
         new == IF n \in visited THEN <<>> ELSE Improved(n, d)
     IN  /\ queue' = Tail(queue) \o [i \in DOMAIN new |-> [node |-> new[i], depth |-> d]]
         /\ depths' = [m \in DOMAIN depths \union Range(new) |->
                         IF m \in Range(new) THEN d ELSE depths[m]]
         /\ visited' = visited \union {n}
  /\ UNCHANGED <<graph, viewRequest>>

(* A request is answered when the depths are known; the answers are the *)
(* operators below.                                                     *)
Ask(r) ==
  /\ queue = <<>>
  /\ viewRequest = NoRequest
  /\ viewRequest' = r
  /\ UNCHANGED <<graph, queue, depths, visited>>

ViewNext == Dequeue \/ \E r \in ViewRequests : Ask(r)

ViewSpec == ViewInit /\ [][ViewNext]_viewVars

Asked == viewRequest # NoRequest

-----------------------------------------------------------------------------
(* The depth filter, for both views. *)
DeepEnough == {n \in DOMAIN depths : depths[n] <= viewRequest.depth}

DepthEdges ==
  LET kept == InOrder({i \in DOMAIN graph.edges : /\ graph.edges[i][1] \in DeepEnough
                                                  /\ graph.edges[i][2] \in DeepEnough})
  IN  [k \in DOMAIN kept |-> graph.edges[kept[k]]]

(* generatePaginatedDataInternal: nodeMatchesFilters, and for a page the   *)
(* filter by package as well, let the matching nodes through.              *)
Filtered == InOrder({n \in Nodes : n \in DeepEnough /\ n \in viewRequest.matching})

Smaller(a, b) == IF a < b THEN a ELSE b

SliceFromZero(p) ==
  SubSeq(Filtered, p * viewRequest.pageSize + 1,
                   Smaller((p + 1) * viewRequest.pageSize, Len(Filtered)))

(* The part of the filtered nodes that makes up page p. *)
Slice(p) ==
  SubSeq(Filtered, (p - 1) * viewRequest.pageSize + 1,
                   Smaller(p * viewRequest.pageSize, Len(Filtered)))

(* Functions put on page p because a literal on it is theirs. *)
ParentsOn(p) == {graph.parent[n] : n \in Range(Slice(p))} \ (Range(Slice(p)) \union {0})

PageNodes(p) == Range(Slice(p)) \union ParentsOn(p)

(* The edges that TotalEdges counts, and those of them that are on page p. *)
FilteredEdges ==
  {e \in Range(DepthEdges) : e[1] \in Range(Filtered) /\ e[2] \in Range(Filtered)}

PageEdges(p) ==
  {e \in FilteredEdges : e[1] \in Range(Slice(p)) /\ e[2] \in Range(Slice(p))}

HasMore(p) == Len(Slice(p)) + Cardinality(ParentsOn(p)) < Len(Filtered)

TotalPages == (Len(Filtered) + viewRequest.pageSize - 1) \div viewRequest.pageSize

-----------------------------------------------------------------------------
(* A path belongs to a package when it is the package or below it. *)
InPackage(path, package) == IsPrefix(package, path)

(* What is in a selected package and passes nodeMatchesFilters. *)
Selected ==
  {n \in DeepEnough : /\ \E q \in viewRequest.selected : InPackage(graph.pkg[n], q)
                      /\ n \in viewRequest.matching}

(* generatePackageBasedData without isolate: the edges are gone through   *)
(* once, and an edge that leaves the view pulls its other end into it,    *)
(* whether it passes the filters or not, so that later edges can pull     *)
(* further.                                                               *)
Expansion[i \in Nat] ==
  IF i = 0 THEN [nodes |-> Selected, edges |-> {}]
  ELSE LET view == Expansion[i - 1]
           e    == DepthEdges[i]
       IN  IF e[1] \in view.nodes \/ e[2] \in view.nodes
           THEN [nodes |-> view.nodes \union {e[1], e[2]},
                 edges |-> view.edges \union {e}]
           ELSE view

IsolatedView ==
  [nodes |-> Selected,
   edges |-> {e \in Range(DepthEdges) : e[1] \in Selected /\ e[2] \in Selected}]

PackageView(isolate) == IF isolate THEN IsolatedView ELSE Expansion[Len(DepthEdges)]

-----------------------------------------------------------------------------
(* handlePackageHierarchy: packages are those of the metadata and of the  *)
(* nodes; every proper prefix of one becomes an inner node of the tree.   *)
Packaged == {n \in Nodes : graph.pkg[n] # <<>>}

PackageSet == Known \union {graph.pkg[n] : n \in Packaged}

CountOf(path) == Cardinality({n \in Nodes : graph.pkg[n] = path})

TreePaths == (UNION {Prefixes(q) : q \in PackageSet}) \ {<<>>}

ChildrenOf(path) == {q \in TreePaths : Len(q) = Len(path) + 1 /\ IsPrefix(path, q)}

RootPackages == {q \in PackageSet : \A r \in PackageSet : r # q => ~IsPrefix(r, q)}

MaxTreeDepth == 20

SumOver(counts, paths) == MapThenSumSet(LAMBDA q : counts[q], paths)

(* buildTree, cut at twenty levels: what the subtrees at the paths count, *)
(* with the levels still allowed.                                         *)
TreeCount[levels \in 0..MaxTreeDepth] ==
  [path \in TreePaths |->
     CountOf(path) + (IF levels = 0 THEN 0
                      ELSE SumOver(TreeCount[levels - 1], ChildrenOf(path)))]

-----------------------------------------------------------------------------
(* What the depth should be: the length of a shortest chain of calls from *)
(* a function nobody calls or one named main.                             *)
Within[d \in Nat] ==
  IF d = 0 THEN Range(Roots)
  ELSE LET nearer == Within[d - 1]
       IN  nearer \union {n \in Nodes : \E m \in nearer : IsEdge(m, n)}

(* A function's depth is its distance from the roots, and the functions    *)
(* without one are exactly those no root reaches, the cycles nobody else   *)
(* calls and what only they call; these are in no view (server.go:911).    *)
DepthIsDistance ==
  queue = <<>> =>
    /\ DOMAIN depths = Within[graph.size]
    /\ \A n \in DOMAIN depths :
         n \in Within[depths[n]] /\ (depths[n] > 0 => n \notin Within[depths[n] - 1])

(* A client that asks for the pages TotalNodes promises gets every node it *)
(* asked for once, apart from the functions that come along with their     *)
(* literals.  It gets an edge once if the page size puts both ends on one  *)
(* page; an edge between two pages, which TotalEdges counts too, is on     *)
(* none of them.  While nodes are missing HasMore does not say otherwise,  *)
(* unless functions that come along make up the number                     *)
(* (server.go:1077-1130).                                                  *)
PagesAreComplete ==
  Asked =>
    /\ \A n \in Range(Filtered) :
         Cardinality({p \in 1..TotalPages : n \in Range(Slice(p))}) = 1
    /\ \A e \in FilteredEdges :
         Cardinality({p \in 1..TotalPages : e \in PageEdges(p)}) =
           IF \E p \in 1..TotalPages : {e[1], e[2]} \subseteq Range(Slice(p)) THEN 1 ELSE 0
    /\ \A p \in 1..TotalPages :
         ~HasMore(p) /\ ParentsOn(p) = {} => p = TotalPages

(* The package view has every call at a selected function that is within  *)
(* the depth.  How much more it has depends on the order of the edges,    *)
(* but all of it hangs together                                           *)
(* with the selection over calls that are shown (server.go:700-728).      *)
NeighboursAreShown ==
  Asked =>
    LET view == PackageView(FALSE)
    IN  /\ \A e \in Range(DepthEdges) :
             e[1] \in Selected \/ e[2] \in Selected => e \in view.edges
        /\ \A S \in SUBSET view.nodes :
             /\ Selected \subseteq S
             /\ \A e \in view.edges : e[1] \in S <=> e[2] \in S
             => S = view.nodes

(* The package tree counts every function with a package once: what its   *)
(* roots add up to is the total that is sent with them, although packages  *)
(* nest and some of the inner nodes are no packages.  Below the levels it  *)
(* is cut at, it counts none (server.go:447-555).                          *)
TreeCountsEachNodeOnce ==
  Asked /\ (\A q \in PackageSet : Len(q) <= MaxTreeDepth + 1) =>
    SumOver(TreeCount[MaxTreeDepth], RootPackages) = Cardinality(Packaged)

(* What the three views show of what was asked for: the pages every        *)
(* function, and every call but those between two pages; the package view  *)
(* every call at the selection; the package tree a count of every function *)
(* (handlePaginatedDiagram, handlePackageBasedDiagram,                     *)
(* handlePackageHierarchy).                                                *)
ViewsAreComplete == PagesAreComplete /\ NeighboursAreShown /\ TreeCountsEachNodeOnce
=============================================================================
