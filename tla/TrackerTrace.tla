---------------------------- MODULE TrackerTrace ----------------------------
(***************************************************************************)
(* The call trace of an endpoint from the tracker tree                     *)
(* (internal/insight/metrics.go, analyzeTrackerSubtree): a breadth-first   *)
(* walk of the part of the tree below the endpoint's route.                *)
(*                                                                         *)
(* program.tree is that part as internal/spec/tracker.go builds it, with   *)
(* nodes 1 to size and the route 0.  A node has its children, the place of *)
(* its call in the edges (0 for none), and a key (0 for the empty one);    *)
(* builtins are the nodes with a call of one of Go's builtins.  A node     *)
(* with a key may be below itself: the walk opens a key once, so it makes  *)
(* no difference how often the tree repeats a recursive call.  An argument *)
(* of a call is a child of the call's node, and unless it is a call itself *)
(* it has the same edge (tracker.go:902-911).  below is not in the code:   *)
(* it names the function a node hangs below, for the properties.           *)
(*                                                                         *)
(* A trace without a link from the handler is thrown away for the one of   *)
(* ResolvedTrace (metrics.go:588).                                         *)
(***************************************************************************)
EXTENDS CallTrace

TreeNodes(t) == 1..t.size

ASSUME TreesAssumption ==
  \A p \in Programs :
    LET t == p.tree
    IN  /\ t.size \in Nat
        /\ t.edge \in [TreeNodes(t) -> {0} \union DOMAIN p.edges]
        /\ t.key \in [TreeNodes(t) -> Nat]
        /\ t.builtins \subseteq TreeNodes(t)
        /\ t.below \in [TreeNodes(t) -> Traced]
        /\ t.kids \in [{0} \union TreeNodes(t) -> Seq(TreeNodes(t))]
        /\ \A n \in DOMAIN t.kids : \A i \in DOMAIN t.kids[n] :
             t.key[t.kids[n][i]] # 0 \/ n < t.kids[n][i]

VARIABLES
  items,  \* queue: a node, the function it is in, and its depth
  taken   \* visited, the keys

trackerVars == <<traceVars, items, taken>>

tree == program.tree

From(n) == Edge(tree.edge[n])[1]

To(n) == Edge(tree.edge[n])[2]

(* What is put into the queue for the children of n. *)
ItemsFor(n, id, d) ==
  [i \in DOMAIN tree.kids[n] |-> [node |-> tree.kids[n][i], id |-> id, d |-> d]]

WithEdge == {i \in DOMAIN tree.kids[0] : tree.edge[tree.kids[0][i]] # 0}

(* The handler is the caller of the first child with an edge. *)
TrackerInit ==
  /\ TraceInit
  /\ \E i \in WithEdge : /\ \A j \in WithEdge : i <= j
                         /\ program.root = From(tree.kids[0][i])
  /\ items = ItemsFor(0, program.root, 0)
  /\ taken = {}

-----------------------------------------------------------------------------
Item == Head(items)

(* At the top of the loop: the depth, then the key. *)
DropDeep ==
  /\ items # <<>>
  /\ Item.d >= bounds.depth
  /\ cut' = TRUE
  /\ items' = Tail(items)
  /\ UNCHANGED <<program, bounds, links, depth, taken>>

Opened(n) == tree.key[n] # 0 /\ tree.key[n] \in taken

SkipOpened ==
  /\ items # <<>>
  /\ Item.d < bounds.depth
  /\ Opened(Item.node)
  /\ items' = Tail(items)
  /\ UNCHANGED <<traceVars, taken>>

Takes(n) ==
  /\ items # <<>>
  /\ Item.d < bounds.depth
  /\ n = Item.node
  /\ ~Opened(n)
  /\ taken' = taken \union ({tree.key[n]} \ {0})

(* A node without a call stands for what is below it. *)
OpenWrapper ==
  \E n \in TreeNodes(tree) :
    /\ Takes(n)
    /\ tree.edge[n] = 0 /\ n \notin tree.builtins
    /\ items' = Tail(items) \o ItemsFor(n, Item.id, Item.d)
    /\ UNCHANGED traceVars

SkipBuiltin ==
  \E n \in tree.builtins :
    /\ Takes(n)
    /\ items' = Tail(items)
    /\ UNCHANGED traceVars

NeverHops(n, id) == FALSE

(* The call is made by another function than the one the node is in. *)
Hops(n, id) == From(n) \notin {id, To(n)}

FollowEdge ==
  \E n \in TreeNodes(tree) \ tree.builtins :
    /\ Takes(n)
    /\ tree.edge[n] # 0
    /\ LET id      == Item.id
           hops    == Hops(n, id)
           at      == IF hops THEN From(n) ELSE id
           d       == IF hops THEN Item.d + 1 ELSE Item.d
           reached == IF hops THEN WithDepth(depth, at, d) ELSE depth
       IN  /\ links' = AddLink(IF hops THEN AddLink(links, id, at) ELSE links, at, To(n))
           /\ depth' = IF To(n) = at THEN reached ELSE WithDepth(reached, To(n), d + 1)
           /\ IF Cardinality(DOMAIN depth') > bounds.reachable
                THEN cut' = TRUE /\ items' = Tail(items)
                ELSE items' = Tail(items) \o ItemsFor(n, To(n), d + 1) /\ UNCHANGED cut
    /\ UNCHANGED <<program, bounds>>

WalkedTree == items = <<>>

TrackerNext == DropDeep \/ SkipOpened \/ OpenWrapper \/ SkipBuiltin \/ FollowEdge

(* The walk ends: below a node without a call there are others without one *)
(* only as far as the tree goes, and any other call is one deeper.         *)
TrackerSpec == TrackerInit /\ [][TrackerNext]_trackerVars

-----------------------------------------------------------------------------
(* The function whose calls hang below a node. *)
In(n) == IF n = 0 THEN program.root
         ELSE IF tree.edge[n] = 0 THEN tree.below[n] ELSE To(n)

(* The children of a node are what its function does, or, where that is a  *)
(* method of an interface, what the methods do that implement it: there    *)
(* are no arguments in the tree.                                           *)
CallsOnly ==
  \A n \in DOMAIN tree.kids : \A i \in DOMAIN tree.kids[n] :
    LET k == tree.kids[n][i]
    IN  /\ tree.below[k] = In(n)
        /\ tree.edge[k] # 0 => From(k) \in {In(n)} \union Implementers(In(n))

(* The tree has all of it, below every call; one key is one call.          *)
Covers ==
  /\ CallsOnly
  /\ tree.builtins = {}
  /\ \A n \in {0} \union {m \in TreeNodes(tree) : tree.edge[m] # 0} :
       /\ \A e \in DOMAIN program.edges :
            Edge(e)[1] \in {In(n)} \union Implementers(In(n))
              => \E i \in DOMAIN tree.kids[n] : tree.edge[tree.kids[n][i]] = e
       /\ \A m \in Implementers(In(n)) :
            \E e \in DOMAIN program.edges : Edge(e)[1] = m
  /\ \A m, n \in TreeNodes(tree) :
       tree.key[m] = tree.key[n] /\ tree.key[m] # 0 => tree.edge[m] = tree.edge[n]

(* A link says that one function calls or implements the other, if the     *)
(* tree has only calls: a caller that is not the function the node is in   *)
(* is then an implementation of it (metrics.go:540-557).                   *)
TreeLinksAreReal == CallsOnly => LinksAreReal

(* From a tree that has all calls, the trace has what the handler can run  *)
(* and the calls in it, unless it is marked as cut: the same as the trace  *)
(* from the call graph (metrics.go:270-289).                               *)
TreeTraceIsComplete ==
  WalkedTree /\ ~cut /\ Covers =>
    /\ DOMAIN depth = CanRun
    /\ \A m \in DOMAIN depth : \A n \in Traced :
         Calls(m, n) /\ n # m => n \in Range(links[m])

(* Both, and however the trace is cut, what it counts hangs together        *)
(* (CallTrace!TraceIsConnected).                                            *)
TrackerTraceIsRight == TreeLinksAreReal /\ TreeTraceIsComplete /\ TraceIsConnected
=============================================================================
