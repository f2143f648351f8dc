------------------------------ MODULE LazyTree ------------------------------
(***************************************************************************)
(* The call tree that is unfolded on demand (internal/spec/lazytree.go).   *)
(* The call graph enters as a plan: for every content a node can have, the *)
(* children that buildPlan lists for it.  GetChildren lays the guards of   *)
(* the path, of the scope and of the budget over it, and its consumers ask *)
(* for the children of any node, in any order and as often as they like.   *)
(*                                                                         *)
(* A key is an instance ID, so one call site or one argument.  A call that *)
(* is an argument of another has one key as both, and a plan can list it   *)
(* twice: in func f() { f(g()) } the inner f has g() as an argument, and   *)
(* as a call of the function f.                                            *)
(***************************************************************************)
EXTENDS Integers, Sequences, FiniteSets

CONSTANTS
  Keys,
  Roots,               \* keys of main functions
  Wiring,              \* the instance scope of nodes outside all arguments
  MaxInstancesPerKey,
  Plans,               \* plans and limits to be considered
  Limits

Contents == [key : Keys, arg : BOOLEAN]

(* A planned child; chained is a call in a chain after the node's call. *)
Specs == [key : Keys, arg : BOOLEAN, chained : BOOLEAN]

ASSUME LazyTreeAssumption ==
  /\ Roots \subseteq Keys
  /\ Wiring \notin Keys
  /\ MaxInstancesPerKey \in Nat \ {0}
  /\ Plans \subseteq [Contents -> Seq(Specs)]
  /\ Limits \subseteq [nodes : Int, children : Int]

(* A plan lists its arguments first, and a key once as an argument, whose  *)
(* ID ends with its position in the source, and once as a call: buildPlan  *)
(* keeps the calls that it has added in a map.                             *)
ASSUME PlansAssumption ==
  \A pl \in Plans : \A c \in Contents : \A i, j \in DOMAIN pl[c] :
    /\ pl[c][i].key = pl[c][j].key /\ pl[c][i].arg = pl[c][j].arg => i = j
    /\ pl[c][i].arg /\ ~pl[c][j].arg => i < j

VARIABLES
  plan,           \* what planFor answers
  limits,         \* MaxNodesPerTree and MaxChildrenPerNode
  nodes,          \* the LazyNodes there are
  expanded,       \* those that have been
  instanceCount,  \* per scope and key
  seenKeys        \* nodesBuilt is the number of these

vars == <<plan, limits, nodes, expanded, instanceCount, seenKeys>>

(* A node: the contents it is listed under, from the root to its own, and  *)
(* those along its parents, which for a chained call leave out the call    *)
(* that lists it; scope is where it was counted.                           *)
Node(listed, line, scope) == [listed |-> listed, line |-> line, scope |-> scope]

Nodes == [listed : Seq(Contents), line : Seq(Contents), scope : Keys \union {Wiring}]

Own(n) == n.line[Len(n.line)]

KeysOn(line) == {line[i].key : i \in DOMAIN line}

OnPath(n, key) == key \in KeysOn(n.line)

(* The nearest argument at or above n. *)
InstanceScope(n) ==
  LET args == {i \in DOMAIN n.line : n.line[i].arg}
  IN IF args = {}
       THEN Wiring
       ELSE n.line[CHOOSE i \in args : \A j \in args : j <= i].key

NodesBuilt == Cardinality(seenKeys)

BudgetExhausted == limits.nodes > 0 /\ NodesBuilt >= limits.nodes

TypeOK ==
  /\ plan \in [Contents -> Seq(Specs)]
  /\ limits \in [nodes : Int, children : Int]
  /\ nodes \subseteq Nodes
  /\ expanded \subseteq nodes
  /\ instanceCount \in [Keys \union {Wiring} -> [Keys -> 0..MaxInstancesPerKey]]
  /\ seenKeys \subseteq Keys

Init ==
  /\ plan \in Plans
  /\ limits \in Limits
  /\ nodes = {Node(<<c>>, <<c>>, Wiring) : c \in [key : Roots, arg : {FALSE}]}
  /\ expanded = {}
  /\ instanceCount = [s \in Keys \union {Wiring} |-> [k \in Keys |-> 0]]
  /\ seenKeys = {}

-----------------------------------------------------------------------------
PlanFor(n) == plan[Own(n)]

(* A place in n's plan that lists the key of an earlier one, which is then *)
(* an argument, finds it counted if it was made.                           *)
Ahead(n, i) ==
  Cardinality({j \in DOMAIN PlanFor(n) : j < i /\ PlanFor(n)[j].key = PlanFor(n)[i].key})

CopiesSoFar(n, i) == instanceCount[InstanceScope(n)][PlanFor(n)[i].key] + Ahead(n, i)

AdmitsOnAnyPath(n, i) == CopiesSoFar(n, i) < MaxInstancesPerKey

AdmitsNew(n, i) ==
  ~OnPath(n, PlanFor(n)[i].key) /\ PlanFor(n)[i].key \notin seenKeys

(* Not on n's own path, and not yet too often in its scope.                *)
Admits(n, i) ==
  /\ ~OnPath(n, PlanFor(n)[i].key)
  /\ CopiesSoFar(n, i) < MaxInstancesPerKey

AdmittedCalls(n) == {i \in DOMAIN PlanFor(n) : ~PlanFor(n)[i].arg /\ Admits(n, i)}

(* The places in the plan whose children are made: of the calls, as many   *)
(* as MaxChildrenPerNode.                                                  *)
Made(n) ==
  {i \in DOMAIN PlanFor(n) :
    /\ Admits(n, i)
    /\ \/ PlanFor(n)[i].arg
       \/ Cardinality({j \in AdmittedCalls(n) : j < i}) < limits.children}

(* A chained call hangs under the parent of the node that lists it. *)
LineAbove(n, spec) ==
  IF ~spec.arg /\ spec.chained /\ Len(n.line) > 1
    THEN SubSeq(n.line, 1, Len(n.line) - 1)
    ELSE n.line

Content(spec) == [key |-> spec.key, arg |-> spec.arg]

Child(n, spec) ==
  Node(Append(n.listed, Content(spec)), Append(LineAbove(n, spec), Content(spec)),
       InstanceScope(n))

PlacesOf(n, places, k) == {i \in places : PlanFor(n)[i].key = k}

CountedIfNew(n, places) ==
  [instanceCount EXCEPT ![InstanceScope(n)] =
    [k \in Keys |-> IF k \in seenKeys THEN @[k]
                      ELSE @[k] + Cardinality(PlacesOf(n, places, k))]]

(* As many more of each key, in n's scope, as there are places.            *)
Counted(n, places) ==
  [instanceCount EXCEPT ![InstanceScope(n)] =
    [k \in Keys |-> @[k] + Cardinality(PlacesOf(n, places, k))]]

(* GetChildren, the first time. *)
Expand(n) ==
  /\ n \notin expanded
  /\ ~BudgetExhausted
  /\ nodes' = nodes \union {Child(n, PlanFor(n)[i]) : i \in Made(n)}
  /\ expanded' = expanded \union {n}
  /\ instanceCount' = Counted(n, Made(n))
  /\ seenKeys' = seenKeys \union {PlanFor(n)[i].key : i \in Made(n)}
  /\ UNCHANGED <<plan, limits>>

(* Later, or with the budget spent, it answers what there is. *)
Reread(n) ==
  /\ n \in expanded \/ BudgetExhausted
  /\ UNCHANGED vars

Next == \E n \in nodes : Expand(n) \/ Reread(n)

(* A walk of the tree goes on as long as there is something to unfold: of  *)
(* the walks that keep no record of what they have seen, findTargetNode    *)
(* and extractRouteChildren in extractor.go.                               *)
Spec == Init /\ [][Next]_vars /\ WF_vars(\E n \in nodes : Expand(n))

-----------------------------------------------------------------------------
Key(n) == Own(n).key

ListedBy(n) == {m \in nodes : /\ Len(m.listed) = Len(n.listed) + 1
                              /\ SubSeq(m.listed, 1, Len(n.listed)) = n.listed}

(* The key of the last argument on n's line, if any. *)
Argument(n) ==
  {n.line[i].key : i \in {j \in DOMAIN n.line :
     n.line[j].arg /\ \A k \in DOMAIN n.line : k > j => ~n.line[k].arg}}

(* As many calls are planned before i as a node may list. *)
PastChildLimit(n, i) ==
  /\ ~PlanFor(n)[i].arg
  /\ Cardinality({j \in DOMAIN PlanFor(n) : j < i /\ ~PlanFor(n)[j].arg})
       >= limits.children

Walked == \A n \in nodes : n \in expanded \/ BudgetExhausted

(* No call is its own ancestor, also across chained calls, whose parents   *)
(* are not the nodes that list them: GetTypeParamMap, instanceScope and    *)
(* the value traces climb parents without looking where they have been.    *)
LinesAcyclic ==
  \A n \in nodes : \A i, j \in DOMAIN n.line :
    n.line[i].key = n.line[j].key => i = j

(* A handler's subtree holds at most MaxInstancesPerKey copies of a call,  *)
(* whichever nodes list them and in whatever order they are asked.         *)
InstancesBounded ==
  \A n \in nodes : \A k \in Keys :
    Cardinality({m \in UNION {ListedBy(l) : l \in {u \in nodes : Argument(u) = Argument(n)}} :
                   Key(m) = k})
      <= MaxInstancesPerKey

(* "Each scope gets its own copy allowance, so shared helpers trace per    *)
(* route": a call that a handler's function makes has a node in that       *)
(* handler's own subtree, unless it is on the path, however many copies    *)
(* other handlers have taken.  Only MaxChildrenPerNode can take it away.   *)
HandlersKeepTheirCalls ==
  \A n \in expanded : \A i \in DOMAIN PlanFor(n) :
    LET spec == PlanFor(n)[i]
    IN \/ \E l \in nodes : /\ Argument(l) = Argument(n)
                           /\ \E m \in ListedBy(l) : Key(m) = spec.key
       \/ OnPath(n, spec.key)
       \/ PastChildLimit(n, i)

(* Cutting cycles and copies loses no function: a walk that no limit has   *)
(* stopped has met everything that is reached by calls and arguments.      *)
NothingLost ==
  /\ nodes \subseteq expanded
  /\ \A n \in nodes : \A i \in DOMAIN PlanFor(n) : ~PastChildLimit(n, i)
  => \A n \in nodes : \A i \in DOMAIN PlanFor(n) :
       \E m \in nodes : Key(m) = PlanFor(n)[i].key

(* The cuts that keep the tree small lose no call of a handler's function, *)
(* and no function (lazytree.go:566-640, onPath).                  *)
CallsAreKept == HandlersKeepTheirCalls /\ NothingLost

(* The unfolding of any graph ends, with no help from the node budget:     *)
(* chained calls, which their own listers' keys do not guard, included.    *)
UnfoldingEnds == <>Walked

=============================================================================
