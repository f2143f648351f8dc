------------------------------ MODULE CallTrace ------------------------------
(***************************************************************************)
(* What the two ways to the call trace of an endpoint share                *)
(* (internal/insight/metrics.go): the calls of the program, the links and  *)
(* depths a walk collects, and the part of them that is drawn              *)
(* (buildTraceGraph).  The walks are in ResolvedTrace and TrackerTrace.    *)
(*                                                                         *)
(* A function is a number, in the order of the names.  edges are the calls *)
(* of the call graph, in its order, without those of Go's builtins; body   *)
(* are the functions with an entry in meta.Callers, even if they call only *)
(* builtins; impl says which methods implement a method of an interface.   *)
(***************************************************************************)
EXTENDS Integers, FiniteSets, SequencesExt, Orders

CONSTANTS
  Traced,      \* functions
  Programs,    \* [root, body, edges, impl] records; TrackerTrace adds a tree
  TraceLimits  \* [reachable, depth, nodes]: maxReachable and so on

ASSUME TracedAssumption == IsFiniteSet(Traced) /\ Traced \subseteq Nat \ {0}

ASSUME ProgramsAssumption ==
  \A p \in Programs :
    /\ p.root \in Traced
    /\ p.body \subseteq Traced
    /\ p.edges \in Seq(p.body \X Traced)
    /\ p.impl \in [Traced -> SUBSET Traced]

ASSUME LimitsAssumption ==
  TraceLimits \subseteq [reachable : Nat \ {0}, depth : Nat \ {0}, nodes : Nat \ {0}]

VARIABLES
  program,
  bounds,
  links,  \* adj
  depth,  \* of the functions that have one
  cut     \* DepthTruncated

traceVars == <<program, bounds, links, depth, cut>>

TraceInit ==
  /\ program \in Programs
  /\ bounds \in TraceLimits
  /\ links = [n \in Traced |-> <<>>]
  /\ depth = [n \in {program.root} |-> 0]
  /\ cut = FALSE

-----------------------------------------------------------------------------
Edge(e) == program.edges[e]

HasBody(n) == n \in program.body

(* resolveImplementers, asked only about callees without a body. *)
Implementers(n) == IF HasBody(n) THEN {} ELSE program.impl[n] \intersect program.body

(* addEdge *)
AddLink(l, from, to) ==
  IF from = to \/ to \in Range(l[from]) THEN l ELSE [l EXCEPT ![from] = Append(@, to)]

(* setDepth *)
WithDepth(known, n, d) ==
  IF n \in DOMAIN known THEN known
  ELSE [m \in DOMAIN known \union {n} |-> IF m = n THEN d ELSE known[m]]

-----------------------------------------------------------------------------
(* buildTraceGraph: the nearest functions first and those of one depth by  *)
(* name, up to the limit.                                                  *)
Before(m, n) == depth[m] < depth[n] \/ (depth[m] = depth[n] /\ m < n)

Shown ==
  {n \in DOMAIN depth :
     Cardinality({m \in DOMAIN depth : Before(m, n)}) < bounds.nodes}

-----------------------------------------------------------------------------
(* What the trace is compared with. *)
Calls(m, n) == \E e \in DOMAIN program.edges : Edge(e) = <<m, n>>

Leads(m, n) == Calls(m, n) \/ n \in Implementers(m)

(* What the handler can run: the least set with the handler that is closed *)
(* under calls and implementations.                                        *)
CanRun ==
  {n \in Traced :
     \A S \in SUBSET Traced :
       (program.root \in S /\ \A m \in S : \A k \in Traced : Leads(m, k) => k \in S)
         => n \in S}

(* The functions of S can all be reached from the handler over links       *)
(* within S.                                                               *)
HangsTogetherIn(S) ==
  /\ program.root \in S
  /\ \A T \in SUBSET S :
       (program.root \in T
         /\ \A m \in T : \A k \in S : k \in Range(links[m]) => k \in T)
         => T = S

(* A link says that one function calls the other, or that the other        *)
(* implements it; there are no two of it and none from a function to       *)
(* itself.                                                                 *)
LinksAreReal ==
  \A m \in Traced :
    /\ IsInjective(links[m])
    /\ \A n \in Range(links[m]) : n # m /\ Leads(m, n)

(* However a trace is cut, what it counts hangs together.                  *)
TraceIsConnected == HangsTogetherIn(DOMAIN depth)
=============================================================================
