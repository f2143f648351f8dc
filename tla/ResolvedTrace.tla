---------------------------- MODULE ResolvedTrace ----------------------------
(***************************************************************************)
(* The call trace of an endpoint from the call graph                       *)
(* (internal/insight/metrics.go, analyzeResolvedCallGraph): a breadth-first*)
(* walk from the handler that follows its calls and, where the callee is a *)
(* method of an interface, goes on to the methods that implement it.       *)
(* analyzeAdjacency is the same walk where nothing implements anything.    *)
(*                                                                         *)
(* A step is one iteration of one of the three loops.  What is kept to be  *)
(* displayed with a function is left out.                                  *)
(***************************************************************************)
EXTENDS CallTrace

VARIABLES
  waiting,  \* queue
  seen,     \* visited: a function beyond the limit is visited and has no depth
  cur,
  owed,     \* the callees of cur that the loop has still to go to
  callee,
  impls     \* the implementations of callee that the loop has still to go to

resolvedVars == <<traceVars, waiting, seen, cur, owed, callee, impls>>

(* A handler without calls has no trace here (metrics.go:297); it has one  *)
(* from analyzeAdjacency, for which nothing implements anything.           *)
ResolvedInit ==
  /\ TraceInit
  /\ HasBody(program.root) \/ \A n \in Traced : program.impl[n] = {}
  /\ waiting = <<program.root>>
  /\ seen = {program.root}
  /\ cur = program.root
  /\ owed = <<>>
  /\ callee = program.root
  /\ impls = {}

-----------------------------------------------------------------------------
(* The functions n calls, other than itself, each at its first call. *)
CalleesOf(n) ==
  LET firsts == InOrder({e \in DOMAIN program.edges :
                           /\ Edge(e)[1] = n
                           /\ Edge(e)[2] # n
                           /\ \A f \in 1..(e - 1) : Edge(f) # Edge(e)})
  IN  [i \in DOMAIN firsts |-> Edge(firsts[i])[2]]

EnqueueUnlessWaiting(n, d) ==
  IF n \in Range(waiting) THEN UNCHANGED <<seen, depth, waiting, cut>>
  ELSE /\ seen' = seen \union {n}
       /\ depth' = WithDepth(depth, n, d)
       /\ waiting' = Append(waiting, n)
       /\ UNCHANGED cut

EnqueueUnmarked(n, d) ==
  IF n \in seen THEN UNCHANGED <<seen, depth, waiting, cut>>
  ELSE /\ seen' = seen \union {n}
       /\ IF Cardinality(seen') > bounds.reachable
            THEN UNCHANGED <<depth, waiting, cut>>
            ELSE /\ depth' = WithDepth(depth, n, d)
                 /\ waiting' = Append(waiting, n)
                 /\ UNCHANGED cut

(* enqueue *)
Enqueue(n, d) ==
  IF n \in seen THEN UNCHANGED <<seen, depth, waiting, cut>>
  ELSE /\ seen' = seen \union {n}
       /\ IF Cardinality(seen') > bounds.reachable
            THEN cut' = TRUE /\ UNCHANGED <<depth, waiting>>
            ELSE /\ depth' = WithDepth(depth, n, d)
                 /\ waiting' = Append(waiting, n)
                 /\ UNCHANGED cut

TakeFunction ==
  /\ owed = <<>> /\ impls = {} /\ waiting # <<>>
  /\ cur' = Head(waiting)
  /\ waiting' = Tail(waiting)
  /\ IF depth[cur'] >= bounds.depth
       THEN cut' = TRUE /\ UNCHANGED owed
       ELSE owed' = CalleesOf(cur') /\ UNCHANGED cut
  /\ UNCHANGED <<program, bounds, links, depth, seen, callee, impls>>

FollowCall ==
  /\ impls = {} /\ owed # <<>>
  /\ callee' = Head(owed)
  /\ owed' = Tail(owed)
  /\ links' = AddLink(links, cur, callee')
  /\ Enqueue(callee', depth[cur] + 1)
  /\ impls' = Implementers(callee')
  /\ UNCHANGED <<program, bounds, cur>>

(* The implementations come from a map, in any order. *)
ResolveCall ==
  \E cid \in impls :
    /\ links' = AddLink(links, callee, cid)
    /\ Enqueue(cid, depth[cur] + 2)
    /\ impls' = impls \ {cid}
    /\ UNCHANGED <<program, bounds, cur, owed, callee>>

Finished == waiting = <<>> /\ owed = <<>> /\ impls = {}

ResolvedNext == TakeFunction \/ FollowCall \/ ResolveCall

(* The walk is one loop in one goroutine, which runs to its end. *)
ResolvedSpec ==
  ResolvedInit /\ [][ResolvedNext]_resolvedVars /\ WF_resolvedVars(ResolvedNext)

-----------------------------------------------------------------------------
(* A trace that is not marked as cut has exactly what the handler can run, *)
(* and all links between the functions it has: "the endpoint trace is the  *)
(* handler's complete scoped subtree" (metrics.go:115-121).                *)
TraceIsComplete ==
  Finished /\ ~cut =>
    /\ DOMAIN depth = CanRun
    /\ \A m \in DOMAIN depth : \A n \in Traced :
         Leads(m, n) /\ n # m => n \in Range(links[m])

(* However it is cut, what is drawn hangs together (metrics.go:891-956): a *)
(* function is drawn only with one that leads to it.                       *)
DrawnIsConnected == HangsTogetherIn(Shown)

(* The three of them, and that no link is made up (CallTrace!LinksAreReal). *)
ResolvedTraceIsRight ==
  LinksAreReal /\ TraceIsComplete /\ TraceIsConnected /\ DrawnIsConnected

(* The walk ends, round cycles of calls and of implementations too          *)
(* (metrics.go:362-432): every function is put into the queue once.         *)
WalkEnds == <>Finished
=============================================================================
