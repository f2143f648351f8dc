----------------------------- MODULE TracePaths -----------------------------
(***************************************************************************)
(* The call paths of a trace on the insight page                           *)
(* (internal/insight/metrics.go): how many there are (countPaths) and what *)
(* they are (enumeratePaths), each a depth-first walk over the links of    *)
(* the trace with the recursion written as a stack.  The links are those   *)
(* of CallTrace.                                                           *)
(*                                                                         *)
(* A step of countPaths is one callee of the function on top, or its       *)
(* return; a step of enumeratePaths likewise.  A path is listed by its     *)
(* functions, where the code has their short labels.                       *)
(***************************************************************************)
EXTENDS Integers, FiniteSets, SequencesExt, Orders

CONSTANTS
  Linked,      \* the functions of the trace
  Handlers,    \* those the trace may start from
  LinkGraphs,  \* [Linked -> sequences of the functions it leads to]
  PathLimits   \* [count, list]: maxPaths and maxPathSample

ASSUME LinkedAssumption == IsFiniteSet(Linked) /\ Handlers \subseteq Linked

\* No link twice and none from a function to itself (addEdge).
ASSUME LinkGraphsAssumption ==
  \A g \in LinkGraphs :
    /\ g \in [Linked -> Seq(Linked)]
    /\ \A n \in Linked : IsInjective(g[n]) /\ n \notin Range(g[n])

\* A function without callees is counted without a look at the limit, so one
\* of a single path would not be noticed there.
ASSUME PathLimitsAssumption ==
  PathLimits \subseteq [count : Nat \ {0, 1}, list : Nat \ {0}]

VARIABLES
  adj,
  handler,    \* root
  caps,
  frames,     \* calls of countPaths' dfs: [fn, next, sum]
  memo,       \* of the functions it has one for
  truncated,
  counted,    \* the result, 0 while there is none
  descents,   \* calls of enumeratePaths' dfs: [fn, todo]
  listed      \* out

givenVars == <<adj, handler, caps>>
countVars == <<frames, memo, truncated, counted>>
pathVars  == <<givenVars, countVars, descents, listed>>

NoPathsYet ==
  /\ frames = <<>>
  /\ memo = <<>>
  /\ truncated = FALSE
  /\ counted = 0
  /\ descents = <<>>
  /\ listed = <<>>

PathsInit ==
  /\ adj \in LinkGraphs
  /\ handler \in Handlers
  /\ caps \in PathLimits
  /\ NoPathsYet

Fns(calls) == [i \in DOMAIN calls |-> calls[i].fn]

-----------------------------------------------------------------------------
(* countPaths *)
CountFrame(n) == [fn |-> n, next |-> 1, sum |-> 0]

(* The memo and the leaves. *)
HasCount(n) == n \in DOMAIN memo \/ adj[n] = <<>>

Value(n) == IF n \in DOMAIN memo THEN memo[n] ELSE 1

GoesPast(total) == total > caps.count

Reaches(total) == total >= caps.count

(* The loop goes on with v more paths, or breaks at the limit. *)
Added(frame, v) ==
  IF Reaches(frame.sum + v)
  THEN [frame EXCEPT !.sum = caps.count, !.next = Len(adj[frame.fn]) + 1]
  ELSE [frame EXCEPT !.sum = @ + v, !.next = @ + 1]

(* v is added in the last of calls. *)
AddsOn(calls, v) ==
  /\ frames' = [calls EXCEPT ![Len(calls)] = Added(@, v)]
  /\ truncated' = (truncated \/ Reaches(Last(calls).sum + v))

StartCount ==
  /\ counted = 0 /\ frames = <<>>
  /\ IF HasCount(handler)
       THEN counted' = Value(handler) /\ UNCHANGED frames
       ELSE frames' = <<CountFrame(handler)>> /\ UNCHANGED counted
  /\ UNCHANGED <<givenVars, memo, truncated, descents, listed>>

(* The callee the loop of the function on top is at. *)
AtCallee(k) ==
  /\ frames # <<>>
  /\ Last(frames).next <= Len(adj[Last(frames).fn])
  /\ k = adj[Last(frames).fn][Last(frames).next]

CountCycle ==
  \E k \in Linked :
    /\ AtCallee(k)
    /\ k \in Range(Fns(frames))
    /\ frames' = [frames EXCEPT ![Len(frames)].next = @ + 1]
    /\ UNCHANGED <<givenVars, memo, truncated, counted, descents, listed>>

CountKnown ==
  \E k \in Linked :
    /\ AtCallee(k)
    /\ k \notin Range(Fns(frames)) /\ HasCount(k)
    /\ AddsOn(frames, Value(k))
    /\ UNCHANGED <<givenVars, memo, counted, descents, listed>>

CountCall ==
  \E k \in Linked :
    /\ AtCallee(k)
    /\ k \notin Range(Fns(frames)) /\ ~HasCount(k)
    /\ frames' = Append(frames, CountFrame(k))
    /\ UNCHANGED <<givenVars, memo, truncated, counted, descents, listed>>

(* A function all of whose callees are on the stack counts as one path. *)
CountReturn ==
  /\ frames # <<>>
  /\ Last(frames).next > Len(adj[Last(frames).fn])
  /\ LET n     == Last(frames).fn
         total == IF Last(frames).sum = 0 THEN 1 ELSE Last(frames).sum
     IN  /\ memo' = IF truncated THEN memo
                    ELSE [m \in DOMAIN memo \union {n} |-> IF m = n THEN total ELSE memo[m]]
         /\ IF Len(frames) = 1
              THEN counted' = total /\ frames' = <<>> /\ UNCHANGED truncated
              ELSE AddsOn(Front(frames), total) /\ UNCHANGED counted
  /\ UNCHANGED <<givenVars, descents, listed>>

CountStep == StartCount \/ CountCycle \/ CountKnown \/ CountCall \/ CountReturn

-----------------------------------------------------------------------------
(* enumeratePaths *)
(* The callees that are not on the path. *)
Unvisited(n, path) ==
  LET places == InOrder({i \in DOMAIN adj[n] : adj[n][i] \notin Range(path)})
  IN  [i \in DOMAIN places |-> adj[n][places[i]]]

(* dfs(n) below calls, which are the callers on the path. *)
Enter(n, calls) ==
  LET path == Fns(calls)
  IN  IF Unvisited(n, path) = <<>>
      THEN listed' = Append(listed, Append(path, n)) /\ descents' = calls
      ELSE /\ descents' = Append(calls, [fn |-> n, todo |-> Unvisited(n, path)])
           /\ UNCHANGED listed

Full == Len(listed) >= caps.list

StartList ==
  /\ counted # 0 /\ descents = <<>> /\ listed = <<>>
  /\ Enter(handler, <<>>)
  /\ UNCHANGED <<givenVars, countVars>>

Descend ==
  /\ descents # <<>>
  /\ Last(descents).todo # <<>> /\ ~Full
  /\ Enter(Head(Last(descents).todo),
           [descents EXCEPT ![Len(descents)].todo = Tail(@)])
  /\ UNCHANGED <<givenVars, countVars>>

Ascend ==
  /\ descents # <<>>
  /\ Last(descents).todo = <<>> \/ Full
  /\ descents' = Front(descents)
  /\ UNCHANGED <<givenVars, countVars, listed>>

ListStep == StartList \/ Descend \/ Ascend

AllListed == descents = <<>> /\ listed # <<>>

PathsNext == CountStep \/ ListStep

(* Both are calls in one goroutine, which run to their end. *)
PathsSpec == PathsInit /\ [][PathsNext]_pathVars /\ WF_pathVars(PathsNext)

-----------------------------------------------------------------------------
(* A call path: from the handler, over links, through no function twice,   *)
(* and as far as it goes.                                                  *)
IsCallPath(p, root) ==
  /\ p # <<>> /\ p[1] = root
  /\ IsInjective(p)
  /\ \A i \in 1..(Len(p) - 1) : p[i + 1] \in Range(adj[p[i]])
  /\ Range(adj[Last(p)]) \subseteq Range(p)

CallPaths(root) == {p \in SeqOf(Linked, Cardinality(Linked)) : IsCallPath(p, root)}

AtMost(n, cap) == IF n < cap THEN n ELSE cap

(* Nothing calls itself, over however many others. *)
Acyclic == \A S \in SUBSET Linked : S # {} => \E n \in S : Range(adj[n]) \intersect S = {}

(* On a trace without recursion the number of paths is right, up to the    *)
(* limit, and says whether it is the limit: what the memo has of a function*)
(* holds on every way to it (metrics.go:832-870).                          *)
CountIsExact ==
  counted # 0 /\ Acyclic =>
    /\ counted = AtMost(Cardinality(CallPaths(handler)), caps.count)
    /\ truncated <=> Cardinality(CallPaths(handler)) >= caps.count

(* The listed paths are call paths, all different, and all of them or as   *)
(* many as the sample has, with recursion or without (metrics.go:687-725). *)
SampleIsRight ==
  /\ IsInjective(listed)
  /\ \A i \in DOMAIN listed : listed[i] \in Seq(Linked) /\ IsCallPath(listed[i], handler)
  /\ AllListed => Len(listed) = AtMost(Cardinality(CallPaths(handler)), caps.list)

(* The number of call paths and the sample of them, as the page shows them. *)
PathsAreRight == CountIsExact /\ SampleIsRight

(* "Paths is a sample of the distinct handler-leaf call paths ... so the UI *)
(* can show where the call-paths count comes from" (metrics.go:101-104);    *)
(* "Mirrors countPaths' semantics" (metrics.go:688).                        *)
CountsWhatIsListed ==
  counted # 0 => counted = AtMost(Cardinality(CallPaths(handler)), caps.count)
=============================================================================
