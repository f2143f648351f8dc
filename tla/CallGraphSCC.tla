---------------------------- MODULE CallGraphSCC ----------------------------
(***************************************************************************)
(* The condensation of the call graph (internal/metadata/scc.go, Tarjan's  *)
(* algorithm with an explicit stack), and the one pass over it that        *)
(* answers "which functions reach a matching call" (reachSet in            *)
(* internal/spec/reachability.go).                                         *)
(*                                                                         *)
(* A function is the position of its BaseID in sorted order, so the least  *)
(* of a set is the first the code visits.  A step is one iteration of the  *)
(* loop over callStack, or of the loop over nodes around it.               *)
(***************************************************************************)
EXTENDS Integers, Sequences

CONSTANT N  \* functions

ASSUME NAssumption == N \in Nat

Functions == 1..N

VARIABLES
  calls,       \* m.CallGraph: pairs of a caller and a callee
  index,       \* discovery index, 0 for unvisited
  lowlink,
  counter,
  stack,       \* tarjanStack; onStack says who is on it
  frames,      \* callStack; todo are the callees not visited yet
  components,  \* Components, each as the set of its members
  dag,         \* DAG
  recursive,   \* Recursive
  done         \* condenseSCC has returned

search == <<index, lowlink, counter, stack, frames, components>>
vars   == <<calls, search, dag, recursive, done>>

Last(s) == s[Len(s)]

Front(s) == SubSeq(s, 1, Len(s) - 1)

Least(S) == CHOOSE n \in S : \A m \in S : n <= m

Nodes == {e[1] : e \in calls} \union {e[2] : e \in calls}

Callees(f) == {g \in Functions : <<f, g>> \in calls}

OnStack(f) == \E i \in DOMAIN stack : stack[i] = f

Frame(f) == [node |-> f, todo |-> Callees(f)]

Frames == [node : Functions, todo : SUBSET Functions]

TypeOK ==
  /\ calls \subseteq Functions \X Functions
  /\ index \in [Functions -> Nat]
  /\ lowlink \in [Functions -> Nat]
  /\ counter \in Nat
  /\ stack \in Seq(Functions)
  /\ frames \in Seq(Frames)
  /\ components \in Seq(SUBSET Functions)
  /\ dag \in Seq(SUBSET (Nat \ {0}))
  /\ recursive \in Seq(BOOLEAN)
  /\ done \in BOOLEAN

Init ==
  /\ calls \in SUBSET (Functions \X Functions)
  /\ index = [f \in Functions |-> 0]
  /\ lowlink = [f \in Functions |-> 0]
  /\ counter = 0
  /\ stack = <<>>
  /\ frames = <<>>
  /\ components = <<>>
  /\ dag = <<>>
  /\ recursive = <<>>
  /\ done = FALSE

-----------------------------------------------------------------------------
(* f gets the next index, and a frame above those of below. *)
Visit(f, below) ==
  /\ counter' = counter + 1
  /\ index' = [index EXCEPT ![f] = counter']
  /\ lowlink' = [lowlink EXCEPT ![f] = counter']
  /\ stack' = Append(stack, f)
  /\ frames' = Append(below, Frame(f))

(* The loop over nodes, where the search has unwound. *)
VisitRoot ==
  /\ frames = <<>>
  /\ \E f \in Nodes : index[f] = 0
  /\ Visit(Least({f \in Nodes : index[f] = 0}), frames)
  /\ UNCHANGED <<calls, components, dag, recursive, done>>

RelaxesAny(node, next) == index[next] < lowlink[node]

(* A callee that was visited lowers the caller only if it is on the stack: *)
(* otherwise its component has been emitted.                               *)
Relaxes(node, next) == OnStack(next) /\ index[next] < lowlink[node]

(* The next callee of the function on top. *)
VisitCallee ==
  /\ frames # <<>>
  /\ Last(frames).todo # {}
  /\ LET node == Last(frames).node
         next == Least(Last(frames).todo)
         rest == [frames EXCEPT ![Len(frames)].todo = @ \ {next}]
     IN \/ index[next] = 0 /\ Visit(next, rest)
        \/ /\ index[next] # 0
           /\ frames' = rest
           /\ lowlink' = IF Relaxes(node, next)
                           THEN [lowlink EXCEPT ![node] = index[next]]
                           ELSE lowlink
           /\ UNCHANGED <<index, counter, stack>>
  /\ UNCHANGED <<calls, components, dag, recursive, done>>

NothingPropagated(node, below) == lowlink

(* What a retired frame passes on to the frame below. *)
Propagated(node, below) ==
  IF below # <<>> /\ lowlink[node] < lowlink[Last(below).node]
    THEN [lowlink EXCEPT ![Last(below).node] = lowlink[node]]
    ELSE lowlink

Place(f) == CHOOSE i \in DOMAIN stack : stack[i] = f

(* The members of node's component: node and everything above it. *)
FromStack(node) == {stack[i] : i \in Place(node)..Len(stack)}

(* All callees visited: the frame is retired, and if its function is the   *)
(* root of a component the component is popped.                            *)
Retire ==
  /\ frames # <<>>
  /\ Last(frames).todo = {}
  /\ LET node == Last(frames).node
     IN /\ frames' = Front(frames)
        /\ lowlink' = Propagated(node, Front(frames))
        /\ IF lowlink[node] = index[node]
             THEN /\ components' = Append(components, FromStack(node))
                  /\ stack' = SubSeq(stack, 1, Place(node) - 1)
             ELSE UNCHANGED <<components, stack>>
  /\ UNCHANGED <<calls, index, counter, dag, recursive, done>>

-----------------------------------------------------------------------------
ComponentOf(f) == CHOOSE c \in DOMAIN components : f \in components[c]

ZeroBasedCalledBy(c) ==
  {ComponentOf(g) - 1 : g \in UNION {Callees(f) : f \in components[c]}} \ {c}

(* The components that component c calls into. *)
CalledBy(c) ==
  {ComponentOf(g) : g \in UNION {Callees(f) : f \in components[c]}} \ {c}

RecursiveIfCluster(c) == \E f, g \in components[c] : f # g

RecursiveIf(c) ==
  \/ \E f, g \in components[c] : f # g
  \/ \E f \in components[c] : f \in Callees(f)

(* The condensed graph and the recursion flags. *)
Condense ==
  /\ frames = <<>>
  /\ \A f \in Nodes : index[f] # 0
  /\ ~done
  /\ dag' = [c \in DOMAIN components |-> CalledBy(c)]
  /\ recursive' = [c \in DOMAIN components |-> RecursiveIf(c)]
  /\ done' = TRUE
  /\ UNCHANGED <<calls, search>>

Returned == done /\ UNCHANGED vars

Next == VisitRoot \/ VisitCallee \/ Retire \/ Condense \/ Returned

Spec == Init /\ [][Next]_vars

-----------------------------------------------------------------------------
(* reachSet over the finished condensation.                                *)

CallersFirst(c, d) == d > c

(* Only a component that the pass has been to can be marked: components    *)
(* are taken in the order of Components and compReaches starts all false.  *)
PassHasBeenTo(c, d) == d < c

(* compReaches, for a match that holds of the calls into the functions     *)
(* of targets.                                                             *)
CompReaches(targets) ==
  LET reached[c \in DOMAIN components] ==
        \E f \in components[c] : \E g \in Callees(f) :
          \/ g \in targets
          \/ LET d == ComponentOf(g)
             IN d # c /\ PassHasBeenTo(c, d) /\ reached[d]
  IN reached

ReachSet(targets) ==
  {f \in Nodes : CompReaches(targets)[ComponentOf(f)]}

-----------------------------------------------------------------------------
(* g is reached from f by calls: it is in every set of functions that      *)
(* holds f and all callees of its members.                                 *)
Reaches(f, g) ==
  \A S \in SUBSET Functions :
    (f \in S /\ \A u \in S : Callees(u) \subseteq S) => g \in S

(* Everything a component calls is in it or in an earlier one, in every    *)
(* state of the search: "every component is listed before any component    *)
(* that calls into it", which reachSet's single pass relies on.            *)
CalleesFirst ==
  \A c \in DOMAIN components : \A f \in components[c] : \A g \in Callees(f) :
    \E d \in 1..c : g \in components[d]

(* The components are the classes of mutual reachability, no more and no   *)
(* less, whatever the shape of the graph and the order of the visit.       *)
ComponentsAreSCCs ==
  done => /\ UNION {components[c] : c \in DOMAIN components} = Nodes
          /\ \A c \in DOMAIN components : \A f \in components[c] :
               components[c] = {g \in Nodes : Reaches(f, g) /\ Reaches(g, f)}

(* InCycle says exactly whether a function can call itself again, directly *)
(* or through others.                                                      *)
InCycleIsExact ==
  done => \A f \in Nodes :
            recursive[ComponentOf(f)] <=> \E g \in Callees(f) : Reaches(g, f)

(* The condensation is that of the call graph, and at every moment of the   *)
(* search what has been popped lists callees first (condenseSCC, scc.go:119;*)
(* reachSet relies on the order, reachability.go:69).                       *)
CondensationIsExact == ComponentsAreSCCs /\ InCycleIsExact /\ CalleesFirst

(* One pass over the condensation finds exactly the functions from which   *)
(* a matching call can be reached, at any depth and through any recursion. *)
ReachSetIsExact ==
  done => \A targets \in SUBSET Functions :
            ReachSet(targets) =
              {f \in Nodes : \E u \in Nodes : /\ Reaches(f, u)
                                              /\ Callees(u) \intersect targets # {}}

=============================================================================
