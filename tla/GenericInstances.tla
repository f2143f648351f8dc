-------------------------- MODULE GenericInstances --------------------------
(***************************************************************************)
(* The last pass over a new call graph (internal/metadata, metadata.go     *)
(* 398-433 and types.go): from every root, TraverseCallerChildren walks    *)
(* the calls below it, and where a caller's type arguments are missing     *)
(* from a call it makes, the pass adds an instance of that call that has   *)
(* them.  It appends to the call graph and to Callers, which the walk is   *)
(* reading.                                                                *)
(*                                                                         *)
(* Callers holds pointers to edges; here it holds their places in the call *)
(* graph.  types is an edge's TypeParamMap, shown the type arguments that  *)
(* are part of its callee's cached instance ID, of the place of the call   *)
(* in the source.                                                          *)
(***************************************************************************)
EXTENDS Naturals, Sequences, FiniteSets, Orders

CONSTANTS
  Fns,            \* functions, by base ID
  Mains,          \* those named main
  TypeNames,      \* names of type parameters
  Concrete,       \* types
  CallSets,       \* sequences of [caller, callee, types] records
  Passed,         \* functions that occur as arguments
  MaxSelfCallingDepth

TypeArgs == UNION {[S -> Concrete] : S \in SUBSET TypeNames}

Call == [caller : Fns, callee : Fns, types : TypeArgs]

ASSUME MainsAssumption == Mains \subseteq Fns /\ Passed \subseteq Fns
ASSUME CallSetsAssumption == CallSets \subseteq Seq(Call)
ASSUME DepthAssumption == MaxSelfCallingDepth \in Nat

VARIABLES
  calls,      \* what buildCallGraph found
  callGraph,  \* metadata.CallGraph
  callers,    \* metadata.Callers
  callDepth,  \* metadata.callDepth, never reset
  roots,      \* those the loop has still to come to
  stack       \* the calls of traverseCallerChildrenHelper, innermost first

vars == <<calls, callGraph, callers, callDepth, roots, stack>>

(* The cached ID is computed when the edge is made, for calleeMap. *)
NewEdge(i) == [caller |-> calls[i].caller, callee |-> calls[i].callee,
               types |-> calls[i].types, shown |-> calls[i].types, of |-> i]

Places(f) == {i \in DOMAIN calls : calls[i].caller = f}

CallersOf(f) == InOrder(Places(f))

(* CallGraphRoots: the calls of main, and of functions that are neither    *)
(* called nor passed on.                                                   *)
IsRoot(i) ==
  LET fn == calls[i].caller
  IN  fn \in Mains \/ (fn \notin Passed /\ \A j \in DOMAIN calls : calls[j].callee # fn)

Roots == InOrder({i \in DOMAIN calls : IsRoot(i)})

Init ==
  /\ calls \in CallSets
  /\ callGraph = [i \in DOMAIN calls |-> NewEdge(i)]
  /\ callers = [f \in Fns |-> CallersOf(f)]
  /\ callDepth = [f \in Fns |-> 0]
  /\ roots = Roots
  /\ stack = <<>>

-----------------------------------------------------------------------------
(* A frame: the edge, the children it had on entry, how many are done. *)
Frame(e, kids) == [edge |-> e, kids |-> kids, done |-> 0]

OnStack(f) == \E k \in DOMAIN stack : callGraph[stack[k].edge].callee = f

(* Entering the helper: at a function that is being visited it returns. *)
Entered(e, below) ==
  LET fn == callGraph[e].callee
  IN  IF OnStack(fn) THEN below ELSE <<Frame(e, callers[fn])>> \o below

NextRoot ==
  /\ stack = <<>> /\ roots # <<>>
  /\ stack' = Entered(Head(roots), <<>>)
  /\ roots' = Tail(roots)
  /\ UNCHANGED <<calls, callGraph, callers, callDepth>>

Top == Head(stack)
Working == stack # <<>> /\ Top.done < Len(Top.kids)
Child == Top.kids[Top.done + 1]
ThisFn == callGraph[Top.edge].callee
SelfCall == callGraph[Child].callee = ThisFn

AfterChild == <<[Top EXCEPT !.done = @ + 1]>> \o Tail(stack)

(* The limit on self calling. *)
SkipSelfCall ==
  /\ Working /\ SelfCall /\ callDepth[ThisFn] >= MaxSelfCallingDepth
  /\ stack' = AfterChild
  /\ UNCHANGED <<calls, callGraph, callers, callDepth, roots>>

Missing(parent, child) ==
  /\ parent.types # <<>> /\ child.types # <<>>
  /\ \E k \in DOMAIN parent.types : k \notin DOMAIN child.types

ParentsOnly(parent, child) == [child EXCEPT !.types = parent.types]

(* The parent's type arguments go over the child's; the ID is reset, but   *)
(* not what is cached of it.                                               *)
InstanceOf(parent, child) ==
  [child EXCEPT !.types =
     [k \in DOMAIN parent.types \union DOMAIN child.types |->
        IF k \in DOMAIN parent.types THEN parent.types[k] ELSE child.types[k]]]

InstantiateAtCallee(parent, child) ==
  /\ callGraph' = Append(callGraph, InstanceOf(parent, child))
  /\ callers' = [callers EXCEPT ![child.callee] = Append(@, Len(callGraph) + 1)]

(* The instance is added to the graph and to its caller's calls. *)
Instantiate(parent, child) ==
  /\ callGraph' = Append(callGraph, InstanceOf(parent, child))
  /\ callers' = [callers EXCEPT ![child.caller] = Append(@, Len(callGraph) + 1)]

(* The action of the pass on a child, and the walk below it. *)
TakeChild ==
  /\ Working
  /\ SelfCall => callDepth[ThisFn] < MaxSelfCallingDepth
  /\ callDepth' = IF SelfCall THEN [callDepth EXCEPT ![ThisFn] = @ + 1] ELSE callDepth
  /\ LET parent == callGraph[Top.edge]
         child  == callGraph[Child]
     IN  IF Missing(parent, child) THEN Instantiate(parent, child)
         ELSE UNCHANGED <<callGraph, callers>>
  /\ stack' = Entered(Child, AfterChild)
  /\ UNCHANGED <<calls, roots>>

Return ==
  /\ stack # <<>> /\ Top.done = Len(Top.kids)
  /\ stack' = Tail(stack)
  /\ UNCHANGED <<calls, callGraph, callers, callDepth, roots>>

Next == NextRoot \/ SkipSelfCall \/ TakeChild \/ Return

Spec == Init /\ [][Next]_vars /\ WF_vars(Next)

Done == roots = <<>> /\ stack = <<>>

-----------------------------------------------------------------------------
TypeOK ==
  /\ calls \in Seq(Call)
  /\ callGraph \in Seq([caller : Fns, callee : Fns, types : TypeArgs,
                        shown : TypeArgs, of : DOMAIN calls])
  /\ callers \in [Fns -> Seq(DOMAIN callGraph)]
  /\ callDepth \in [Fns -> 0..MaxSelfCallingDepth]
  /\ roots \in Seq(DOMAIN calls)
  /\ stack \in Seq([edge : DOMAIN callGraph, kids : Seq(DOMAIN callGraph), done : Nat])

Calls(i, j) == calls[i].callee = calls[j].caller

(* f reaches g: every set of functions that has f, and with a function     *)
(* those it calls, has g.                                                  *)
LeadsTo(f, g) ==
  \A S \in SUBSET Fns :
    f \in S /\ (\A i \in DOMAIN calls : calls[i].caller \in S => calls[i].callee \in S)
      => g \in S

Gives(i, k, v) == k \in DOMAIN calls[i].types /\ calls[i].types[k] = v

(* However often the pass sees the instances it has added itself, a type   *)
(* argument of a call is one that the call was made with, or that a call   *)
(* was made with that leads to its caller (metadata.go:404-415).           *)
TypesComeFromCallers ==
  \A e \in DOMAIN callGraph : \A k \in DOMAIN callGraph[e].types :
    \E i \in DOMAIN calls :
      /\ Gives(i, k, callGraph[e].types[k])
      /\ i = callGraph[e].of \/ LeadsTo(calls[i].callee, callGraph[e].caller)

(* Callers and the call graph stay two views of one thing while both are   *)
(* walked and extended: the calls of each function, in the order of the    *)
(* graph (metadata.go:429-430).                                            *)
CallersAgree ==
  \A f \in Fns :
    /\ \A e \in DOMAIN callGraph :
         callGraph[e].caller = f <=> \E k \in DOMAIN callers[f] : callers[f][k] = e
    /\ \A k \in DOMAIN callers[f] : \A m \in 1..(k - 1) : callers[f][m] < callers[f][k]

(* A chain of calls from a root that comes to no function twice. *)
Chain(s) ==
  /\ s # <<>> => IsRoot(s[1])
  /\ \A k \in DOMAIN s : k > 1 => Calls(s[k - 1], s[k])
  /\ \A k, m \in DOMAIN s : calls[s[k]].callee = calls[s[m]].callee => k = m

OnChain(i) ==
  \E n \in 1..Cardinality(Fns) : \E s \in [1..n -> DOMAIN calls] : s[n] = i /\ Chain(s)

(* In the end every generic call has, for each generic call of its caller  *)
(* that a chain from a root comes to, an instance with all the caller's    *)
(* type arguments and, for the other type parameters, its own.  (Further   *)
(* up only by chance: an instance added below one root is extended when    *)
(* the walk meets it below another.)  Recursive calls may have run out of  *)
(* callDepth.                                                              *)
CallersAreCovered ==
  Done => \A p, c \in DOMAIN calls :
    /\ OnChain(p) /\ Calls(p, c) /\ calls[c].callee # calls[p].callee
    /\ Missing(calls[p], calls[c])
    => \E e \in DOMAIN callGraph :
         /\ callGraph[e].of = c
         /\ DOMAIN calls[p].types \union DOMAIN calls[c].types \subseteq DOMAIN callGraph[e].types
         /\ \A k \in DOMAIN calls[p].types : callGraph[e].types[k] = calls[p].types[k]
         /\ \A k \in DOMAIN calls[c].types \ DOMAIN calls[p].types :
              callGraph[e].types[k] = calls[c].types[k]

(* The pass gives generic calls no type arguments but those of the calls   *)
(* that lead to them, and covers every generic call of the caller that is  *)
(* on a chain from a root (metadata.go:402-433).                           *)
InstancesAreCallers == TypesComeFromCallers /\ CallersAreCovered

(* The walk ends although it extends what it walks. *)
PassEnds == <>Done

(* Not so: "Reset id" (metadata.go:420) leaves the cached instance ID of   *)
(* the copied edge in place, so the new instance goes by the old one's ID. *)
InstanceHasOwnID == \A e \in DOMAIN callGraph : callGraph[e].shown = callGraph[e].types
=============================================================================
