--------------------------- MODULE BuildCallGraph ---------------------------
(***************************************************************************)
(* How internal/metadata/metadata.go turns the syntax of a package into    *)
(* the edges of the call graph: buildCallGraph walks every file with       *)
(* ast.Inspect and hands each call expression to processCallExpression,    *)
(* which records one edge, after calling itself for the receiver of a      *)
(* chained call `app.Group().Use()`.  The walk comes to the receiver a     *)
(* second time by itself, so what keeps the graph right is the map of the  *)
(* calls already recorded, keyed by name and position, although all calls  *)
(* of a chain share one position.                                          *)
(*                                                                         *)
(* A program is the sequence of the syntax nodes that matter, in the order *)
(* in which ast.Inspect meets them: the files, assignments and calls.  A   *)
(* node's record says where it stands:                                     *)
(*   kind  "file", "assign", "call", or "skip" for a call expression at    *)
(*         which processCallExpression returns at once: a conversion, a    *)
(*         mock, a call outside every function;                            *)
(*   up    the node it is part of (0 for a file);                          *)
(*   role  "chain": the receiver call of a method call, sel.X;             *)
(*         "field": a call deeper in the receiver, `a.B().field.C()`;      *)
(*         "curry": the called expression itself, `f(x)(y)`;               *)
(*         "arg": an argument; "in": anywhere else below the node;         *)
(*   name  the callee's package, type and name, without the position (of   *)
(*         a skipped call it is not looked at);                            *)
(*   sel   what the call is selected from when no other call is:           *)
(*         "var" a variable of this file, "pkg" any other identifier,      *)
(*         "plain" nothing;                                                *)
(*   lit   whether the caller is a function literal that is a value: not   *)
(*         called where it is written, and inside a declared function.     *)
(***************************************************************************)
EXTENDS Naturals, Sequences, FiniteSets

CONSTANTS
    Names,      \* callees
    Programs    \* the programs considered

Spine == {"chain", "field", "curry"}

Node == [kind : {"file", "assign", "call", "skip"}, up : Nat,
         role : Spine \union {"arg", "in"}, name : Names,
         sel : {"var", "pkg", "plain"}, lit : BOOLEAN]

(* The called expression of a call comes first among its parts, so a node  *)
(* of the spine follows directly on the call it belongs to; a curried call *)
(* is named after the call whose result it calls.                          *)
SpineLink(p, i) ==
    /\ p[i].up = i - 1
    /\ p[i].kind \in {"call", "skip"}
    /\ p[i - 1].kind \in {"call", "skip"}
    /\ p[i - 1].sel = "plain"
    /\ p[i].lit = p[i - 1].lit
    /\ p[i].role = "curry" => /\ p[i].name = p[i - 1].name
                              /\ p[i - 1].kind = "skip" => p[i].kind = "skip"

Placed(p, i) ==
    /\ p[i].up < i
    /\ (p[i].kind = "file") <=> (p[i].up = 0)
    /\ \A j \in (p[i].up + 1) .. (i - 1) : p[i].up > 0 => p[j].up >= p[i].up
    /\ p[i].role \in Spine => SpineLink(p, i)
    /\ p[i].role = "arg" => /\ p[p[i].up].kind \in {"call", "skip"}
                            /\ p[i].kind \in {"call", "skip"}
                            /\ p[i].lit = p[p[i].up].lit
    /\ p[i].kind \in {"file", "assign"} => p[i].role = "in"

WellFormed(p) ==
    /\ p \in Seq(Node) /\ p # <<>> /\ p[1].kind = "file"
    /\ \A i \in 1 .. Len(p) : Placed(p, i)

ASSUME ProgramsAssumption == \A p \in Programs : WellFormed(p)

VARIABLES
    ast,          \* the program
    at,           \* the node ast.Inspect has come to
    open,         \* inside the loop body of a file
    entering,     \* the call processCallExpression is called for, or 0
    pending,      \* the calls that wait for their receiver call, innermost first
    assignStmt,   \* the assignment met last, or 0
    argMap,       \* argument ID -> the argument object, or Nil
    calleeMap,    \* instance ID -> the index of the edge recorded for it, or 0
    callGraph,    \* metadata.CallGraph
    parents,      \* metadata.ParentFunctions: the edges made, recorded or not
    linked,       \* the argument objects whose Edge is set, each with the edge
    panicked

vars == <<ast, at, open, entering, pending, assignStmt, argMap, calleeMap,
          callGraph, parents, linked, panicked>>

NodesOf == 1 .. Len(ast)
IsCall(i) == ast[i].kind = "call"

(* call.Pos(): where the innermost call of the spine begins.               *)
OnSpine(i, j) == \A k \in (i + 1) .. j : ast[k].role \in Spine
Base(i) == CHOOSE j \in i .. Len(ast) :
               /\ OnSpine(i, j)
               /\ j = Len(ast) \/ ast[j + 1].role \notin Spine

NameOnly(i) == <<ast[i].name, 1>>

(* Callee.InstanceID().                                                    *)
Key(i) == <<ast[i].name, Base(i)>>

(* CallArgument.ID() of an argument that is a call.                        *)
ArgID(i) == <<ast[i].name, Base(i)>>

Keys == Names \X NodesOf

AnyReceiver(i) == TRUE

HasReceiver(i) == i < Len(ast) /\ ast[i + 1].role = "chain"

(* extractRootVariable, applied to the receiver of i: it follows receivers *)
(* and fields, and ends at a call of anything but a selector.  A variable  *)
(* is named by the place where it is used.                                 *)
RootVariable(i) ==
    IF ast[Base(i)].sel # "plain" /\ \A k \in (i + 1) .. Base(i) : ast[k].role # "curry"
    THEN Base(i) ELSE 0

(* The objects of one visit: a call processed while Inspect is at a node.  *)
Visit == [call : NodesOf, seen : NodesOf]
ThisVisit(i) == [call |-> i, seen |-> at]
Nil == [call |-> 0, seen |-> 0]

ArgsOf(i) == {j \in NodesOf : ast[j].up = i /\ ast[j].role = "arg"}

Edge == [call : NodesOf, seen : NodesOf, assigned : 0 .. Len(ast),
         calleeVarName : 0 .. Len(ast), chainParent : Nat,
         chainRoot : 0 .. Len(ast), chainDepth : Nat]
-----------------------------------------------------------------------------
Init ==
    /\ ast \in Programs
    /\ at = 0 /\ open = FALSE /\ entering = 0 /\ pending = <<>>
    /\ assignStmt = 0
    /\ argMap = [k \in Keys |-> Nil] /\ calleeMap = [k \in Keys |-> 0]
    /\ callGraph = <<>> /\ parents = <<>> /\ linked = {}
    /\ panicked = FALSE

Inspecting == ~panicked /\ entering = 0 /\ pending = <<>>
Coming(kinds) == at < Len(ast) /\ ast[at + 1].kind \in kinds

(* The loop over the files: fresh maps, no assignment.                     *)
OpenFile ==
    /\ Inspecting /\ ~open /\ Coming({"file"})
    /\ at' = at + 1 /\ open' = TRUE
    /\ assignStmt' = 0
    /\ argMap' = [k \in Keys |-> Nil] /\ calleeMap' = [k \in Keys |-> 0]
    /\ UNCHANGED <<ast, entering, pending, callGraph, parents, linked, panicked>>

InspectAssign ==
    /\ Inspecting /\ open /\ Coming({"assign"})
    /\ at' = at + 1 /\ assignStmt' = at + 1
    /\ UNCHANGED <<ast, open, entering, pending, argMap, calleeMap, callGraph,
                   parents, linked, panicked>>

InspectCall ==
    /\ Inspecting /\ open /\ Coming({"call", "skip"})
    /\ at' = at + 1 /\ entering' = at + 1
    /\ UNCHANGED <<ast, open, pending, assignStmt, argMap, calleeMap, callGraph,
                   parents, linked, panicked>>

ReturnedStill(waiting) ==
    entering' = 0 /\ pending' = waiting /\ UNCHANGED assignStmt

(* processCallExpression returns: to the call that waits for its receiver, *)
(* or to the walk, which forgets the assignment.                           *)
Returned(waiting) ==
    /\ entering' = 0 /\ pending' = waiting
    /\ assignStmt' = IF waiting = <<>> THEN 0 ELSE assignStmt

(* Conversions, mocks, calls outside functions.                            *)
SkipCall ==
    /\ entering # 0 /\ ast[entering].kind = "skip"
    /\ Returned(pending)
    /\ UNCHANGED <<ast, at, open, argMap, calleeMap, callGraph, parents,
                   linked, panicked>>

FiledInFront(i) == IF ast[i].lit THEN <<ThisVisit(i)>> \o parents ELSE parents

(* parentFunction, for the calls of a function literal.                    *)
Filed(i) == IF ast[i].lit THEN Append(parents, ThisVisit(i)) ELSE parents

(* Before it looks whether the call is recorded already, every visit makes *)
(* the arguments anew and files its edge under the enclosing function.     *)
MakeEdge(i) ==
    /\ argMap' = [k \in Keys |-> IF \E j \in ArgsOf(i) : ArgID(j) = k
                                 THEN ThisVisit(i) ELSE argMap[k]]
    /\ parents' = Filed(i)

SeenBefore ==
    /\ entering # 0 /\ IsCall(entering)
    /\ calleeMap[Key(entering)] # 0
    /\ MakeEdge(entering)
    /\ Returned(pending)
    /\ UNCHANGED <<ast, at, open, calleeMap, callGraph, linked, panicked>>

InLine(i) == Append(pending, i)

Waiting(i) == <<i>> \o pending

(* A chained call: first its receiver.                                     *)
EnterReceiver ==
    /\ entering # 0 /\ IsCall(entering)
    /\ calleeMap[Key(entering)] = 0 /\ HasReceiver(entering)
    /\ MakeEdge(entering)
    /\ pending' = Waiting(entering)
    /\ entering' = entering + 1
    /\ UNCHANGED <<ast, at, open, assignStmt, calleeMap, callGraph, linked, panicked>>

Record(i, varName, parent, root, depth) ==
    /\ callGraph' = Append(callGraph,
           [call |-> i, seen |-> at, assigned |-> assignStmt,
            calleeVarName |-> varName, chainParent |-> parent,
            chainRoot |-> root, chainDepth |-> depth])
    /\ calleeMap' = [calleeMap EXCEPT ![Key(i)] = Len(callGraph) + 1]

(* A call that is not chained.                                             *)
RecordCall ==
    /\ entering # 0 /\ IsCall(entering)
    /\ calleeMap[Key(entering)] = 0 /\ ~HasReceiver(entering)
    /\ MakeEdge(entering)
    /\ LET v == IF ast[entering].sel = "var" THEN entering ELSE 0
       IN  Record(entering, v, 0, v, 0)
    /\ Returned(pending)
    /\ UNCHANGED <<ast, at, open, linked, panicked>>

NoFallback(parent, i) == 0

(* calleeVarName of a chained call: only when its parent has none.         *)
Fallback(parent, i) == IF parent.calleeVarName = 0 THEN RootVariable(i) ELSE 0

(* The receiver has been processed: the newest edge becomes the parent.    *)
ResumeChained ==
    /\ ~panicked /\ entering = 0 /\ pending # <<>> /\ callGraph # <<>>
    /\ LET i == Head(pending)
           n == Len(callGraph)
           parent == callGraph[n]
           v == Fallback(parent, i)
       IN  Record(i, v, n, IF v = 0 THEN parent.calleeVarName ELSE v,
                  IF v = 0 THEN parent.chainDepth + 1 ELSE 1)
    /\ Returned(Tail(pending))
    /\ UNCHANGED <<ast, at, open, argMap, parents, linked, panicked>>

(* CallGraph[len(CallGraph)-1] of an empty slice.                          *)
IndexOutOfRange ==
    /\ ~panicked /\ entering = 0 /\ pending # <<>> /\ callGraph = <<>>
    /\ panicked' = TRUE
    /\ UNCHANGED <<ast, at, open, entering, pending, assignStmt, argMap,
                   calleeMap, callGraph, parents, linked>>

Linkable == {k \in Keys : argMap[k] # Nil /\ calleeMap[k] # 0}

(* The end of a file: the arguments that are calls find their edges.       *)
LinkArguments ==
    /\ Inspecting /\ open
    /\ at < Len(ast) => Coming({"file"})
    /\ linked' = linked \union
           {[arg |-> argMap[k], key |-> k, edge |-> calleeMap[k]] : k \in Linkable}
    /\ open' = FALSE
    /\ UNCHANGED <<ast, at, entering, pending, assignStmt, argMap, calleeMap,
                   callGraph, parents, panicked>>

Done == at = Len(ast) /\ ~open
Ended == (Done \/ panicked) /\ UNCHANGED vars

Next ==
    \/ OpenFile \/ InspectAssign \/ InspectCall \/ SkipCall \/ SeenBefore
    \/ EnterReceiver \/ RecordCall \/ ResumeChained \/ IndexOutOfRange
    \/ LinkArguments \/ Ended

Spec == Init /\ [][Next]_vars
-----------------------------------------------------------------------------
TypeOK ==
    /\ ast \in Seq(Node)
    /\ at \in 0 .. Len(ast) /\ open \in BOOLEAN /\ panicked \in BOOLEAN
    /\ entering \in 0 .. Len(ast) /\ pending \in Seq(NodesOf)
    /\ assignStmt \in 0 .. Len(ast)
    /\ argMap \in [Keys -> Visit \union {Nil}]
    /\ calleeMap \in [Keys -> 0 .. Len(callGraph)]
    /\ callGraph \in Seq(Edge) /\ parents \in Seq(Visit)
    /\ linked \subseteq [arg : Visit, key : Keys, edge : DOMAIN callGraph]

EdgesOf(i) == {e \in DOMAIN callGraph : callGraph[e].call = i}

(* A call stays out of the graph when a call of the same name further out  *)
(* on its spine was recorded without the receivers being followed down to  *)
(* it: the two have one instance ID.  They are not followed through a      *)
(* field, a curried call, or a receiver that returns early.                *)
Shadowed ==
    LET dropped[i \in NodesOf] ==
          \E j \in 1 .. (i - 1) :
              /\ OnSpine(j, i) /\ IsCall(j) /\ ast[j].name = ast[i].name
              /\ \/ \E k \in (j + 1) .. i : ast[k].role # "chain"
                 \/ \E k \in (j + 1) .. (i - 1) : ~IsCall(k) \/ dropped[k]
    IN  {i \in NodesOf : dropped[i]}

(* Although the walk comes to every receiver of a chain twice and the      *)
(* calls of a chain share a position, no call of the program has two edges *)
(* in the end, and only a shadowed one can be without.                     *)
EachCallOnce ==
    Done => \A i \in NodesOf :
        /\ Cardinality(EdgesOf(i)) <= IF IsCall(i) THEN 1 ELSE 0
        /\ IsCall(i) /\ i \notin Shadowed => Cardinality(EdgesOf(i)) = 1

(* The chain parent, read off the end of the graph, is the edge of the     *)
(* receiver whenever the receiver has an edge; calls that are not chained  *)
(* have none.                                                              *)
ReceiverIsChainParent ==
    \A e \in DOMAIN callGraph :
        IF HasReceiver(callGraph[e].call)
        THEN \A d \in EdgesOf(callGraph[e].call + 1) : callGraph[e].chainParent = d
        ELSE callGraph[e].chainParent = 0

(* With its receiver in the graph, a chained call is rooted at the         *)
(* variable its own chain starts from, however long the chain: the parent  *)
(* names it, or the fallback finds it again.                               *)
ChainRootIsOwn ==
    \A e \in DOMAIN callGraph :
        LET i == callGraph[e].call
        IN  HasReceiver(i) /\ EdgesOf(i + 1) # {} =>
                callGraph[e].chainRoot = RootVariable(i)

Inside(i, a) == \A k \in (a + 1) .. i : ast[k].up >= a

HasCall(a) == \E i \in (a + 1) .. Len(ast) :
                  Inside(i, a) /\ ast[i].kind \in {"call", "skip"}

(* What the walk remembers of an assignment goes to the calls of one chain *)
(* at most, and to calls inside the assignment if it has one: an           *)
(* assignment without a call may pass to the next call in the file.        *)
AssignmentTakenOnce ==
    \A e \in DOMAIN callGraph :
        LET a == callGraph[e].assigned
        IN  a # 0 =>
            /\ HasCall(a) => Inside(callGraph[e].call, a)
            /\ \A d \in DOMAIN callGraph :
                   callGraph[d].assigned = a => callGraph[d].seen = callGraph[e].seen

(* An assignment reaches the call that follows on it, `x := f()`, and the  *)
(* receivers that are processed on the way to that call, however often the *)
(* walk comes to them later.                                               *)
AssignmentReachesCall ==
    \A e \in DOMAIN callGraph :
        \A i \in {callGraph[e].call, callGraph[e].seen} :
            ast[i - 1].kind = "assign" => callGraph[e].assigned = i - 1

(* A call that the walk reached before any chain did keeps the argument    *)
(* objects that argMap holds at the end of the file, so each of its        *)
(* arguments that is a call knows the edge of that call.                   *)
ArgumentsLinked ==
    Done => \A e \in DOMAIN callGraph :
        LET c == callGraph[e]
        IN  c.seen = c.call =>
            \A j \in ArgsOf(c.call) : \A d \in EdgesOf(j) :
                [arg |-> [call |-> c.call, seen |-> c.seen],
                 key |-> ArgID(j), edge |-> d] \in linked

(* What an argument object is linked to is the edge of the call that the   *)
(* argument is, also where another call of its chain has the same ID.      *)
LinksAreRight ==
    \A l \in linked : \A j \in ArgsOf(l.arg.call) :
        IsCall(j) /\ ArgID(j) = l.key => callGraph[l.edge].call = j

(* ParentFunctions collects what every visit makes, the visits that record *)
(* nothing included; the tree takes the first entry of an instance, and    *)
(* that one is recorded.                                                   *)
ClosureEdgesFirst ==
    Done => \A m \in DOMAIN parents :
        (\A n \in 1 .. (m - 1) : Key(parents[n].call) # Key(parents[m].call)) =>
            \E e \in DOMAIN callGraph : /\ callGraph[e].call = parents[m].call
                                        /\ callGraph[e].seen = parents[m].seen

(* No call is in the graph twice, none but a shadowed one is missing, and  *)
(* an assignment is with its own call and that call's chain, no other      *)
(* (buildCallGraph, metadata.go:1497-1573).                                *)
CallsAreRecorded == EachCallOnce /\ AssignmentTakenOnce /\ AssignmentReachesCall

(* What an edge says of its chain is about that chain.                     *)
ChainsAreOwn == ReceiverIsChainParent /\ ChainRootIsOwn

(* What is filed beside the edges, for arguments and for the functions     *)
(* that literals are written in, leads to the edges.                       *)
LinksLeadToEdges == ArgumentsLinked /\ LinksAreRight /\ ClosureEdgesFirst

(* Not so: "Find the parent call in our current callees" (metadata.go      *)
(* 1747) takes the newest edge, also when the receiver returned early, as  *)
(* a conversion does, and fails when there is no edge yet.                 *)
ChainParentIsReceiver ==
    /\ ~panicked
    /\ \A e \in DOMAIN callGraph :
           callGraph[e].chainParent # 0 =>
               callGraph[callGraph[e].chainParent].call = callGraph[e].call + 1
=============================================================================
