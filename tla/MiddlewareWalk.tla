--------------------------- MODULE MiddlewareWalk ---------------------------
(***************************************************************************)
(* How wrapper middleware is resolved to the middleware it calls           *)
(* (middlewareMatchesThrough in internal/spec/reachability.go, asked for   *)
(* by expandMiddlewareRefs in extractor.go): a recursive walk of the call  *)
(* graph that cuts cycles at the functions on its own path and remembers   *)
(* an answer for every function it leaves.                                 *)
(*                                                                         *)
(* Edges are sets: meta.Callers lists them in the order of the source      *)
(* files, so any order of the callees is possible.                         *)
(***************************************************************************)
EXTENDS Integers, Sequences

CONSTANTS
  Functions,  \* functions with a body, by BaseID, that no mapping matches
  Refs        \* middleware that a mapping matches

VARIABLES
  calls,       \* edges of Callers and of parentFnIndex to other functions
  matching,    \* the matching refs that a function calls itself
  mwResolved,  \* the memo; NotResolved where it has no entry
  path,        \* the activations in progress: mwOnStack holds their functions
  first        \* the first function asked for; NotResolved before that

walkVars == <<calls, matching, mwResolved, path, first>>

NotResolved == [resolved |-> FALSE]

(* A function is a BaseID, never the value that stands for no answer. *)
ASSUME FunctionsAssumption == NotResolved \notin Functions

Answer(refs) == [resolved |-> TRUE, refs |-> refs]

EdgesOf(f) == {e \in calls : e[1] = f}

Callees(f) == {g \in Functions : <<f, g>> \in calls}

Resolved(f) == mwResolved[f] # NotResolved

OnStack(f) == \E i \in DOMAIN path : path[i].node = f

Top == path[Len(path)]

ActivationOnShared(f) ==
  [node |-> f, todo |-> Callees(f),
   found |-> matching[f] \union (IF path = <<>> THEN {} ELSE Top.found)]

(* An activation: the callees it has not scanned and what it has found. *)
Activation(f) == [node |-> f, todo |-> Callees(f), found |-> matching[f]]

Activations == [node : Functions, todo : SUBSET Functions, found : SUBSET Refs]

Answers == [resolved : {TRUE}, refs : SUBSET Refs]

WalkTypeOK ==
  /\ calls \subseteq Functions \X Functions
  /\ matching \in [Functions -> SUBSET Refs]
  /\ mwResolved \in [Functions -> Answers \union {NotResolved}]
  /\ path \in Seq(Activations)
  /\ first \in Functions \union {NotResolved}

WalkInit ==
  /\ calls \in SUBSET (Functions \X Functions)
  /\ matching \in [Functions -> SUBSET Refs]
  /\ mwResolved = [f \in Functions |-> NotResolved]
  /\ path = <<>>
  /\ first = NotResolved

-----------------------------------------------------------------------------
(* A route uses the wrapper f: an answer remembered from before is given *)
(* at once.                                                              *)
Ask(f) ==
  /\ path = <<>>
  /\ ~Resolved(f)
  /\ path' = <<Activation(f)>>
  /\ first' = IF first = NotResolved THEN f ELSE first
  /\ UNCHANGED <<calls, matching, mwResolved>>

ScannedUnlessCut(g) ==
  IF OnStack(g) THEN path ELSE [path EXCEPT ![Len(path)].todo = @ \ {g}]

Scanned(g) == [path EXCEPT ![Len(path)].todo = @ \ {g}]

(* The callee contributes at once, or is walked first; one that is entered *)
(* again on its own path contributes nothing.                              *)
Scan(g) ==
  /\ path # <<>>
  /\ g \in Top.todo
  /\ \/ /\ Resolved(g)
        /\ path' = [Scanned(g) EXCEPT ![Len(path)].found =
                      @ \union mwResolved[g].refs]
     \/ /\ ~Resolved(g)
        /\ OnStack(g)
        /\ path' = Scanned(g)
     \/ /\ ~Resolved(g)
        /\ ~OnStack(g)
        /\ path' = Append(Scanned(g), Activation(g))
  /\ UNCHANGED <<calls, matching, mwResolved, first>>

RemembersForAsked(node) == path[1].node

RemembersFor(node) == node

ReturnsNothing(found) == {}

(* What an activation hands to the one that called it. *)
Returns(found) == found

(* All edges scanned: the answer is remembered, and found by the caller. *)
Return ==
  /\ path # <<>>
  /\ Top.todo = {}
  /\ mwResolved' = [mwResolved EXCEPT ![RemembersFor(Top.node)] = Answer(Top.found)]
  /\ LET below == SubSeq(path, 1, Len(path) - 1)
     IN path' = IF below = <<>>
                  THEN below
                  ELSE [below EXCEPT ![Len(below)].found =
                          @ \union Returns(Top.found)]
  /\ UNCHANGED <<calls, matching, first>>

Step == Return \/ \E g \in Functions : Scan(g)

AllResolved == path = <<>> /\ (\A f \in Functions : Resolved(f)) /\ UNCHANGED walkVars

WalkNext == Step \/ (\E f \in Functions : Ask(f)) \/ AllResolved

(* A walk, once begun, runs without waiting for anything. *)
WalkSpec == WalkInit /\ [][WalkNext]_walkVars /\ WF_walkVars(Step)

-----------------------------------------------------------------------------
(* g is reached from f by calls: it is in every set of functions that      *)
(* holds f and all callees of its members.                                 *)
Reaches(f, g) ==
  \A S \in SUBSET Functions :
    (f \in S /\ \A u \in S : Callees(u) \subseteq S) => g \in S

RefsFrom(f) == UNION {matching[g] : g \in {u \in Functions : Reaches(f, u)}}

(* f leads into recursion. *)
Recurs(f) == \E g \in Functions : /\ Reaches(f, g)
                                  /\ \E u \in Callees(g) : Reaches(u, g)

(* No wrapper is answered with middleware it cannot reach, whatever was    *)
(* asked before.                                                           *)
AnswersAreReached ==
  \A f \in Functions : Resolved(f) => mwResolved[f].refs \subseteq RefsFrom(f)

(* A wrapper whose calls do not lead into recursion is answered in full,   *)
(* even if it was resolved on the way to another.                          *)
CompleteWithoutRecursion ==
  \A f \in Functions :
    Resolved(f) /\ ~Recurs(f) => RefsFrom(f) \subseteq mwResolved[f].refs

(* The first wrapper asked for is answered in full: the cycles that its    *)
(* walk cuts lose nothing of it.                                           *)
FirstIsComplete ==
  \A f \in Functions :
    first = f /\ Resolved(f) => RefsFrom(f) \subseteq mwResolved[f].refs

(* What the cuts at a recursion may cost, they cost only behind one, and   *)
(* not the wrapper that was asked for first (reachability.go:101-160).     *)
OnlyRecursionIsCut == CompleteWithoutRecursion /\ FirstIsComplete

(* A walk comes to an end in any graph. *)
WalksEnd == path # <<>> ~> path = <<>>

(* Not so: "middlewareMatchesThrough returns the mapping-matching middleware refs  *)
(* transitively reachable from the function identified by key [...]        *)
(* Returns nil when nothing downstream matches" (reachability.go:94-99).   *)
(* The code breaks it: the answer remembered for a function that was left  *)
(* while an ancestor on the path was cut lacks what that ancestor reaches. *)
AnswersAreComplete ==
  path = <<>> =>
    \A f \in Functions : Resolved(f) => RefsFrom(f) \subseteq mwResolved[f].refs

=============================================================================
