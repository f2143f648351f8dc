---------------------------- MODULE MCSpecWalks ----------------------------
(* Two walks behind the specification.  They share no state, and an        *)
(* instance gives work to one.                                             *)
(*                                                                         *)
(* LazyTree: one main function, an argument h and two calls f and g, of    *)
(* which f can be chained; any of them lists any, and g can be an argument *)
(* of the call that leads to it.  MiddlewareWalk: every call graph of      *)
(* three wrappers.                                                         *)
EXTENDS LazyTree, MiddlewareWalk

CONSTANTS main, h, f, g

Call(k, c) == [key |-> k, arg |-> FALSE, chained |-> c]

Arg(k) == [key |-> k, arg |-> TRUE, chained |-> FALSE]

ListsOfH == {<<>>, <<Arg(h)>>}
ListsOfF == {<<>>, <<Call(f, FALSE)>>, <<Call(f, TRUE)>>}
ListsOfG == {<<>>, <<Call(g, FALSE)>>}

CallLists == {y \o z : y \in ListsOfF, z \in ListsOfG}
Lists == {x \o y : x \in ListsOfH, y \in CallLists}

MainLists == {<<Arg(h)>>, <<Arg(h), Call(f, FALSE), Call(g, FALSE)>>}

(* func f() { f(g()) }: the inner f lists g() twice.                       *)
Twins == {<<Arg(g), Call(g, FALSE)>>, <<Arg(g), Call(f, FALSE), Call(g, FALSE)>>}

MCKeys == {main, h, f, g}

MCRoots == {main}

NoCalls == [c \in Contents |-> <<>>]

MCPlans ==
  {NoCalls} \union
  {[c \in Contents |->
      CASE c.key = main /\ ~c.arg -> lists[1]
        [] c.key = h /\ c.arg     -> lists[2]
        [] c.key = f /\ ~c.arg    -> lists[3]
        [] c.key = g              -> lists[4]
        [] OTHER                  -> <<>>] :
     lists \in MainLists \X CallLists \X (Lists \union Twins) \X CallLists}

MCLimits == {[nodes |-> 0, children |-> 1], [nodes |-> 0, children |-> 3],
             [nodes |-> 2, children |-> 3]}

-----------------------------------------------------------------------------
MCInit ==
  /\ Init
  /\ plan = NoCalls => limits.children = 1
  /\ plan # NoCalls => calls = {} /\ matching = [n \in Functions |-> {}]
  /\ WalkInit

(* The tree first, which has one node where the wrappers have work. *)
MCNext ==
  \/ Next /\ UNCHANGED walkVars
  \/ plan = NoCalls /\ Walked /\ WalkNext /\ UNCHANGED vars

AllVars == <<vars, walkVars>>

MCSpec ==
  /\ MCInit /\ [][MCNext]_AllVars
  /\ WF_AllVars((\E n \in nodes : Expand(n)) /\ UNCHANGED walkVars)
  /\ WF_AllVars(plan = NoCalls /\ Walked /\ Step /\ UNCHANGED vars)

(* Both walks end, whatever recursion the code has: the unfolding of the   *)
(* tree, which keeps no record of where it has been (extractor.go:1150),   *)
(* and that of the wrappers, which cuts at its own path                    *)
(* (reachability.go:108).                                                  *)
SpecWalksEnd == UnfoldingEnds /\ WalksEnd
=============================================================================
