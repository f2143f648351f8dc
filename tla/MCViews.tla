----------------------------- MODULE MCViews --------------------------------
(* The diagram views, the call paths of a trace and the trace from the     *)
(* tracker tree.  An instance gives work to one of the three; the others   *)
(* have an empty graph, or a handler that calls nothing.                   *)
(*                                                                         *)
(* DiagView: four functions, up to three calls between them in any order,  *)
(* one of them possibly named main; graphs with few calls come with        *)
(* literals and nested packages as well.                                   *)
EXTENDS DiagView, TracePaths, MCTrackerTrace

CONSTANTS a, b

MCNodes == 1..4

Pairs == MCNodes \X MCNodes

CallSeqs == {<<>>} \union {<<e>> : e \in Pairs}
            \union {<<e, f>> : e \in Pairs, f \in Pairs}
         \union {<<e, f, g>> : e \in Pairs \ {<<n, n>> : n \in MCNodes},
                               f \in Pairs \ {<<n, n>> : n \in MCNodes},
                               g \in {<<1, 2>>, <<2, 3>>, <<3, 1>>, <<3, 4>>, <<4, 2>>}}

Top == <<a>>
Sub == <<a, b>>
Deep == <<a, b, a>>
Other == <<b>>

Flat == [n \in MCNodes |-> IF n = 1 THEN Top ELSE IF n = 2 THEN Sub ELSE Other]

Graph(e, m, p, k) == [size |-> 4, edges |-> e, mains |-> m, parent |-> p, pkg |-> k]

NoParents == [n \in MCNodes |-> 0]

(* Every set of calls that go up, in this order and with one call back. *)
Upward == <<<<1, 2>>, <<1, 3>>, <<2, 3>>, <<2, 4>>, <<3, 4>>, <<1, 4>>>>

Backward == {<<>>, <<<<3, 1>>>>, <<<<4, 2>>>>}

Layered == {SelectSeq(Upward, LAMBDA e : e \in S) \o back :
             S \in SUBSET Range(Upward), back \in Backward}

NoCalls == Graph(<<>>, {}, NoParents, Flat)

MCGraphs ==
  {Graph(e, {}, NoParents, Flat) : e \in Layered}
  \union
  {Graph(e, m, NoParents, Flat) : e \in CallSeqs, m \in {{}, {2}}}
  \union
  {Graph(e, {}, p, k) : e \in {<<>>, <<<<4, 1>>, <<1, 2>>>>},
                        p \in {q \in [MCNodes -> {0, 1, 4}] : q[1] = 0 /\ q[4] = 0},
                        k \in [MCNodes -> {Top, Deep, Other, <<>>}]}

MCRequests ==
  [depth : {1, 4}, matching : {MCNodes, {1, 2, 4}}, pageSize : {2},
   selected : {{Top}, {Deep, Other}}]

MCKnown == {Sub}

-----------------------------------------------------------------------------
(* TracePaths: every graph of three functions, the links of each in every  *)
(* order, and every graph of four that goes up, some with links back.      *)
MCLinked == 1..4

MCHandlers == {1}

Seqs(n) == {s \in SeqOf((1..3) \ {n}, 2) : IsInjective(s)}

Small == {g @@ (4 :> <<>>) : g \in {h \in [1..3 -> SeqOf(1..3, 2)] :
                                      \A n \in 1..3 : h[n] \in Seqs(n)}}

Ups(n) == {SetToSeq(S) : S \in SUBSET ((n + 1)..4)}

UpLinks == {g \in [MCLinked -> UNION {Ups(n) : n \in MCLinked}] :
              \A n \in MCLinked : g[n] \in Ups(n)}

Back(g) == [g EXCEPT ![4] = <<1>>, ![3] = <<2>> \o @]

NoLinks == [n \in MCLinked |-> <<>>]

MCLinkGraphs == Small \union UpLinks \union {Back(g) : g \in UpLinks}

MCPathLimits ==
  {[count |-> 1000, list |-> 40], [count |-> 3, list |-> 2], [count |-> 4, list |-> 1]}

-----------------------------------------------------------------------------
NoProgram ==
  [root |-> 1, body |-> {}, edges |-> <<>>, impl |-> NoImpls,
   tree |-> [size |-> 0, builtins |-> {}, edge |-> <<>>, key |-> <<>>, below |-> <<>>,
             kids |-> [n \in {0} |-> <<>>]]]

NoTrace ==
  /\ program = NoProgram
  /\ bounds = [reachable |-> 600, depth |-> 14, nodes |-> 60]
  /\ links = [n \in Traced |-> <<>>]
  /\ depth = [n \in {1} |-> 0]
  /\ cut = FALSE
  /\ items = <<>>
  /\ taken = {}

NoPaths ==
  /\ adj = NoLinks
  /\ handler = 1
  /\ caps = [count |-> 1000, list |-> 40]
  /\ NoPathsYet

MCViewPrograms == MCPrograms \union {NoProgram}

MCInit ==
  \/ /\ ViewInit
     /\ IF graph = NoCalls THEN PathsInit ELSE NoPaths
     /\ NoTrace
  \/ /\ graph = NoCalls /\ ViewInit
     /\ TrackerInit
     /\ NoPaths

(* The walk over the links first, then what the views ask. *)
MCNext ==
  \/ /\ program = NoProgram
     /\ \/ PathsNext /\ UNCHANGED viewVars
        \/ AllListed /\ ViewNext /\ UNCHANGED pathVars
     /\ UNCHANGED trackerVars
  \/ TrackerNext /\ UNCHANGED <<viewVars, pathVars>>

MCSpec == MCInit /\ [][MCNext]_<<viewVars, pathVars, trackerVars>>
=============================================================================
