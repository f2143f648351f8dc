--------------------------- MODULE MCResolvedTrace ---------------------------
(* Four functions and up to three calls, in any order; one or two of them  *)
(* are methods of interfaces.  Function 4 may have a body of builtins only.*)
EXTENDS ResolvedTrace

MCTraced == 1..4

Pairs == MCTraced \X MCTraced

Apart == {e \in Pairs : e[1] # e[2]}

CallLists ==
  {<<e>> : e \in {1} \X MCTraced}
  \union {<<e, f>> : e \in {1} \X MCTraced, f \in Pairs}
  \union {<<e, f, g>> : e \in {<<1, 2>>, <<1, 3>>}, f \in Apart, g \in Apart}

NoImpls == [n \in MCTraced |-> {}]

Resolutions ==
  {NoImpls, [NoImpls EXCEPT ![2] = {3}], [NoImpls EXCEPT ![2] = {3, 4}],
   [NoImpls EXCEPT ![3] = {4}, ![2] = {4}], [NoImpls EXCEPT ![2] = {1, 2}]}

Callers(l) == {l[i][1] : i \in DOMAIN l}

MCPrograms ==
  {[root |-> 1, body |-> Callers(l) \union more, edges |-> l, impl |-> r] :
     l \in CallLists, more \in {{}, {4}}, r \in Resolutions}
  \union {[root |-> 4, body |-> {1}, edges |-> <<<<1, 2>>>>, impl |-> NoImpls]}

MCLimits ==
  {[reachable |-> 600, depth |-> 14, nodes |-> 60],
   [reachable |-> 3, depth |-> 3, nodes |-> 3],
   [reachable |-> 4, depth |-> 2, nodes |-> 2]}
=============================================================================
