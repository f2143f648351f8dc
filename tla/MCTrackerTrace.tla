--------------------------- MODULE MCTrackerTrace ---------------------------
(* Four functions and up to three calls.  The tree below the handler has a *)
(* node for each call and each function it can be met in; a plain one      *)
(* covers the calls, others have a node without a call before the rest, a  *)
(* call left out, a builtin, or an argument below each call.               *)
EXTENDS TrackerTrace

MCTraced == 1..4

Apart == {e \in MCTraced \X MCTraced : e[1] # e[2]}

CallLists ==
  {<<<<1, 2>>, e>> : e \in MCTraced \X MCTraced}
  \union {<<e, f, g>> : e \in {<<1, 2>>, <<1, 3>>},
                        f \in Apart \union {<<2, 2>>, <<3, 3>>},
                        g \in {<<2, 3>>, <<2, 4>>, <<3, 1>>, <<3, 4>>, <<4, 2>>, <<4, 3>>}}

NoImpls == [n \in MCTraced |-> {}]

Resolutions ==
  {NoImpls, [NoImpls EXCEPT ![2] = {3}], [NoImpls EXCEPT ![2] = {3, 4}],
   [NoImpls EXCEPT ![3] = {4}, ![2] = {4}]}

Callers(l) == {l[i][1] : i \in DOMAIN l}

Resolved(l, r, n) == IF n \in Callers(l) THEN {} ELSE r[n] \intersect Callers(l)

(* Nodes are calls with the function they are met in. *)
Met(l, r) ==
  LET all == [i \in 1..(Len(l) * 4) |-> <<((i - 1) % Len(l)) + 1, ((i - 1) \div Len(l)) + 1>>]
  IN  SelectSeq(all, LAMBDA m : l[m[1]][1] \in {m[2]} \union Resolved(l, r, m[2]))

Places(met, n) == InOrder({i \in DOMAIN met : met[i][2] = n})

PlainTree(l, r) ==
  LET met == Met(l, r)
  IN  [size |-> Len(met), builtins |-> {},
       edge |-> [i \in DOMAIN met |-> met[i][1]],
       key |-> [i \in DOMAIN met |-> met[i][1]],
       below |-> [i \in DOMAIN met |-> met[i][2]],
       kids |-> [i \in 0..Len(met) |-> Places(met, IF i = 0 THEN 1 ELSE l[met[i][1]][2])]]

(* A node t.size + 1 with the given edge and children, below the nodes of  *)
(* above, the first of their children.                                     *)
Grown(t, above, edge, key, below, kids) ==
  [size |-> t.size + 1, builtins |-> t.builtins,
   edge |-> Append(t.edge, edge),
   key |-> Append(t.key, key),
   below |-> Append(t.below, below),
   kids |-> [n \in 0..(t.size + 1) |->
               IF n = t.size + 1 THEN kids
               ELSE IF n \in above THEN <<t.size + 1>> \o t.kids[n] ELSE t.kids[n]]]

WithWrapper(t) == Grown(t, {0}, 0, 0, 1, t.kids[0])

WithBuiltin(t) == LET g == Grown(t, {0}, 1, 0, 1, <<>>)
                  IN  [g EXCEPT !.builtins = {g.size}]

WithArgument(t, l, n) == Grown(t, {n}, t.edge[n], 9, l[t.edge[n]][2], <<>>)

WithoutLast(t) == [t EXCEPT !.kids[0] = SubSeq(@, 1, 1)]

Program(l, r, t) ==
  [root |-> 1, body |-> Callers(l), edges |-> l, impl |-> r, tree |-> t]

MCPrograms ==
  UNION {LET t == PlainTree(l, r)
         IN  {Program(l, r, t), Program(l, r, WithWrapper(t)), Program(l, r, WithBuiltin(t)),
              Program(l, r, WithoutLast(t)), Program(l, r, WithArgument(t, l, 1))} :
         l \in CallLists, r \in Resolutions}

MCLimits ==
  {[reachable |-> 600, depth |-> 14, nodes |-> 60],
   [reachable |-> 3, depth |-> 3, nodes |-> 3],
   [reachable |-> 4, depth |-> 2, nodes |-> 2]}
=============================================================================
