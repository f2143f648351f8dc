-------------------------- MODULE SpecWalks_proofs --------------------------
(***************************************************************************)
(* Theorems about two walks of internal/spec over the call graph: LazyTree *)
(* for any plans, limits and cap on instances, MiddlewareWalk for any      *)
(* graph and any middleware.                                               *)
(***************************************************************************)
EXTENDS LazyTree, MiddlewareWalk, FiniteSetTheorems, SequenceTheorems,
        WellFoundedInduction, TLAPS

LinesNotEmpty == \A n \in nodes : n.line # <<>>

LEMMA AppendFacts ==
  ASSUME NEW S, NEW s \in Seq(S), NEW e \in S
  PROVE  /\ Append(s, e) \in Seq(S)
         /\ Append(s, e) # <<>>
         /\ Len(Append(s, e)) = Len(s) + 1
         /\ DOMAIN Append(s, e) = 1..(Len(s) + 1)
         /\ \A i \in 1..Len(s) : Append(s, e)[i] = s[i]
         /\ Append(s, e)[Len(s) + 1] = e
         /\ Len(s) \in Nat
  BY AppendProperties, LenProperties

LEMMA GreatestFacts ==
  ASSUME NEW n \in Nat, NEW S, S \subseteq 1..n, S # {}
  PROVE  \E i \in S : \A j \in S : j <= i
<1>1. PICK T : T = {n - i : i \in S}
  OBVIOUS
<1>2. T \subseteq Nat /\ T # {}
  <2>1. ASSUME NEW i \in S
        PROVE  n - i \in Nat
    <3>1. i \in 1..n
      OBVIOUS
    <3> QED
      BY <3>1
  <2>2. PICK i \in S : TRUE
    OBVIOUS
  <2>3. n - i \in T
    BY <1>1, <2>2
  <2> QED
    BY <1>1, <2>1, <2>3
<1>3. PICK t \in T : \A u \in T : ~(<<u, t>> \in OpToRel(<, Nat))
  BY <1>2, NatLessThanWellFounded, WFMin
<1>4. ASSUME NEW u \in T
      PROVE  ~(u < t)
  <2>1. u < t => <<u, t>> \in OpToRel(<, Nat)
    BY <1>2, Zenon DEF OpToRel
  <2> QED
    BY <1>3, <2>1
<1>5. PICK i \in S : t = n - i
  BY <1>1
<1>6. ASSUME NEW j \in S
      PROVE  j <= i
  <2>1. ~(n - j < n - i)
    BY <1>1, <1>4, <1>5
  <2>2. i \in Int /\ j \in Int
    OBVIOUS
  <2> QED
    BY <2>1, <2>2
<1> QED
  BY <1>6

(* The parts of a node. *)
LEMMA NodeFacts ==
  ASSUME TypeOK, LinesNotEmpty, NEW n \in nodes
  PROVE  /\ n.listed \in Seq(Contents)
         /\ n.line \in Seq(Contents)
         /\ Len(n.line) \in Nat \ {0}
         /\ DOMAIN n.line = 1..Len(n.line)
         /\ \A i \in 1..Len(n.line) : n.line[i].key \in Keys
         /\ Own(n) \in Contents
         /\ PlanFor(n) \in Seq(Specs)
         /\ DOMAIN PlanFor(n) = 1..Len(PlanFor(n))
         /\ Len(PlanFor(n)) \in Nat
         /\ \A i \in 1..Len(PlanFor(n)) : PlanFor(n)[i] \in Specs
<1>1. n.listed \in Seq(Contents) /\ n.line \in Seq(Contents)
  BY DEF TypeOK, Nodes
<1>2. n.line # <<>>
  BY DEF LinesNotEmpty
<1>3. Len(n.line) \in Nat \ {0} /\ DOMAIN n.line = 1..Len(n.line)
  BY <1>1, <1>2, LenProperties, EmptySeq
<1>4. \A i \in 1..Len(n.line) : n.line[i] \in Contents
  BY <1>1, ElementOfSeq
<1>5. Own(n) \in Contents
  BY <1>3, <1>4 DEF Own
<1>6. PlanFor(n) \in Seq(Specs)
  BY <1>5 DEF PlanFor, TypeOK
<1>7. \A i \in 1..Len(PlanFor(n)) : PlanFor(n)[i] \in Specs
  BY <1>6, ElementOfSeq
<1>8. DOMAIN PlanFor(n) = 1..Len(PlanFor(n)) /\ Len(PlanFor(n)) \in Nat
  BY <1>6, LenProperties
<1> QED
  BY <1>1, <1>3, <1>4, <1>5, <1>6, <1>7, <1>8 DEF Contents

(* A node's scope is the key of the argument that it is under, if any. *)
LEMMA ScopeFacts ==
  ASSUME TypeOK, LinesNotEmpty, NEW n \in nodes
  PROVE  \/ InstanceScope(n) = Wiring /\ Argument(n) = {}
         \/ InstanceScope(n) \in Keys /\ Argument(n) = {InstanceScope(n)}
<1>1. PICK args : args = {i \in DOMAIN n.line : n.line[i].arg}
  OBVIOUS
<1>2. DOMAIN n.line = 1..Len(n.line) /\ Len(n.line) \in Nat
  BY NodeFacts
<1>3. CASE args = {}
  <2>1. InstanceScope(n) = Wiring
    BY <1>1, <1>3 DEF InstanceScope
  <2>2. Argument(n) = {}
    BY <1>1, <1>3 DEF Argument
  <2> QED
    BY <2>1, <2>2
<1>4. CASE args # {}
  <2>1. args \subseteq 1..Len(n.line)
    BY <1>1, <1>2
  <2>2. PICK i \in args : \A j \in args : j <= i
    BY <1>2, <1>4, <2>1, GreatestFacts
  <2>3. ASSUME NEW u \in args, \A j \in args : j <= u
        PROVE  u = i
    <3>1. u \in Int /\ i \in Int
      BY <2>1
    <3> QED
      BY <2>2, <2>3, <3>1
  <2>4. (CHOOSE u \in args : \A j \in args : j <= u) = i
    BY <2>2, <2>3
  <2>5. InstanceScope(n) = n.line[i].key
    BY <1>1, <1>4, <2>4 DEF InstanceScope
  <2>6. {u \in DOMAIN n.line :
           n.line[u].arg /\ \A k \in DOMAIN n.line : k > u => ~n.line[k].arg} = {i}
    <3>1. ASSUME NEW u \in DOMAIN n.line, n.line[u].arg,
                 \A k \in DOMAIN n.line : k > u => ~n.line[k].arg
          PROVE  u = i
      <4>1. u \in args
        BY <1>1, <3>1
      <4>2. ~(i > u)
        BY <1>1, <3>1, <2>2
      <4>3. u <= i /\ u \in Int /\ i \in Int
        BY <2>1, <2>2, <4>1
      <4> QED
        BY <4>2, <4>3
    <3>2. ASSUME NEW k \in DOMAIN n.line, k > i
          PROVE  ~n.line[k].arg
      <4>1. k \in args => k <= i
        BY <2>2
      <4>2. k \in Int /\ i \in Int
        BY <1>2, <2>1
      <4> QED
        BY <1>1, <3>2, <4>1, <4>2
    <3>3. i \in DOMAIN n.line /\ n.line[i].arg
      BY <1>1
    <3> QED
      BY <3>1, <3>2, <3>3
  <2>7. Argument(n) = {n.line[i].key}
    BY <2>6 DEF Argument
  <2>8. n.line[i].key \in Keys
    BY <2>1, NodeFacts
  <2> QED
    BY <2>5, <2>7, <2>8
<1> QED
  BY <1>3, <1>4

(* A child, and the line it hangs under. *)
LEMMA ChildFacts ==
  ASSUME TypeOK, LinesNotEmpty, NEW n \in nodes, NEW spec \in Specs
  PROVE  /\ Child(n, spec) \in Nodes
         /\ Child(n, spec).listed = Append(n.listed, Content(spec))
         /\ Child(n, spec).line =
              Append(LineAbove(n, spec), Content(spec))
         /\ LineAbove(n, spec) \in Seq(Contents)
         /\ Len(LineAbove(n, spec)) \in 0..Len(n.line)
         /\ DOMAIN LineAbove(n, spec) = 1..Len(LineAbove(n, spec))
         /\ \A i \in 1..Len(LineAbove(n, spec)) :
              i \in 1..Len(n.line) /\ LineAbove(n, spec)[i] = n.line[i]
         /\ Child(n, spec).line # <<>>
         /\ Key(Child(n, spec)) = spec.key
<1>1. /\ n.listed \in Seq(Contents)
      /\ n.line \in Seq(Contents)
      /\ Len(n.line) \in Nat \ {0}
      /\ DOMAIN n.line = 1..Len(n.line)
  BY NodeFacts
<1>2. spec.key \in Keys /\ Content(spec) \in Contents
  BY DEF Specs, Contents, Content
<1>3. PICK m \in 0..Len(n.line) : m = Len(n.line) - 1
  <2>1. Len(n.line) - 1 \in 0..Len(n.line)
    BY <1>1
  <2> QED
    BY <2>1
<1>4. /\ SubSeq(n.line, 1, m) \in Seq(Contents)
      /\ Len(SubSeq(n.line, 1, m)) = m
      /\ \A i \in 1..m : SubSeq(n.line, 1, m)[i] = n.line[i]
  <2>1. \A i \in 1..m : n.line[i] \in Contents
    BY <1>1, <1>3, ElementOfSeq
  <2>2. /\ SubSeq(n.line, 1, m) \in Seq(Contents)
        /\ Len(SubSeq(n.line, 1, m)) = IF 1 <= m THEN m - 1 + 1 ELSE 0
        /\ \A i \in 1..(m - 1 + 1) : SubSeq(n.line, 1, m)[i] = n.line[1 + i - 1]
    BY <2>1, <1>1, SubSeqProperties
  <2>3. Len(SubSeq(n.line, 1, m)) = m
    BY <2>2, <1>1, <1>3
  <2>4. \A i \in 1..m : SubSeq(n.line, 1, m)[i] = n.line[i]
    BY <2>2, <1>1, <1>3
  <2> QED
    BY <2>2, <2>3, <2>4
<1>5. LineAbove(n, spec) = SubSeq(n.line, 1, m) \/ LineAbove(n, spec) = n.line
  BY <1>3 DEF LineAbove
<1>6. /\ LineAbove(n, spec) \in Seq(Contents)
      /\ Len(LineAbove(n, spec)) \in 0..Len(n.line)
      /\ \A i \in 1..Len(LineAbove(n, spec)) :
           i \in 1..Len(n.line) /\ LineAbove(n, spec)[i] = n.line[i]
  <2>1. CASE LineAbove(n, spec) = n.line
    BY <1>1, <2>1
  <2>2. CASE LineAbove(n, spec) = SubSeq(n.line, 1, m)
    BY <1>1, <1>3, <1>4, <2>2
  <2> QED
    BY <1>5, <2>1, <2>2
<1>7. DOMAIN LineAbove(n, spec) = 1..Len(LineAbove(n, spec))
  BY <1>6, LenProperties
<1>8. /\ Child(n, spec).listed = Append(n.listed, Content(spec))
      /\ Child(n, spec).line =
           Append(LineAbove(n, spec), Content(spec))
      /\ Child(n, spec).scope = InstanceScope(n)
  BY DEF Child, Node
<1>9. InstanceScope(n) \in Keys \union {Wiring}
  BY ScopeFacts
<1>10. /\ Append(n.listed, Content(spec)) \in Seq(Contents)
       /\ Child(n, spec).line \in Seq(Contents)
       /\ Child(n, spec).line # <<>>
       /\ Len(Child(n, spec).line) = Len(LineAbove(n, spec)) + 1
       /\ Child(n, spec).line[Len(LineAbove(n, spec)) + 1] =
            Content(spec)
  BY <1>1, <1>2, <1>6, <1>8, AppendFacts
<1>11. Child(n, spec) \in Nodes
  BY <1>8, <1>9, <1>10 DEF Child, Node, Nodes
<1>12. Key(Child(n, spec)) = spec.key
  BY <1>10 DEF Key, Own, Content
<1> QED
  BY <1>6, <1>7, <1>8, <1>10, <1>11, <1>12

(* What an expansion does. *)
LEMMA ExpandFacts ==
  ASSUME TypeOK, LinesNotEmpty, NEW n \in nodes, Expand(n)
  PROVE  /\ nodes \subseteq nodes'
         /\ \A m \in nodes' : \/ m \in nodes
                              \/ \E i \in Made(n) : m = Child(n, PlanFor(n)[i])
         /\ \A i \in Made(n) : Child(n, PlanFor(n)[i]) \in nodes'
         /\ expanded' = expanded \union {n}
         /\ \A i \in Made(n) : /\ i \in DOMAIN PlanFor(n)
                               /\ PlanFor(n)[i] \in Specs
                               /\ Admits(n, i)
         /\ instanceCount' = Counted(n, Made(n))
         /\ seenKeys' = seenKeys \union {PlanFor(n)[i].key : i \in Made(n)}
         /\ plan' = plan /\ limits' = limits
<1>1. /\ nodes' = nodes \union {Child(n, PlanFor(n)[i]) : i \in Made(n)}
      /\ expanded' = expanded \union {n}
      /\ instanceCount' = Counted(n, Made(n))
      /\ seenKeys' = seenKeys \union {PlanFor(n)[i].key : i \in Made(n)}
      /\ plan' = plan /\ limits' = limits
  BY DEF Expand
<1>2. \A i \in Made(n) : i \in DOMAIN PlanFor(n) /\ Admits(n, i)
  BY DEF Made
<1>3. \A i \in Made(n) : PlanFor(n)[i] \in Specs
  BY <1>2, NodeFacts
<1> QED
  BY <1>1, <1>2, <1>3

(* What a node makes of one key fits under the cap: the last of its places *)
(* was admitted with the others ahead of it.                               *)
LEMMA PlacesFit ==
  ASSUME TypeOK, LinesNotEmpty, NEW n \in nodes, NEW k \in Keys
  PROVE  /\ IsFiniteSet(PlacesOf(n, Made(n), k))
         /\ Cardinality(PlacesOf(n, Made(n), k)) \in Nat
         /\ instanceCount[InstanceScope(n)][k] + Cardinality(PlacesOf(n, Made(n), k))
              \in 0..MaxInstancesPerKey
<1>1. PICK P : P = PlacesOf(n, Made(n), k)
  OBVIOUS
<1>2. PICK len \in Nat : len = Len(PlanFor(n)) /\ DOMAIN PlanFor(n) = 1..len
  BY NodeFacts
<1>3. P \subseteq 1..len /\ \A i \in P : PlanFor(n)[i].key = k /\ Admits(n, i)
  BY <1>1, <1>2 DEF PlacesOf, Made
<1>4. IsFiniteSet(1..len)
  BY FS_Interval
<1>5. IsFiniteSet(P) /\ Cardinality(P) \in Nat
  BY <1>3, <1>4, FS_Subset, FS_CardinalityType
<1>6. instanceCount[InstanceScope(n)][k] \in 0..MaxInstancesPerKey
  BY ScopeFacts DEF TypeOK
<1>7. CASE P = {}
  <2>1. Cardinality(P) = 0
    BY <1>7, FS_EmptySet
  <2> QED
    BY <1>1, <1>5, <1>6, <2>1
<1>8. CASE P # {}
  <2>1. PICK i \in P : \A j \in P : j <= i
    BY <1>3, <1>8, GreatestFacts
  <2>2. PICK A : A = {j \in DOMAIN PlanFor(n) : j < i /\ PlanFor(n)[j].key = PlanFor(n)[i].key}
    OBVIOUS
  <2>3. IsFiniteSet(A) /\ Cardinality(A) \in Nat
    <3>1. A \subseteq 1..len
      BY <1>2, <2>2
    <3> QED
      BY <1>4, <3>1, FS_Subset, FS_CardinalityType
  <2>4. P \ {i} \subseteq A
    <3>1. ASSUME NEW j \in P, j # i PROVE j \in A
      <4>1. j <= i /\ j \in Int /\ i \in Int
        BY <1>3, <2>1, <3>1
      <4> QED
        BY <1>2, <1>3, <2>2, <3>1, <4>1
    <3> QED
      BY <3>1
  <2>5. Cardinality(P \ {i}) = Cardinality(P) - 1
    BY <1>5, FS_RemoveElement
  <2>6. Cardinality(P \ {i}) <= Cardinality(A)
    BY <2>3, <2>4, FS_Subset
  <2>7. instanceCount[InstanceScope(n)][k] + Cardinality(A) < MaxInstancesPerKey
    BY <1>3, <2>2 DEF Admits, CopiesSoFar, Ahead
  <2>8. instanceCount[InstanceScope(n)][k] + Cardinality(P) \in 0..MaxInstancesPerKey
    BY <1>5, <1>6, <2>3, <2>5, <2>6, <2>7, LazyTreeAssumption
  <2> QED
    BY <1>1, <1>5, <2>8
<1> QED
  BY <1>7, <1>8

(* For any plans, limits and cap: the tree is well typed, no line is       *)
(* empty, and no count ever exceeds MaxInstancesPerKey.                    *)
THEOREM TypeCorrect == Spec => [](TypeOK /\ LinesNotEmpty)
<1>1. Init => TypeOK /\ LinesNotEmpty
  <2> SUFFICES ASSUME Init
               PROVE  TypeOK /\ LinesNotEmpty
    OBVIOUS
  <2>1. plan \in [Contents -> Seq(Specs)] /\ limits \in [nodes : Int, children : Int]
    BY LazyTreeAssumption DEF Init
  <2>2. ASSUME NEW c \in [key : Roots, arg : {FALSE}]
        PROVE  /\ Node(<<c>>, <<c>>, Wiring) \in Nodes
               /\ Node(<<c>>, <<c>>, Wiring).line # <<>>
    <3>1. c \in Contents
      BY LazyTreeAssumption DEF Contents
    <3>2. <<c>> \in Seq(Contents)
      BY <3>1
    <3> QED
      BY <3>2 DEF Node, Nodes
  <2>3. nodes \subseteq Nodes /\ LinesNotEmpty
    BY <2>2 DEF Init, LinesNotEmpty
  <2>4. instanceCount \in [Keys \union {Wiring} -> [Keys -> 0..MaxInstancesPerKey]]
    <3>1. 0 \in 0..MaxInstancesPerKey
      BY LazyTreeAssumption
    <3> QED
      BY <3>1 DEF Init
  <2>5. expanded \subseteq nodes /\ seenKeys \subseteq Keys
    BY DEF Init
  <2> QED
    BY <2>1, <2>3, <2>4, <2>5 DEF TypeOK
<1>2. TypeOK /\ LinesNotEmpty /\ [Next]_vars => TypeOK' /\ LinesNotEmpty'
  <2> SUFFICES ASSUME TypeOK, LinesNotEmpty, [Next]_vars
               PROVE  TypeOK' /\ LinesNotEmpty'
    OBVIOUS
  <2>1. ASSUME NEW n \in nodes, Expand(n)
        PROVE  TypeOK' /\ LinesNotEmpty'
    <3>1. InstanceScope(n) \in Keys \union {Wiring}
      BY ScopeFacts
    <3>2. [k \in Keys |-> instanceCount[InstanceScope(n)][k]
                            + Cardinality(PlacesOf(n, Made(n), k))]
            \in [Keys -> 0..MaxInstancesPerKey]
      BY PlacesFit
    <3>3. instanceCount' = [instanceCount EXCEPT ![InstanceScope(n)] =
            [k \in Keys |-> instanceCount[InstanceScope(n)][k]
                              + Cardinality(PlacesOf(n, Made(n), k))]]
      BY <2>1, <3>1, ExpandFacts DEF Counted
    <3>4. \A i \in Made(n) : PlanFor(n)[i].key \in Keys
      BY <2>1, ExpandFacts DEF Specs
    <3>5. instanceCount' \in [Keys \union {Wiring} -> [Keys -> 0..MaxInstancesPerKey]]
      BY <3>1, <3>2, <3>3 DEF TypeOK
    <3>6. \A m \in nodes' : m \in Nodes /\ m.line # <<>>
      <4>1. ASSUME NEW m \in nodes'
            PROVE  m \in Nodes /\ m.line # <<>>
        <5>1. CASE m \in nodes
          BY <5>1 DEF TypeOK, LinesNotEmpty
        <5>2. CASE \E i \in Made(n) : m = Child(n, PlanFor(n)[i])
          <6>1. PICK i \in Made(n) : m = Child(n, PlanFor(n)[i])
            BY <5>2
          <6>2. PlanFor(n)[i] \in Specs
            BY <2>1, ExpandFacts
          <6> QED
            BY <6>1, <6>2, ChildFacts
        <5> QED
          BY <2>1, <5>1, <5>2, ExpandFacts
      <4> QED
        BY <4>1
    <3>7. expanded' \subseteq nodes' /\ seenKeys' \subseteq Keys
      <4>1. /\ expanded' = expanded \union {n}
            /\ nodes \subseteq nodes'
            /\ seenKeys' = seenKeys \union {PlanFor(n)[i].key : i \in Made(n)}
        BY <2>1, ExpandFacts
      <4> QED
        BY <3>4, <4>1 DEF TypeOK
    <3>8. plan' = plan /\ limits' = limits
      BY <2>1, ExpandFacts
    <3> QED
      BY <3>5, <3>6, <3>7, <3>8 DEF TypeOK, LinesNotEmpty
  <2>2. CASE UNCHANGED vars
    BY <2>2 DEF vars, TypeOK, LinesNotEmpty
  <2> QED
    BY <2>1, <2>2 DEF Next, Reread
<1> QED
  BY <1>1, <1>2, PTL DEF Spec

(* The guard of the path: what is on n's line is on the line above a       *)
(* child, or left out of it, and the child's own key is not.               *)
THEOREM LinesStayAcyclic == Spec => []LinesAcyclic
<1>1. Init => LinesAcyclic
  <2> SUFFICES ASSUME Init, NEW n \in nodes
               PROVE  \A i, j \in DOMAIN n.line : n.line[i].key = n.line[j].key => i = j
    BY DEF LinesAcyclic
  <2>1. PICK c \in [key : Roots, arg : {FALSE}] : n.line = <<c>>
    <3>1. PICK c \in [key : Roots, arg : {FALSE}] : n = Node(<<c>>, <<c>>, Wiring)
      BY DEF Init
    <3>2. n.line = <<c>>
      BY <3>1 DEF Node
    <3> QED
      BY <3>2
  <2>2. DOMAIN n.line = 1..1
    BY <2>1
  <2>3. \A i, j \in 1..1 : i = j
    OBVIOUS
  <2> QED
    BY <2>2, <2>3
<1>2. /\ TypeOK /\ LinesNotEmpty
      /\ LinesAcyclic
      /\ [Next]_vars
      => LinesAcyclic'
  <2> SUFFICES ASSUME TypeOK, LinesNotEmpty, LinesAcyclic, [Next]_vars
               PROVE  LinesAcyclic'
    OBVIOUS
  <2>1. ASSUME NEW n \in nodes, Expand(n)
        PROVE  LinesAcyclic'
    <3> SUFFICES ASSUME NEW m \in nodes'
                 PROVE  \A i, j \in DOMAIN m.line : m.line[i].key = m.line[j].key => i = j
      BY DEF LinesAcyclic
    <3>1. CASE m \in nodes
      BY <3>1 DEF LinesAcyclic
    <3>2. CASE \E p \in Made(n) : m = Child(n, PlanFor(n)[p])
      <4>1. PICK spec \in Specs : m = Child(n, spec) /\ ~OnPath(n, spec.key)
        <5>1. PICK p \in Made(n) : m = Child(n, PlanFor(n)[p])
          BY <3>2
        <5>2. PlanFor(n)[p] \in Specs /\ Admits(n, p)
          BY <2>1, ExpandFacts
        <5> QED
          BY <5>1, <5>2 DEF Admits
      <4>2. PICK above : above = LineAbove(n, spec)
        OBVIOUS
      <4>3. PICK content \in Contents : content = Content(spec)
        BY DEF Contents, Specs, Content
      <4>4. /\ m.line = Append(above, content)
            /\ above \in Seq(Contents)
            /\ Len(above) \in 0..Len(n.line)
            /\ \A i \in 1..Len(above) : i \in 1..Len(n.line) /\ above[i] = n.line[i]
        BY <4>1, <4>2, <4>3, ChildFacts
      <4>5. /\ DOMAIN m.line = 1..(Len(above) + 1)
            /\ \A i \in 1..Len(above) : m.line[i] = above[i]
            /\ m.line[Len(above) + 1] = content
            /\ Len(above) \in Nat
        BY <4>4, AppendFacts
      <4>6. DOMAIN n.line = 1..Len(n.line)
        BY NodeFacts
      <4>7. \A i, j \in 1..Len(above) : m.line[i].key = m.line[j].key => i = j
        BY <4>4, <4>5, <4>6 DEF LinesAcyclic
      <4>8. \A i \in 1..Len(above) : m.line[i].key # content.key
        <5>1. content.key \notin KeysOn(n.line)
          BY <4>1, <4>3 DEF OnPath, Content
        <5> QED
          BY <4>4, <4>5, <4>6, <5>1 DEF KeysOn
      <4>9. \A i \in DOMAIN m.line : i \in 1..Len(above) \/ i = Len(above) + 1
        BY <4>5
      <4>10. m.line[Len(above) + 1].key = content.key
        BY <4>5
      <4> QED
        BY <4>7, <4>8, <4>9, <4>10
    <3> QED
      BY <2>1, <3>1, <3>2, ExpandFacts
  <2>2. CASE UNCHANGED vars
    BY <2>2 DEF vars, LinesAcyclic
  <2> QED
    BY <2>1, <2>2 DEF Next, Reread
<1> QED
  BY <1>1, <1>2, TypeCorrect, PTL DEF Spec

(* A count is backed by a node: one that a node of the scope lists.        *)
CountedIsListed ==
  \A s \in Keys \union {Wiring} : \A k \in Keys :
    instanceCount[s][k] > 0 =>
      \E l \in nodes : InstanceScope(l) = s /\ \E m \in ListedBy(l) : Key(m) = k

(* What a node lists stays listed. *)
LEMMA ListedStays ==
  ASSUME nodes \subseteq nodes', NEW l \in nodes
  PROVE  ListedBy(l) \subseteq ListedBy(l)'
  BY DEF ListedBy

LEMMA ChildListed ==
  ASSUME TypeOK, LinesNotEmpty, NEW n \in nodes, NEW spec \in Specs,
         Child(n, spec) \in nodes'
  PROVE  Child(n, spec) \in ListedBy(n)'
<1>1. PICK m \in nodes' : m = Child(n, spec)
  OBVIOUS
<1>2. m.listed = Append(n.listed, Content(spec)) /\ Content(spec) \in Contents
  BY <1>1, ChildFacts DEF Specs, Contents, Content
<1>3. n.listed \in Seq(Contents)
  BY NodeFacts
<1>4. /\ Len(m.listed) = Len(n.listed) + 1
      /\ \A i \in 1..Len(n.listed) : m.listed[i] = n.listed[i]
      /\ Len(n.listed) \in Nat
      /\ m.listed \in Seq(Contents)
  BY <1>2, <1>3, AppendFacts
<1>5. SubSeq(m.listed, 1, Len(n.listed)) = n.listed
  BY <1>2, <1>3, <1>4
<1> QED
  BY <1>1, <1>4, <1>5 DEF ListedBy

LEMMA CountsBacked == Spec => []CountedIsListed
<1>1. Init => CountedIsListed
  BY DEF Init, CountedIsListed
<1>2. /\ TypeOK /\ LinesNotEmpty
      /\ CountedIsListed
      /\ [Next]_vars
      => CountedIsListed'
  <2> SUFFICES ASSUME TypeOK, LinesNotEmpty, CountedIsListed, [Next]_vars
               PROVE  CountedIsListed'
    OBVIOUS
  <2>1. ASSUME NEW n \in nodes, Expand(n)
        PROVE  CountedIsListed'
    <3> SUFFICES ASSUME NEW s \in Keys \union {Wiring}, NEW k \in Keys,
                        instanceCount'[s][k] > 0
                 PROVE  \E l \in nodes' : /\ InstanceScope(l) = s
                                          /\ \E m \in ListedBy(l)' : Key(m) = k
      BY DEF CountedIsListed
    <3>1. CASE instanceCount[s][k] > 0
      <4>1. PICK l \in nodes : InstanceScope(l) = s /\ \E m \in ListedBy(l) : Key(m) = k
        BY <3>1 DEF CountedIsListed
      <4>2. nodes \subseteq nodes'
        BY <2>1, ExpandFacts
      <4>3. ListedBy(l) \subseteq ListedBy(l)'
        BY <4>2, ListedStays
      <4> QED
        BY <4>1, <4>2, <4>3
    <3>2. CASE ~(instanceCount[s][k] > 0)
      <4>1. s = InstanceScope(n) /\ PlacesOf(n, Made(n), k) # {}
        <5>1. instanceCount' = Counted(n, Made(n))
          BY <2>1, ExpandFacts
        <5>2. ~(instanceCount'[s][k] = instanceCount[s][k])
          BY <3>2
        <5>3. instanceCount \in [Keys \union {Wiring} -> [Keys -> 0..MaxInstancesPerKey]]
          BY DEF TypeOK
        <5>4. s = InstanceScope(n)
          BY <5>1, <5>2, <5>3 DEF Counted
        <5>5. instanceCount'[s][k]
                = instanceCount[s][k] + Cardinality(PlacesOf(n, Made(n), k))
          BY <5>1, <5>3, <5>4 DEF Counted
        <5>6. instanceCount[s][k] \in Int
          BY <5>3, LazyTreeAssumption
        <5>7. Cardinality(PlacesOf(n, Made(n), k)) # 0
          BY <5>2, <5>5, <5>6
        <5> QED
          BY <5>4, <5>7, FS_EmptySet
      <4>2. PICK i \in Made(n) : k = PlanFor(n)[i].key
        BY <4>1 DEF PlacesOf
      <4>3. PlanFor(n)[i] \in Specs /\ Child(n, PlanFor(n)[i]) \in nodes'
        BY <2>1, ExpandFacts
      <4>4. Child(n, PlanFor(n)[i]) \in ListedBy(n)'
        BY <4>3, ChildListed
      <4>5. Key(Child(n, PlanFor(n)[i])) = k
        BY <4>2, <4>3, ChildFacts
      <4>6. n \in nodes'
        BY <2>1, ExpandFacts
      <4> QED
        BY <4>1, <4>4, <4>5, <4>6
    <3> QED
      BY <3>1, <3>2
  <2>2. CASE UNCHANGED vars
    <3>1. nodes' = nodes /\ instanceCount' = instanceCount
      BY <2>2 DEF vars
    <3>2. \A l : ListedBy(l)' = ListedBy(l)
      BY <3>1 DEF ListedBy
    <3> QED
      BY <3>1, <3>2 DEF CountedIsListed
  <2> QED
    BY <2>1, <2>2 DEF Next, Reread
<1> QED
  BY <1>1, <1>2, TypeCorrect, PTL DEF Spec

(* A planned call of a node is left out for one of three reasons.          *)
LEMMA LeftOut ==
  ASSUME TypeOK, LinesNotEmpty, NEW n \in nodes, NEW i \in DOMAIN PlanFor(n),
         i \notin Made(n)
  PROVE  \/ OnPath(n, PlanFor(n)[i].key)
         \/ ~(CopiesSoFar(n, i) < MaxInstancesPerKey)
         \/ PastChildLimit(n, i)
<1> SUFFICES ASSUME Admits(n, i)
             PROVE  PastChildLimit(n, i)
  BY DEF Admits
<1>1. PICK S : S = {j \in AdmittedCalls(n) : j < i}
  OBVIOUS
<1>2. PICK T : T = {j \in DOMAIN PlanFor(n) : j < i /\ ~PlanFor(n)[j].arg}
  OBVIOUS
<1>3. ~PlanFor(n)[i].arg /\ ~(Cardinality(S) < limits.children)
  BY <1>1 DEF Made
<1>4. S \subseteq T
  BY <1>1, <1>2 DEF AdmittedCalls
<1>5. IsFiniteSet(T)
  <2>1. PICK len \in Nat : DOMAIN PlanFor(n) = 1..len
    BY NodeFacts
  <2>2. IsFiniteSet(1..len)
    BY <2>1, FS_Interval
  <2> QED
    BY <1>2, <2>1, <2>2, FS_Subset
<1>6. Cardinality(S) <= Cardinality(T)
  BY <1>4, <1>5, FS_Subset
<1>7. /\ Cardinality(S) \in Nat /\ Cardinality(T) \in Nat
      /\ limits.children \in Int
  BY <1>4, <1>5, FS_Subset, FS_CardinalityType DEF TypeOK
<1>8. Cardinality(T) >= limits.children
  BY <1>3, <1>6, <1>7
<1> QED
  BY <1>2, <1>3, <1>8 DEF PastChildLimit

(* The plan is one of those that are considered. *)
PlanOffered == plan \in Plans

LEMMA PlanStays == Spec => []PlanOffered
<1>1. Init => PlanOffered
  BY DEF Init, PlanOffered
<1>2. PlanOffered /\ [Next]_vars => PlanOffered'
  BY DEF Next, Expand, Reread, vars, PlanOffered
<1> QED
  BY <1>1, <1>2, PTL DEF Spec

(* What comes ahead of a call in its own plan under the same key is one    *)
(* argument, and nothing comes ahead of that.                              *)
LEMMA AheadFacts ==
  ASSUME TypeOK, LinesNotEmpty, PlanOffered, NEW n \in nodes, NEW i \in DOMAIN PlanFor(n)
  PROVE  \/ Ahead(n, i) = 0
         \/ /\ Ahead(n, i) = 1
            /\ \E j \in DOMAIN PlanFor(n) : /\ PlanFor(n)[j].key = PlanFor(n)[i].key
                                            /\ PlanFor(n)[j].arg
                                            /\ Ahead(n, j) = 0
<1>1. /\ \A u, v \in DOMAIN PlanFor(n) :
           PlanFor(n)[u].key = PlanFor(n)[v].key /\ PlanFor(n)[u].arg = PlanFor(n)[v].arg
             => u = v
      /\ \A u, v \in DOMAIN PlanFor(n) : PlanFor(n)[u].arg /\ ~PlanFor(n)[v].arg => u < v
  <2>1. Own(n) \in Contents /\ plan \in Plans
    BY NodeFacts DEF PlanOffered
  <2> QED
    BY <2>1, PlansAssumption, SMT DEF PlanFor
<1>2. \A u \in DOMAIN PlanFor(n) : u \in Int /\ PlanFor(n)[u].arg \in BOOLEAN
  BY NodeFacts DEF Specs
<1>3. PICK before : before = [u \in DOMAIN PlanFor(n) |->
        {j \in DOMAIN PlanFor(n) : j < u /\ PlanFor(n)[j].key = PlanFor(n)[u].key}]
  OBVIOUS
<1>4. \A u \in DOMAIN PlanFor(n) : Ahead(n, u) = Cardinality(before[u])
  BY <1>3 DEF Ahead
<1>5. CASE before[i] = {}
  BY <1>4, <1>5, FS_EmptySet
<1>6. CASE before[i] # {}
  <2>1. PICK j \in before[i] : TRUE
    BY <1>6
  <2>2. /\ j \in DOMAIN PlanFor(n) /\ j < i /\ j # i
        /\ PlanFor(n)[j].key = PlanFor(n)[i].key
    BY <1>2, <1>3, <2>1
  <2>3. PlanFor(n)[j].arg /\ ~PlanFor(n)[i].arg
    <3>1. PlanFor(n)[i].arg # PlanFor(n)[j].arg
      BY <1>1, <2>2
    <3>2. ~(PlanFor(n)[i].arg /\ ~PlanFor(n)[j].arg)
      <4>1. PlanFor(n)[i].arg /\ ~PlanFor(n)[j].arg => i < j
        BY <1>1, <2>2
      <4>2. ~(i < j)
        BY <1>2, <2>2
      <4> QED
        BY <4>1, <4>2
    <3> QED
      BY <1>2, <2>2, <3>1, <3>2
  <2>4. before[j] = {}
    <3> SUFFICES ASSUME NEW u \in before[j] PROVE FALSE
      OBVIOUS
    <3>1. /\ u \in DOMAIN PlanFor(n) /\ u < j /\ u # j
          /\ PlanFor(n)[u].key = PlanFor(n)[j].key
      BY <1>2, <1>3, <2>2
    <3>2. PlanFor(n)[u].arg # PlanFor(n)[j].arg
      BY <1>1, <2>2, <3>1
    <3>3. ~PlanFor(n)[u].arg
      BY <1>2, <2>3, <3>1, <3>2
    <3>4. j < u
      BY <1>1, <2>2, <2>3, <3>1, <3>3
    <3> QED
      BY <1>2, <2>2, <3>1, <3>4
  <2>5. before[i] = {j}
    <3>1. ASSUME NEW u \in before[i] PROVE u = j
      <4>1. /\ u \in DOMAIN PlanFor(n) /\ u # i
            /\ PlanFor(n)[u].key = PlanFor(n)[i].key
        BY <1>2, <1>3, <3>1
      <4>2. PlanFor(n)[u].arg # PlanFor(n)[i].arg
        BY <1>1, <4>1
      <4>3. PlanFor(n)[u].arg = PlanFor(n)[j].arg
        BY <1>2, <2>2, <2>3, <4>1, <4>2
      <4> QED
        BY <1>1, <2>2, <4>1, <4>3
    <3> QED
      BY <2>1, <3>1
  <2>6. Ahead(n, i) = 1 /\ Ahead(n, j) = 0
    <3>1. Cardinality({j}) = 1 /\ Cardinality({}) = 0
      BY FS_Singleton, FS_EmptySet
    <3> QED
      BY <1>4, <2>2, <2>4, <2>5, <3>1
  <2> QED
    BY <2>2, <2>3, <2>6
<1> QED
  BY <1>5, <1>6

(* Nodes of one scope are under the same argument. *)
LEMMA SameScope ==
  ASSUME TypeOK, LinesNotEmpty, Wiring \notin Keys, NEW l \in nodes, NEW n \in nodes,
         InstanceScope(l) = InstanceScope(n)
  PROVE  Argument(l) = Argument(n)
  BY ScopeFacts

(* What a handler has been given is never taken away, and what it was not  *)
(* given was refused for a reason that lasts.                              *)
THEOREM HandlersKeep == Spec => []HandlersKeepTheirCalls
<1>1. Init => HandlersKeepTheirCalls
  BY DEF Init, HandlersKeepTheirCalls
<1>2. /\ TypeOK /\ LinesNotEmpty /\ PlanOffered
      /\ CountedIsListed
      /\ HandlersKeepTheirCalls
      /\ [Next]_vars
      => HandlersKeepTheirCalls'
  <2> SUFFICES ASSUME TypeOK, LinesNotEmpty, PlanOffered, CountedIsListed,
                      HandlersKeepTheirCalls, [Next]_vars
               PROVE  HandlersKeepTheirCalls'
    OBVIOUS
  <2>1. ASSUME NEW n \in nodes, Expand(n)
        PROVE  HandlersKeepTheirCalls'
    <3>1. plan' = plan /\ limits' = limits /\ nodes \subseteq nodes'
      BY <2>1, ExpandFacts
    <3>2. /\ \A u : PlanFor(u)' = PlanFor(u)
          /\ \A u, i : PastChildLimit(u, i)' <=> PastChildLimit(u, i)
      BY <3>1 DEF PlanFor, PastChildLimit
    <3> SUFFICES ASSUME NEW u \in expanded', NEW i \in DOMAIN PlanFor(u)
                 PROVE  \/ \E l \in nodes' : /\ Argument(l) = Argument(u)
                                             /\ \E m \in ListedBy(l)' :
                                                  Key(m) = PlanFor(u)[i].key
                        \/ OnPath(u, PlanFor(u)[i].key)
                        \/ PastChildLimit(u, i)
      BY <3>2 DEF HandlersKeepTheirCalls
    <3>3. ASSUME NEW l \in nodes, Argument(l) = Argument(u),
                 NEW m \in ListedBy(l), Key(m) = PlanFor(u)[i].key
          PROVE  \E v \in nodes' : /\ Argument(v) = Argument(u)
                                   /\ \E w \in ListedBy(v)' : Key(w) = PlanFor(u)[i].key
      <4>1. ListedBy(l) \subseteq ListedBy(l)'
        BY <3>1, ListedStays
      <4> QED
        BY <3>1, <3>3, <4>1
    <3>4. CASE u \in expanded
      BY <3>3, <3>4 DEF HandlersKeepTheirCalls
    <3>8. ASSUME u = n, NEW j \in Made(n), PlanFor(n)[j].key = PlanFor(n)[i].key
          PROVE  \E l \in nodes' : /\ Argument(l) = Argument(u)
                                   /\ \E m \in ListedBy(l)' : Key(m) = PlanFor(u)[i].key
      <4>1. PlanFor(n)[j] \in Specs /\ Child(n, PlanFor(n)[j]) \in nodes'
        BY <2>1, ExpandFacts
      <4>2. Child(n, PlanFor(n)[j]) \in ListedBy(n)'
        BY <4>1, ChildListed
      <4>3. Key(Child(n, PlanFor(n)[j])) = PlanFor(n)[i].key
        BY <3>8, <4>1, ChildFacts
      <4>4. n \in nodes'
        BY <3>1
      <4> QED
        BY <3>8, <4>2, <4>3, <4>4
    <3>5. CASE u = n /\ i \in Made(n)
      BY <3>5, <3>8
    <3>6. CASE u = n /\ i \notin Made(n)
      <4>1. \/ OnPath(n, PlanFor(n)[i].key)
            \/ ~(CopiesSoFar(n, i) < MaxInstancesPerKey)
            \/ PastChildLimit(n, i)
        BY <3>6, LeftOut
      <4>3. /\ InstanceScope(n) \in Keys \union {Wiring}
            /\ PlanFor(n)[i].key \in Keys
        BY <3>6, NodeFacts, ScopeFacts DEF Specs
      <4>4. instanceCount[InstanceScope(n)][PlanFor(n)[i].key] \in 0..MaxInstancesPerKey
        BY <4>3 DEF TypeOK
      <4>5. CASE instanceCount[InstanceScope(n)][PlanFor(n)[i].key] > 0
        <5>4. PICK l \in nodes : /\ InstanceScope(l) = InstanceScope(n)
                                 /\ \E m \in ListedBy(l) : Key(m) = PlanFor(n)[i].key
          BY <4>3, <4>5 DEF CountedIsListed
        <5>5. Argument(l) = Argument(n)
          BY <5>4, SameScope, LazyTreeAssumption
        <5> QED
          BY <3>3, <3>6, <5>4, <5>5
      <4>6. CASE /\ ~(CopiesSoFar(n, i) < MaxInstancesPerKey) /\ ~OnPath(n, PlanFor(n)[i].key)
                 /\ ~(instanceCount[InstanceScope(n)][PlanFor(n)[i].key] > 0)
        <5>1. instanceCount[InstanceScope(n)][PlanFor(n)[i].key] = 0
          BY <4>4, <4>6, LazyTreeAssumption
        <5>2. Ahead(n, i) # 0
          BY <4>6, <5>1, LazyTreeAssumption DEF CopiesSoFar
        <5>3. PICK j \in DOMAIN PlanFor(n) : /\ PlanFor(n)[j].key = PlanFor(n)[i].key
                                             /\ PlanFor(n)[j].arg
                                             /\ Ahead(n, j) = 0
          BY <3>6, <5>2, AheadFacts
        <5>4. CopiesSoFar(n, j) < MaxInstancesPerKey
          BY <5>1, <5>3, LazyTreeAssumption DEF CopiesSoFar
        <5>5. j \in Made(n)
          BY <4>6, <5>3, <5>4 DEF Made, Admits
        <5> QED
          BY <3>6, <3>8, <5>3, <5>5
      <4> QED
        BY <3>6, <4>1, <4>5, <4>6
    <3>7. u \in expanded \/ u = n
      <4>1. expanded' = expanded \union {n}
        BY <2>1, ExpandFacts
      <4> QED
        BY <4>1
    <3> QED
      BY <3>4, <3>5, <3>6, <3>7
  <2>2. CASE UNCHANGED vars
    <3>1. nodes' = nodes /\ expanded' = expanded /\ plan' = plan /\ limits' = limits
      BY <2>2 DEF vars
    <3>2. /\ \A l : ListedBy(l)' = ListedBy(l)
          /\ \A u : PlanFor(u)' = PlanFor(u)
          /\ \A u, i : PastChildLimit(u, i)' <=> PastChildLimit(u, i)
      BY <3>1 DEF ListedBy, PlanFor, PastChildLimit
    <3> QED
      BY <3>1, <3>2 DEF HandlersKeepTheirCalls
  <2> QED
    BY <2>1, <2>2 DEF Next, Reread
<1> QED
  BY <1>1, <1>2, TypeCorrect, PlanStays, CountsBacked, PTL DEF Spec

(* What stands on a line is the key of a node. *)
LineKeysAreNodes ==
  \A n \in nodes : \A i \in DOMAIN n.line : \E m \in nodes : Key(m) = n.line[i].key

LEMMA LineKeysMet == Spec => []LineKeysAreNodes
<1>1. Init => LineKeysAreNodes
  <2> SUFFICES ASSUME Init, NEW n \in nodes, NEW i \in DOMAIN n.line
               PROVE  Key(n) = n.line[i].key
    BY DEF LineKeysAreNodes
  <2>1. PICK c \in [key : Roots, arg : {FALSE}] : n = Node(<<c>>, <<c>>, Wiring)
    BY DEF Init
  <2>2. n.line = <<c>>
    BY <2>1 DEF Node
  <2>3. i = 1 /\ Len(n.line) = 1
    BY <2>2
  <2> QED
    BY <2>3 DEF Key, Own
<1>2. /\ TypeOK /\ LinesNotEmpty
      /\ LineKeysAreNodes
      /\ [Next]_vars
      => LineKeysAreNodes'
  <2> SUFFICES ASSUME TypeOK, LinesNotEmpty, LineKeysAreNodes, [Next]_vars
               PROVE  LineKeysAreNodes'
    OBVIOUS
  <2>1. ASSUME NEW n \in nodes, Expand(n)
        PROVE  LineKeysAreNodes'
    <3> SUFFICES ASSUME NEW u \in nodes', NEW i \in DOMAIN u.line
                 PROVE  \E m \in nodes' : Key(m) = u.line[i].key
      BY DEF LineKeysAreNodes
    <3>1. nodes \subseteq nodes'
      BY <2>1, ExpandFacts
    <3>2. CASE u \in nodes
      BY <3>1, <3>2 DEF LineKeysAreNodes
    <3>3. CASE \E p \in Made(n) : u = Child(n, PlanFor(n)[p])
      <4>1. PICK spec \in Specs : u = Child(n, spec)
        BY <2>1, <3>3, ExpandFacts
      <4>2. PICK above : above = LineAbove(n, spec)
        OBVIOUS
      <4>3. PICK content \in Contents : content = Content(spec)
        BY DEF Contents, Specs, Content
      <4>4. /\ u.line = Append(above, content)
            /\ above \in Seq(Contents)
            /\ \A j \in 1..Len(above) : j \in 1..Len(n.line) /\ above[j] = n.line[j]
        BY <4>1, <4>2, <4>3, ChildFacts
      <4>5. /\ DOMAIN u.line = 1..(Len(above) + 1)
            /\ \A j \in 1..Len(above) : u.line[j] = above[j]
            /\ u.line[Len(above) + 1] = content
            /\ Len(above) \in Nat
        BY <4>4, AppendFacts
      <4>6. CASE i \in 1..Len(above)
        <5>1. u.line[i] = n.line[i] /\ i \in DOMAIN n.line
          BY <4>4, <4>5, <4>6, NodeFacts
        <5> QED
          BY <3>1, <5>1 DEF LineKeysAreNodes
      <4>7. CASE i = Len(above) + 1
        <5>1. Key(u) = spec.key
          BY <4>1, ChildFacts
        <5> QED
          BY <4>3, <4>5, <4>7, <5>1 DEF Content
      <4> QED
        BY <4>5, <4>6, <4>7
    <3> QED
      BY <2>1, <3>2, <3>3, ExpandFacts
  <2>2. CASE UNCHANGED vars
    BY <2>2 DEF vars, LineKeysAreNodes
  <2> QED
    BY <2>1, <2>2 DEF Next, Reread
<1> QED
  BY <1>1, <1>2, TypeCorrect, PTL DEF Spec

(* So where no limit has stopped a walk, it has met everything.            *)
THEOREM NothingIsLost == Spec => []NothingLost
<1>1. /\ TypeOK /\ LinesNotEmpty
      /\ HandlersKeepTheirCalls
      /\ LineKeysAreNodes
      => NothingLost
  <2> SUFFICES ASSUME TypeOK, LinesNotEmpty, HandlersKeepTheirCalls, LineKeysAreNodes,
                      nodes \subseteq expanded,
                      \A n \in nodes : \A i \in DOMAIN PlanFor(n) : ~PastChildLimit(n, i),
                      NEW n \in nodes, NEW i \in DOMAIN PlanFor(n)
               PROVE  \E m \in nodes : Key(m) = PlanFor(n)[i].key
    BY DEF NothingLost
  <2>1. \/ \E l \in nodes : \E m \in ListedBy(l) : Key(m) = PlanFor(n)[i].key
        \/ OnPath(n, PlanFor(n)[i].key)
    BY DEF HandlersKeepTheirCalls
  <2>2. CASE \E l \in nodes : \E m \in ListedBy(l) : Key(m) = PlanFor(n)[i].key
    BY <2>2 DEF ListedBy
  <2>3. CASE OnPath(n, PlanFor(n)[i].key)
    BY <2>3 DEF OnPath, KeysOn, LineKeysAreNodes
  <2> QED
    BY <2>1, <2>2, <2>3
<1> QED
  BY <1>1, TypeCorrect, HandlersKeep, LineKeysMet, PTL

(* The cuts lose neither a call of a handler's function nor a function.    *)
THEOREM CallsKept == Spec => []CallsAreKept
  BY HandlersKeep, NothingIsLost, PTL DEF CallsAreKept

-----------------------------------------------------------------------------
(* A node is known by what it is listed under, and apart from the roots   *)
(* it is listed by a node that has been expanded.                         *)
ListersExpanded ==
  /\ plan \in Plans
  /\ \A m \in nodes : Len(m.listed) >= 1
  /\ \A l, m \in nodes : l.listed = m.listed => l = m
  /\ \A m \in nodes : Len(m.listed) > 1 => \E l \in expanded : m \in ListedBy(l)

LEMMA AppendsEqual ==
  ASSUME NEW S, NEW s \in Seq(S), NEW t \in Seq(S), NEW d \in S, NEW e \in S,
         Append(s, d) = Append(t, e)
  PROVE  s = t /\ d = e
<1>1. Len(s) = Len(t) /\ Len(s) \in Nat
  BY AppendFacts
<1>2. \A i \in 1..Len(s) : s[i] = t[i]
  BY <1>1, AppendFacts
<1>3. s = t
  BY <1>1, <1>2, SeqEqual
<1>4. d = e
  BY <1>1, AppendFacts
<1> QED
  BY <1>3, <1>4

LEMMA ListedFacts ==
  ASSUME NEW S, NEW s \in Seq(S), NEW t \in Seq(S),
         Len(s) = Len(t) + 1, SubSeq(s, 1, Len(t)) = t
  PROVE  s[Len(s)] \in S /\ s = Append(t, s[Len(s)])
<1>1. Len(s) \in Nat /\ Len(t) \in Nat
  BY LenProperties
<1>2. Len(s) \in 1..Len(s)
  BY <1>1
<1>3. s[Len(s)] \in S
  BY <1>2, ElementOfSeq
<1>4. /\ Append(t, s[Len(s)]) \in Seq(S)
      /\ Len(Append(t, s[Len(s)])) = Len(s)
      /\ \A i \in 1..Len(t) : Append(t, s[Len(s)])[i] = t[i]
      /\ Append(t, s[Len(s)])[Len(s)] = s[Len(s)]
  BY <1>1, <1>3, AppendFacts
<1>5. \A i \in 1..Len(t) : s[i] = t[i]
  <2>1. \A i \in 1..Len(t) : SubSeq(s, 1, Len(t))[i] = s[i]
    BY <1>1
  <2> QED
    BY <2>1
<1>6. \A i \in 1..Len(s) : s[i] = Append(t, s[Len(s)])[i]
  BY <1>1, <1>4, <1>5
<1>7. s = Append(t, s[Len(s)])
  BY <1>4, <1>6, SeqEqual
<1> QED
  BY <1>3, <1>7

(* What is listed by a node is its list with one content more. *)
LEMMA ListedByAppends ==
  ASSUME NEW l, NEW m, l.listed \in Seq(Contents), m.listed \in Seq(Contents),
         Len(m.listed) = Len(l.listed) + 1,
         SubSeq(m.listed, 1, Len(l.listed)) = l.listed
  PROVE  \E c \in Contents : m.listed = Append(l.listed, c)
  BY ListedFacts

(* The children of a node that has not been expanded are new. *)
LEMMA ChildrenAreNew ==
  ASSUME TypeOK, LinesNotEmpty, ListersExpanded, NEW n \in nodes, n \notin expanded,
         NEW c \in Contents, NEW m \in nodes
  PROVE  m.listed # Append(n.listed, c)
<1> SUFFICES ASSUME m.listed = Append(n.listed, c) PROVE FALSE
  OBVIOUS
<1>1. n.listed \in Seq(Contents) /\ m.listed \in Seq(Contents)
  BY NodeFacts
<1>2. Len(m.listed) = Len(n.listed) + 1 /\ Len(n.listed) \in Nat
  BY <1>1, AppendFacts
<1>3. Len(n.listed) >= 1
  BY DEF ListersExpanded
<1>4. PICK l \in expanded : m \in ListedBy(l)
  BY <1>2, <1>3 DEF ListersExpanded
<1>5. l \in nodes /\ l.listed \in Seq(Contents)
  BY <1>4, NodeFacts DEF TypeOK
<1>6. /\ Len(m.listed) = Len(l.listed) + 1
      /\ SubSeq(m.listed, 1, Len(l.listed)) = l.listed
  BY <1>4 DEF ListedBy
<1>7. PICK e \in Contents : m.listed = Append(l.listed, e)
  BY <1>1, <1>5, <1>6, ListedByAppends
<1>8. l.listed = n.listed
  <2>1. Append(l.listed, e) = Append(n.listed, c)
    BY <1>7
  <2> QED
    BY <1>1, <1>5, <2>1, AppendsEqual
<1>9. l = n
  BY <1>5, <1>8 DEF ListersExpanded
<1> QED
  BY <1>4, <1>9

LEMMA ChildList ==
  ASSUME TypeOK, LinesNotEmpty, NEW n \in nodes, Expand(n), NEW i \in Made(n)
  PROVE  /\ Child(n, PlanFor(n)[i]).listed = Append(n.listed, Content(PlanFor(n)[i]))
         /\ Content(PlanFor(n)[i]) \in Contents
         /\ n.listed \in Seq(Contents)
         /\ Key(Child(n, PlanFor(n)[i])) = PlanFor(n)[i].key
<1>1. PlanFor(n)[i] \in Specs
  BY ExpandFacts
<1>2. Content(PlanFor(n)[i]) \in Contents
  BY <1>1 DEF Specs, Contents, Content
<1> QED
  BY <1>1, <1>2, ChildFacts, NodeFacts

LEMMA PlannedOnce ==
  ASSUME TypeOK, LinesNotEmpty, ListersExpanded, NEW n \in nodes,
         NEW i \in DOMAIN PlanFor(n), NEW j \in DOMAIN PlanFor(n),
         Content(PlanFor(n)[i]) = Content(PlanFor(n)[j])
  PROVE  i = j
<1>1. Own(n) \in Contents /\ plan \in Plans
  BY NodeFacts DEF ListersExpanded
<1>2. /\ PlanFor(n)[i].key = PlanFor(n)[j].key
      /\ PlanFor(n)[i].arg = PlanFor(n)[j].arg
  BY DEF Content
<1> QED
  BY <1>1, <1>2, PlansAssumption, Zenon DEF PlanFor

LEMMA InitialLists ==
  ASSUME \A m \in nodes : \E c \in [key : Roots, arg : {FALSE}] :
           m = Node(<<c>>, <<c>>, Wiring)
  PROVE  \A m \in nodes : Len(m.listed) = 1
<1> SUFFICES ASSUME NEW m \in nodes PROVE Len(m.listed) = 1
  OBVIOUS
<1>1. PICK c : m = Node(<<c>>, <<c>>, Wiring)
  OBVIOUS
<1>2. m.listed = <<c>>
  BY <1>1 DEF Node
<1> QED
  BY <1>2

LEMMA ListersHold == Spec => []ListersExpanded
<1>1. Init => ListersExpanded
  <2> SUFFICES ASSUME Init PROVE ListersExpanded
    OBVIOUS
  <2>1. plan \in Plans
    BY DEF Init
  <2>2. \A m \in nodes : \E c \in [key : Roots, arg : {FALSE}] :
           m = Node(<<c>>, <<c>>, Wiring)
    BY DEF Init
  <2>3. \A m \in nodes : Len(m.listed) = 1
    BY <2>2, InitialLists
  <2>4. ASSUME NEW l \in nodes, NEW m \in nodes, l.listed = m.listed PROVE l = m
    <3>1. PICK c \in [key : Roots, arg : {FALSE}] : l = Node(<<c>>, <<c>>, Wiring)
      BY <2>2
    <3>2. PICK d \in [key : Roots, arg : {FALSE}] : m = Node(<<d>>, <<d>>, Wiring)
      BY <2>2
    <3>3. <<c>> = <<d>>
      BY <2>4, <3>1, <3>2 DEF Node
    <3>4. c = d
      BY <3>3
    <3> QED
      BY <3>1, <3>2, <3>4
  <2>5. ASSUME NEW m \in nodes PROVE Len(m.listed) >= 1 /\ ~(Len(m.listed) > 1)
    <3>1. Len(m.listed) = 1
      BY <2>3
    <3>2. \A c : c = 1 => c >= 1 /\ ~(c > 1)
      OBVIOUS
    <3> QED
      BY Zenon, <3>1, <3>2
  <2> QED
    BY <2>1, <2>4, <2>5 DEF ListersExpanded
<1>2. TypeOK /\ LinesNotEmpty /\ ListersExpanded /\ [Next]_vars => ListersExpanded'
  <2> SUFFICES ASSUME TypeOK, LinesNotEmpty, ListersExpanded, [Next]_vars
               PROVE  ListersExpanded'
    OBVIOUS
  <2>1. ASSUME NEW n \in nodes, Expand(n) PROVE ListersExpanded'
    <3>1. /\ nodes \subseteq nodes' /\ plan' = plan /\ expanded' = expanded \union {n}
          /\ \A m \in nodes' : m \in nodes \/ \E i \in Made(n) : m = Child(n, PlanFor(n)[i])
          /\ \A i \in Made(n) : /\ Child(n, PlanFor(n)[i]) \in nodes'
                                /\ PlanFor(n)[i] \in Specs
                                /\ i \in DOMAIN PlanFor(n)
      BY <2>1, ExpandFacts
    <3>2. n \notin expanded
      BY <2>1 DEF Expand
    <3>3. \A i \in Made(n) :
            /\ Child(n, PlanFor(n)[i]).listed = Append(n.listed, Content(PlanFor(n)[i]))
            /\ Content(PlanFor(n)[i]) \in Contents /\ n.listed \in Seq(Contents)
      BY <2>1, ChildList
    <3>4. ASSUME NEW m \in nodes' PROVE Len(m.listed) >= 1
      <4>1. CASE m \in nodes
        BY <4>1 DEF ListersExpanded
      <4>2. ASSUME NEW i \in Made(n), m = Child(n, PlanFor(n)[i]) PROVE Len(m.listed) >= 1
        <5>1. Len(m.listed) = Len(n.listed) + 1 /\ Len(n.listed) \in Nat
          BY <3>3, <4>2, AppendFacts
        <5> QED
          BY <5>1
      <4> QED
        BY <3>1, <4>1, <4>2
    <3>5. ASSUME NEW l \in nodes', NEW m \in nodes', l.listed = m.listed PROVE l = m
      <4>1. CASE l \in nodes /\ m \in nodes
        BY <3>5, <4>1 DEF ListersExpanded
      <4>2. ASSUME NEW i \in Made(n), l = Child(n, PlanFor(n)[i]), m \in nodes PROVE FALSE
        BY <3>2, <3>3, <3>5, <4>2, ChildrenAreNew
      <4>3. ASSUME NEW i \in Made(n), m = Child(n, PlanFor(n)[i]), l \in nodes PROVE FALSE
        BY <3>2, <3>3, <3>5, <4>3, ChildrenAreNew
      <4>4. ASSUME NEW i \in Made(n), NEW j \in Made(n),
                   l = Child(n, PlanFor(n)[i]), m = Child(n, PlanFor(n)[j])
            PROVE  l = m
        <5>1. Append(n.listed, Content(PlanFor(n)[i])) = Append(n.listed, Content(PlanFor(n)[j]))
          BY <3>3, <3>5, <4>4
        <5>2. Content(PlanFor(n)[i]) = Content(PlanFor(n)[j])
          BY <3>3, <5>1, AppendsEqual
        <5>3. i = j
          BY <3>1, <5>2, PlannedOnce
        <5> QED
          BY <4>4, <5>3
      <4> QED
        BY <3>1, <4>1, <4>2, <4>3, <4>4
    <3>6. ASSUME NEW m \in nodes', Len(m.listed) > 1
          PROVE  \E l \in expanded' : m \in ListedBy(l)'
      <4>1. CASE m \in nodes
        <5>1. PICK l \in expanded : m \in ListedBy(l)
          BY <3>6, <4>1 DEF ListersExpanded
        <5>2. l \in nodes
          BY DEF TypeOK
        <5>3. ListedBy(l) \subseteq ListedBy(l)'
          BY <3>1, <5>2, ListedStays
        <5> QED
          BY <3>1, <5>1, <5>3
      <4>2. ASSUME NEW i \in Made(n), m = Child(n, PlanFor(n)[i])
            PROVE  \E l \in expanded' : m \in ListedBy(l)'
        <5>1. PlanFor(n)[i] \in Specs /\ Child(n, PlanFor(n)[i]) \in nodes'
          BY <3>1
        <5>2. Child(n, PlanFor(n)[i]) \in ListedBy(n)'
          BY <5>1, ChildListed
        <5> QED
          BY <3>1, <4>2, <5>2
      <4> QED
        BY <3>1, <4>1, <4>2
    <3> QED
      BY <3>1, <3>4, <3>5, <3>6 DEF ListersExpanded
  <2>2. CASE UNCHANGED vars
    <3>1. nodes' = nodes /\ expanded' = expanded /\ plan' = plan
      BY <2>2 DEF vars
    <3>2. \A l : ListedBy(l)' = ListedBy(l)
      BY <3>1 DEF ListedBy
    <3> QED
      BY <3>1, <3>2 DEF ListersExpanded
  <2> QED
    BY <2>1, <2>2 DEF Next, Reread
<1> QED
  BY <1>1, <1>2, TypeCorrect, PTL DEF Spec

-----------------------------------------------------------------------------
(* The copies of a call in a scope, each of which has been counted. *)
Copies(s, k) ==
  {m \in nodes : Key(m) = k /\ \E l \in nodes : InstanceScope(l) = s /\ m \in ListedBy(l)}

CopiesCounted ==
  \A s \in Keys \union {Wiring} : \A k \in Keys :
    /\ IsFiniteSet(Copies(s, k))
    /\ Cardinality(Copies(s, k)) <= instanceCount[s][k]

(* What an expansion adds to the copies: a child, in its own scope. *)
LEMMA NewCopies ==
  ASSUME TypeOK, LinesNotEmpty, ListersExpanded, ListersExpanded', TypeOK', LinesNotEmpty',
         NEW n \in nodes, Expand(n), NEW s, NEW k, NEW m \in Copies(s, k)'
  PROVE  \/ m \in Copies(s, k)
         \/ /\ s = InstanceScope(n)
            /\ \E i \in Made(n) : k = PlanFor(n)[i].key /\ m = Child(n, PlanFor(n)[i])
<1>1. /\ m \in nodes' /\ Key(m) = k
      /\ \E l \in nodes' : InstanceScope(l) = s /\ m \in ListedBy(l)'
  BY DEF Copies
<1>2. PICK l \in nodes' : InstanceScope(l) = s /\ m \in ListedBy(l)'
  BY <1>1
<1>3. /\ Len(m.listed) = Len(l.listed) + 1
      /\ SubSeq(m.listed, 1, Len(l.listed)) = l.listed
  BY <1>2 DEF ListedBy
<1>4. /\ \A x \in nodes' : x \in nodes \/ \E i \in Made(n) : x = Child(n, PlanFor(n)[i])
      /\ nodes \subseteq nodes'
  BY ExpandFacts
<1>5. n \notin expanded
  BY DEF Expand
<1>6. \A i \in Made(n) :
        /\ Child(n, PlanFor(n)[i]).listed = Append(n.listed, Content(PlanFor(n)[i]))
        /\ Content(PlanFor(n)[i]) \in Contents /\ n.listed \in Seq(Contents)
        /\ Key(Child(n, PlanFor(n)[i])) = PlanFor(n)[i].key
  BY ChildList
<1>7. l.listed \in Seq(Contents) /\ m.listed \in Seq(Contents)
  BY <1>1 DEF TypeOK, Nodes
<1>8. PICK e \in Contents : m.listed = Append(l.listed, e)
  BY <1>3, <1>7, ListedByAppends
<1>9. CASE m \in nodes /\ l \in nodes
  <2>1. m \in ListedBy(l)
    BY <1>3, <1>9 DEF ListedBy
  <2> QED
    BY <1>1, <1>2, <1>9, <2>1 DEF Copies
<1>10. ASSUME m \in nodes, NEW i \in Made(n), l = Child(n, PlanFor(n)[i]) PROVE FALSE
  <2>1. Len(l.listed) \in Nat /\ Len(l.listed) >= 1
    BY <1>7, LenProperties DEF ListersExpanded
  <2>2. Len(m.listed) > 1
    BY <1>3, <2>1
  <2>3. PICK x \in expanded : m \in ListedBy(x)
    BY <1>10, <2>2 DEF ListersExpanded
  <2>4. x \in nodes /\ x.listed \in Seq(Contents)
    BY <2>3, NodeFacts DEF TypeOK
  <2>5. /\ Len(m.listed) = Len(x.listed) + 1
        /\ SubSeq(m.listed, 1, Len(x.listed)) = x.listed
    BY <2>3 DEF ListedBy
  <2>6. PICK d \in Contents : m.listed = Append(x.listed, d)
    BY <1>7, <2>4, <2>5, ListedByAppends
  <2>7. x.listed = l.listed
    <3>1. Append(x.listed, d) = Append(l.listed, e)
      BY <1>8, <2>6
    <3> QED
      BY <1>7, <2>4, <3>1, AppendsEqual
  <2>8. x.listed = Append(n.listed, Content(PlanFor(n)[i]))
    BY <1>6, <1>10, <2>7
  <2> QED
    BY <1>5, <1>6, <2>4, <2>8, ChildrenAreNew
<1>11. ASSUME NEW i \in Made(n), m = Child(n, PlanFor(n)[i])
       PROVE  /\ s = InstanceScope(n)
              /\ k = PlanFor(n)[i].key
  <2>1. l.listed = n.listed
    <3>1. Append(l.listed, e) = Append(n.listed, Content(PlanFor(n)[i]))
      BY <1>6, <1>8, <1>11
    <3>2. Content(PlanFor(n)[i]) \in Contents /\ n.listed \in Seq(Contents)
      BY <1>6, <1>11
    <3>3. l.listed \in Seq(Contents) /\ e \in Contents
      BY <1>7
    <3> QED
      BY <3>1, <3>2, <3>3, AppendsEqual
  <2>2. l = n
    BY <1>4, <2>1 DEF ListersExpanded
  <2> QED
    BY <1>1, <1>2, <1>6, <1>11, <2>2
<1> QED
  BY <1>1, <1>4, <1>9, <1>10, <1>11

LEMMA SomeMore ==
  ASSUME NEW S, NEW P, NEW f, NEW T, IsFiniteSet(S), IsFiniteSet(P),
         T \subseteq S \union {f[i] : i \in P}, NEW c \in Int, Cardinality(S) <= c
  PROVE  IsFiniteSet(T) /\ Cardinality(T) <= c + Cardinality(P)
<1>1. PICK U : U = {f[i] : i \in P}
  OBVIOUS
<1>2. PICK g : g = [i \in P |-> f[i]]
  OBVIOUS
<1>3. g \in Surjection(P, U)
  BY <1>1, <1>2 DEF Surjection
<1>4. IsFiniteSet(U) /\ Cardinality(U) <= Cardinality(P)
  BY <1>3, FS_Surjection
<1>5. /\ IsFiniteSet(S \union U)
      /\ Cardinality(S \union U)
           = Cardinality(S) + Cardinality(U) - Cardinality(S \intersect U)
  BY <1>4, FS_Union
<1>6. IsFiniteSet(S \intersect U)
  BY <1>4, FS_Subset
<1>7. IsFiniteSet(T) /\ Cardinality(T) <= Cardinality(S \union U)
  BY <1>1, <1>5, FS_Subset
<1>8. /\ Cardinality(S) \in Nat /\ Cardinality(U) \in Nat /\ Cardinality(P) \in Nat
      /\ Cardinality(S \intersect U) \in Nat /\ Cardinality(S \union U) \in Nat
      /\ Cardinality(T) \in Nat
  BY <1>4, <1>5, <1>6, <1>7, FS_CardinalityType
<1> QED
  BY <1>4, <1>5, <1>7, <1>8

LEMMA NoMore ==
  ASSUME NEW S, NEW T, IsFiniteSet(S), T \subseteq S, NEW c \in Int, Cardinality(S) <= c
  PROVE  IsFiniteSet(T) /\ Cardinality(T) <= c
<1>1. IsFiniteSet(T) /\ Cardinality(T) <= Cardinality(S)
  BY FS_Subset
<1>2. Cardinality(S) \in Nat /\ Cardinality(T) \in Nat
  BY <1>1, FS_CardinalityType
<1> QED
  BY <1>1, <1>2

LEMMA CopiesHold == Spec => []CopiesCounted
<1>1. Init => CopiesCounted
  <2> SUFFICES ASSUME Init, NEW s \in Keys \union {Wiring}, NEW k \in Keys
               PROVE  /\ IsFiniteSet(Copies(s, k))
                      /\ Cardinality(Copies(s, k)) <= instanceCount[s][k]
    BY DEF CopiesCounted
  <2>1. \A m \in nodes : \E c \in [key : Roots, arg : {FALSE}] :
           m = Node(<<c>>, <<c>>, Wiring)
    BY DEF Init
  <2>2. \A m \in nodes : Len(m.listed) = 1
    BY <2>1, InitialLists
  <2>3. Copies(s, k) = {}
    BY <2>2 DEF Copies, ListedBy
  <2>4. instanceCount[s][k] = 0
    BY DEF Init
  <2> QED
    BY <2>3, <2>4, FS_EmptySet
<1>2. /\ TypeOK /\ LinesNotEmpty /\ ListersExpanded
      /\ TypeOK' /\ LinesNotEmpty' /\ ListersExpanded'
      /\ CopiesCounted /\ [Next]_vars
      => CopiesCounted'
  <2> SUFFICES ASSUME TypeOK, LinesNotEmpty, ListersExpanded,
                      TypeOK', LinesNotEmpty', ListersExpanded',
                      CopiesCounted, [Next]_vars
               PROVE  CopiesCounted'
    OBVIOUS
  <2>1. ASSUME NEW n \in nodes, Expand(n) PROVE CopiesCounted'
    <3> SUFFICES ASSUME NEW s \in Keys \union {Wiring}, NEW k \in Keys
                 PROVE  /\ IsFiniteSet(Copies(s, k)')
                        /\ Cardinality(Copies(s, k)') <= instanceCount'[s][k]
      BY DEF CopiesCounted
    <3>1. /\ IsFiniteSet(Copies(s, k))
          /\ Cardinality(Copies(s, k)) <= instanceCount[s][k]
      BY DEF CopiesCounted
    <3>2. instanceCount[s][k] \in Int
      BY LazyTreeAssumption DEF TypeOK
    <3>3. \A m \in Copies(s, k)' :
            \/ m \in Copies(s, k)
            \/ /\ s = InstanceScope(n)
               /\ \E i \in Made(n) : k = PlanFor(n)[i].key /\ m = Child(n, PlanFor(n)[i])
      BY <2>1, NewCopies
    <3>4. instanceCount' = Counted(n, Made(n))
      BY <2>1, ExpandFacts
    <3>5. instanceCount \in [Keys \union {Wiring} -> [Keys -> 0..MaxInstancesPerKey]]
      BY DEF TypeOK
    <3>6. CASE s = InstanceScope(n)
      <4>1. PICK P : P = PlacesOf(n, Made(n), k)
        OBVIOUS
      <4>2. instanceCount'[s][k] = instanceCount[s][k] + Cardinality(P)
        BY <3>4, <3>5, <3>6, <4>1 DEF Counted
      <4>3. PICK f : f = [i \in P |-> Child(n, PlanFor(n)[i])]
        OBVIOUS
      <4>4. Copies(s, k)' \subseteq Copies(s, k) \union {f[i] : i \in P}
        BY <3>3, <4>1, <4>3 DEF PlacesOf
      <4>5. IsFiniteSet(P)
        BY <4>1, PlacesFit
      <4> QED
        BY <3>1, <3>2, <4>2, <4>4, <4>5, SomeMore
    <3>7. CASE s # InstanceScope(n)
      <4>1. Copies(s, k)' \subseteq Copies(s, k)
        BY <3>3, <3>7
      <4>2. instanceCount'[s][k] = instanceCount[s][k]
        BY <3>4, <3>5, <3>7 DEF Counted
      <4> QED
        BY <3>1, <3>2, <4>1, <4>2, NoMore
    <3> QED
      BY <3>6, <3>7
  <2>2. CASE UNCHANGED vars
    <3>1. nodes' = nodes /\ instanceCount' = instanceCount
      BY <2>2 DEF vars
    <3>2. \A l : ListedBy(l)' = ListedBy(l)
      BY <3>1 DEF ListedBy
    <3>3. \A s, k : Copies(s, k)' = Copies(s, k)
      BY <3>1, <3>2 DEF Copies
    <3> QED
      BY <3>1, <3>3 DEF CopiesCounted
  <2> QED
    BY <2>1, <2>2 DEF Next, Reread
<1> QED
  BY <1>1, <1>2, TypeCorrect, ListersHold, PTL DEF Spec

(* A handler's subtree never holds more than MaxInstancesPerKey copies of *)
(* a call, in whatever order which nodes are asked (lazytree.go:589-612). *)
THEOREM InstancesStayBounded == Spec => []InstancesBounded
<1>1. TypeOK /\ LinesNotEmpty /\ CopiesCounted => InstancesBounded
  <2> SUFFICES ASSUME TypeOK, LinesNotEmpty, CopiesCounted, NEW n \in nodes, NEW k \in Keys
               PROVE  Cardinality({m \in UNION {ListedBy(l) : l \in {u \in nodes :
                                       Argument(u) = Argument(n)}} : Key(m) = k})
                        <= MaxInstancesPerKey
    BY DEF InstancesBounded
  <2> DEFINE s == InstanceScope(n)
             T == {m \in UNION {ListedBy(l) : l \in {u \in nodes :
                                   Argument(u) = Argument(n)}} : Key(m) = k}
  <2>1. s \in Keys \union {Wiring}
    BY ScopeFacts
  <2>2. /\ IsFiniteSet(Copies(s, k)) /\ Cardinality(Copies(s, k)) <= instanceCount[s][k]
    BY <2>1 DEF CopiesCounted
  <2>3. instanceCount[s][k] \in 0..MaxInstancesPerKey
    BY <2>1 DEF TypeOK
  <2>4. \A u \in nodes : Argument(u) = Argument(n) => InstanceScope(u) = s
    BY ScopeFacts
  <2>5. T \subseteq Copies(s, k)
    BY <2>4 DEF Copies, ListedBy
  <2>6. instanceCount[s][k] \in Int /\ instanceCount[s][k] <= MaxInstancesPerKey
    BY <2>3, LazyTreeAssumption
  <2> HIDE DEF s, T
  <2>7. Cardinality(T) <= instanceCount[s][k] /\ Cardinality(T) \in Nat
    BY <2>2, <2>5, <2>6, NoMore, FS_CardinalityType
  <2>8. Cardinality(T) <= MaxInstancesPerKey
    BY <2>6, <2>7, LazyTreeAssumption
  <2> QED
    BY <2>8 DEF T
<1> QED
  BY <1>1, TypeCorrect, CopiesHold, PTL

-----------------------------------------------------------------------------
LEMMA PrefixFacts ==
  ASSUME NEW S, NEW s \in Seq(S), NEW n \in 0..Len(s)
  PROVE  /\ SubSeq(s, 1, n) \in Seq(S)
         /\ Len(SubSeq(s, 1, n)) = n
         /\ DOMAIN SubSeq(s, 1, n) = 1..n
         /\ \A i \in 1..n : SubSeq(s, 1, n)[i] = s[i]
<1>1. \A i \in 1..n : s[i] \in S
  BY ElementOfSeq, LenProperties
<1>2. /\ SubSeq(s, 1, n) \in Seq(S)
      /\ Len(SubSeq(s, 1, n)) = IF 1 <= n THEN n - 1 + 1 ELSE 0
      /\ \A i \in 1..(n - 1 + 1) : SubSeq(s, 1, n)[i] = s[1 + i - 1]
  BY <1>1, SubSeqProperties, LenProperties
<1>3. Len(SubSeq(s, 1, n)) = n
  BY <1>2, LenProperties
<1>4. \A i \in 1..n : SubSeq(s, 1, n)[i] = s[i]
  BY <1>2, LenProperties
<1> QED
  BY <1>2, <1>3, <1>4, LenProperties

-----------------------------------------------------------------------------
(* What an activation holds is reached from its function, it has only      *)
(* callees left to do, and it was entered from the activation below it.    *)
PathIsReached ==
  \A i \in DOMAIN path :
    /\ path[i].found \subseteq RefsFrom(path[i].node)
    /\ path[i].todo \subseteq Callees(path[i].node)
    /\ i > 1 => path[i].node \in Callees(path[i - 1].node)

WalkInv == WalkTypeOK /\ PathIsReached /\ AnswersAreReached

LEMMA RefsOfCallee ==
  ASSUME NEW f \in Functions, NEW g \in Callees(f)
  PROVE  RefsFrom(g) \subseteq RefsFrom(f)
<1>1. g \in Functions
  BY DEF Callees
<1>2. ASSUME NEW u \in Functions, Reaches(g, u)
      PROVE  Reaches(f, u)
  <2> SUFFICES ASSUME NEW S \in SUBSET Functions, f \in S,
                      \A v \in S : Callees(v) \subseteq S
               PROVE  u \in S
    BY DEF Reaches
  <2>1. g \in S
    OBVIOUS
  <2> QED
    BY <1>2, <2>1 DEF Reaches
<1> QED
  BY <1>2 DEF RefsFrom

LEMMA OwnRefs ==
  ASSUME NEW f \in Functions, WalkTypeOK
  PROVE  matching[f] \subseteq RefsFrom(f)
<1>1. Reaches(f, f)
  BY DEF Reaches
<1> QED
  BY <1>1 DEF RefsFrom

LEMMA PathFacts ==
  ASSUME WalkTypeOK
  PROVE  /\ Len(path) \in Nat
         /\ DOMAIN path = 1..Len(path)
         /\ \A i \in 1..Len(path) :
              /\ path[i] \in Activations
              /\ path[i].node \in Functions
              /\ path[i].todo \subseteq Functions
              /\ path[i].found \subseteq Refs
<1>1. \A i \in 1..Len(path) : path[i] \in Activations
  BY ElementOfSeq DEF WalkTypeOK
<1> QED
  BY <1>1, LenProperties DEF WalkTypeOK, Activations

(* A well-typed activation of a function that is called from the one on    *)
(* top.                                                                    *)
LEMMA ActivationFacts ==
  ASSUME WalkTypeOK, NEW f \in Functions
  PROVE  /\ Activation(f) \in Activations
         /\ Activation(f).node = f
         /\ Activation(f).todo = Callees(f)
         /\ Activation(f).found \subseteq RefsFrom(f)
<1>1. Activation(f).found = matching[f]
  BY DEF Activation
<1>2. Activation(f) \in Activations
  BY DEF Activation, Activations, Callees, WalkTypeOK
<1> QED
  BY <1>1, <1>2, OwnRefs DEF Activation

LEMMA GraphFixed ==
  ASSUME UNCHANGED <<calls, matching>>
  PROVE  \A f : Callees(f)' = Callees(f) /\ RefsFrom(f)' = RefsFrom(f)
  BY DEF Callees, RefsFrom, Reaches

-----------------------------------------------------------------------------
(* What is on top is replaced.                                             *)
LEMMA ReplaceTop ==
  ASSUME WalkTypeOK, PathIsReached,
         NEW p \in Seq(Activations), p # <<>>,
         NEW q, NEW act \in Activations,
         q = [p EXCEPT ![Len(p)] = act],
         act.node = p[Len(p)].node,
         act.found \subseteq RefsFrom(act.node),
         act.todo \subseteq Callees(act.node),
         \A i \in DOMAIN p :
           /\ p[i].found \subseteq RefsFrom(p[i].node)
           /\ p[i].todo \subseteq Callees(p[i].node)
           /\ i > 1 => p[i].node \in Callees(p[i - 1].node)
  PROVE  /\ q \in Seq(Activations)
         /\ Len(q) = Len(p)
         /\ q[Len(p)] = act
         /\ \A i \in DOMAIN q :
              /\ q[i].found \subseteq RefsFrom(q[i].node)
              /\ q[i].todo \subseteq Callees(q[i].node)
              /\ i > 1 => q[i].node \in Callees(q[i - 1].node)
<1>1. Len(p) \in Nat /\ Len(p) \in 1..Len(p) /\ DOMAIN p = 1..Len(p)
  BY EmptySeq, LenProperties
<1>2. /\ q \in Seq(Activations)
      /\ Len(q) = Len(p)
      /\ \A i \in 1..Len(p) : q[i] = IF i = Len(p) THEN act ELSE p[i]
  BY <1>1, ExceptSeq
<1>3. DOMAIN q = 1..Len(p)
  BY <1>2, LenProperties
<1>4. \A i \in 1..Len(p) : q[i].node = p[i].node
  BY <1>2
<1>5. \A i \in 1..Len(p) : i > 1 => i - 1 \in 1..Len(p)
  BY <1>1
<1>6. \A i \in 1..Len(p) : i > 1 => q[i].node \in Callees(q[i - 1].node)
  BY <1>1, <1>4, <1>5
<1>7. \A i \in 1..Len(p) :
        /\ q[i].found \subseteq RefsFrom(q[i].node)
        /\ q[i].todo \subseteq Callees(q[i].node)
  BY <1>1, <1>2
<1> QED
  BY <1>1, <1>2, <1>3, <1>6, <1>7

(* An activation of a callee is put on top.                                *)
LEMMA PutOnTop ==
  ASSUME WalkTypeOK,
         NEW p \in Seq(Activations),
         NEW g \in Functions,
         p # <<>> => g \in Callees(p[Len(p)].node),
         \A i \in DOMAIN p :
           /\ p[i].found \subseteq RefsFrom(p[i].node)
           /\ p[i].todo \subseteq Callees(p[i].node)
           /\ i > 1 => p[i].node \in Callees(p[i - 1].node)
  PROVE  /\ Append(p, Activation(g)) \in Seq(Activations)
         /\ \A i \in DOMAIN Append(p, Activation(g)) :
              LET q == Append(p, Activation(g))
              IN /\ q[i].found \subseteq RefsFrom(q[i].node)
                 /\ q[i].todo \subseteq Callees(q[i].node)
                 /\ i > 1 => q[i].node \in Callees(q[i - 1].node)
<1>1. PICK n \in Nat : n = Len(p) /\ DOMAIN p = 1..n
  BY LenProperties
<1>2. PICK q : q = Append(p, Activation(g))
  OBVIOUS
<1>3. /\ q \in Seq(Activations)
      /\ DOMAIN q = 1..(n + 1)
      /\ \A i \in 1..n : q[i] = p[i]
      /\ q[n + 1] = Activation(g)
  BY <1>1, <1>2, ActivationFacts, AppendProperties, LenProperties
<1>4. \A i \in 1..n :
        /\ q[i].found \subseteq RefsFrom(q[i].node)
        /\ q[i].todo \subseteq Callees(q[i].node)
        /\ i > 1 => i - 1 \in 1..n /\ q[i].node \in Callees(q[i - 1].node)
  BY <1>1, <1>3
<1>5. /\ q[n + 1].found \subseteq RefsFrom(q[n + 1].node)
      /\ q[n + 1].todo \subseteq Callees(q[n + 1].node)
  BY <1>3, ActivationFacts
<1>6. n + 1 > 1 => q[n + 1].node \in Callees(q[n + 1 - 1].node)
  <2> SUFFICES ASSUME n >= 1
               PROVE  q[n + 1].node \in Callees(q[n].node)
    BY <1>1
  <2>1. p # <<>>
    BY <1>1
  <2> QED
    BY <1>1, <1>3, <2>1, ActivationFacts
<1>7. \A i \in 1..(n + 1) : i \in 1..n \/ i = n + 1
  OBVIOUS
<1> QED
  BY <1>2, <1>3, <1>4, <1>5, <1>6, <1>7

-----------------------------------------------------------------------------
(* No step of the walk holds or hands on what its function cannot reach.   *)
LEMMA WalkStep ==
  ASSUME WalkInv, [WalkNext]_walkVars
  PROVE  WalkInv'
<1>1. /\ WalkTypeOK
      /\ path \in Seq(Activations)
      /\ \A i \in DOMAIN path :
           /\ path[i].found \subseteq RefsFrom(path[i].node)
           /\ path[i].todo \subseteq Callees(path[i].node)
           /\ i > 1 => path[i].node \in Callees(path[i - 1].node)
  BY DEF WalkInv, WalkTypeOK, PathIsReached
<1>2. ASSUME path # <<>>
      PROVE  /\ Len(path) \in DOMAIN path
             /\ Top = path[Len(path)]
             /\ Top \in Activations
             /\ Top.node \in Functions
             /\ Top.found \subseteq RefsFrom(Top.node)
             /\ Top.todo \subseteq Callees(Top.node)
             /\ Top.found \subseteq Refs
  <2>1. Len(path) \in DOMAIN path /\ Len(path) \in 1..Len(path)
    BY <1>1, <1>2, EmptySeq, LenProperties
  <2> QED
    BY <1>1, <2>1, PathFacts DEF Top
<1>3. UNCHANGED <<calls, matching>>
  BY DEF WalkNext, Step, Ask, Scan, Return, AllResolved, walkVars
<1>4. \A f : Callees(f)' = Callees(f) /\ RefsFrom(f)' = RefsFrom(f)
  BY <1>3, GraphFixed
<1>5. ASSUME NEW q, path' = q, q \in Seq(Activations),
             \A i \in DOMAIN q :
               /\ q[i].found \subseteq RefsFrom(q[i].node)
               /\ q[i].todo \subseteq Callees(q[i].node)
               /\ i > 1 => q[i].node \in Callees(q[i - 1].node)
      PROVE  path' \in Seq(Activations) /\ PathIsReached'
  BY <1>4, <1>5 DEF PathIsReached
<1>6. ASSUME UNCHANGED mwResolved
      PROVE  AnswersAreReached'
  BY <1>4, <1>6 DEF WalkInv, AnswersAreReached, Resolved
<1>7. ASSUME NEW f \in Functions, Ask(f)
      PROVE  WalkInv'
  <2>1. <<>> \in Seq(Activations) /\ DOMAIN <<>> = {}
    BY EmptySeq
  <2>2. PICK q : q = Append(<<>>, Activation(f))
    OBVIOUS
  <2>3. path' = q
    BY <1>7, <2>2 DEF Ask
  <2>4. path' \in Seq(Activations) /\ PathIsReached'
    BY <1>1, <1>5, <2>1, <2>2, <2>3, PutOnTop
  <2>5. WalkTypeOK'
    BY <1>1, <1>7, <2>4 DEF Ask, WalkTypeOK
  <2> QED
    BY <1>6, <1>7, <2>4, <2>5 DEF Ask, WalkInv
<1>8. ASSUME NEW g \in Functions, Scan(g)
      PROVE  WalkInv'
  <2>1. path # <<>> /\ g \in Top.todo /\ g \in Callees(Top.node)
    BY <1>2, <1>8 DEF Scan
  <2>2. PICK top \in Activations : top = [Top EXCEPT !.todo = @ \ {g}]
    BY <1>2, <2>1 DEF Activations
  <2>3. /\ top.node = Top.node
        /\ top.found = Top.found
        /\ top.todo \subseteq Callees(Top.node)
    BY <1>2, <2>1, <2>2 DEF Activations
  <2>4. Scanned(g) = [path EXCEPT ![Len(path)] = top]
    BY <2>2 DEF Scanned, Top
  <2>5. PICK s : s = Scanned(g)
    OBVIOUS
  <2>6. /\ s \in Seq(Activations)
        /\ Len(s) = Len(path)
        /\ s[Len(path)] = top
        /\ \A i \in DOMAIN s :
             /\ s[i].found \subseteq RefsFrom(s[i].node)
             /\ s[i].todo \subseteq Callees(s[i].node)
             /\ i > 1 => s[i].node \in Callees(s[i - 1].node)
    BY <1>1, <1>2, <2>1, <2>3, <2>4, <2>5, ReplaceTop
  <2>7. s # <<>>
    BY <1>1, <2>1, <2>6, EmptySeq
  <2>8. CASE Resolved(g) /\ path' = [s EXCEPT ![Len(path)].found =
                                        @ \union mwResolved[g].refs]
    <3>1. mwResolved[g].refs \subseteq RefsFrom(Top.node)
      BY <1>2, <2>1, <2>8, RefsOfCallee DEF WalkInv, AnswersAreReached
    <3>2. mwResolved[g].refs \subseteq Refs
      BY <1>1, <2>8 DEF WalkTypeOK, Resolved, Answers
    <3>3. PICK act \in Activations :
            act = [top EXCEPT !.found = @ \union mwResolved[g].refs]
      BY <2>2, <3>2 DEF Activations
    <3>4. /\ act.node = top.node
          /\ act.found \subseteq RefsFrom(act.node)
          /\ act.todo \subseteq Callees(act.node)
      BY <1>2, <2>1, <2>3, <3>1, <3>3 DEF Activations
    <3>5. PICK q : q = [s EXCEPT ![Len(s)] = act]
      OBVIOUS
    <3>6. path' = q
      BY <2>6, <2>8, <3>3, <3>5
    <3>7. path' \in Seq(Activations) /\ PathIsReached'
      BY <1>1, <1>5, <2>6, <2>7, <3>4, <3>5, <3>6, ReplaceTop
    <3>8. WalkTypeOK'
      BY <1>1, <1>8, <3>7 DEF Scan, WalkTypeOK
    <3> QED
      BY <1>6, <1>8, <3>7, <3>8 DEF Scan, WalkInv
  <2>9. CASE path' = s
    <3>1. path' \in Seq(Activations) /\ PathIsReached'
      BY <1>5, <2>6, <2>9
    <3>2. WalkTypeOK'
      BY <1>1, <1>8, <3>1 DEF Scan, WalkTypeOK
    <3> QED
      BY <1>6, <1>8, <3>1, <3>2 DEF Scan, WalkInv
  <2>10. CASE path' = Append(s, Activation(g))
    <3>1. PICK q : q = Append(s, Activation(g))
      OBVIOUS
    <3>2. g \in Callees(s[Len(s)].node)
      BY <2>1, <2>3, <2>6
    <3>3. path' \in Seq(Activations) /\ PathIsReached'
      BY <1>1, <1>5, <2>6, <2>10, <3>1, <3>2, PutOnTop
    <3>4. WalkTypeOK'
      BY <1>1, <1>8, <3>3 DEF Scan, WalkTypeOK
    <3> QED
      BY <1>6, <1>8, <3>3, <3>4 DEF Scan, WalkInv
  <2> QED
    BY <1>8, <2>5, <2>8, <2>9, <2>10 DEF Scan
<1>9. CASE Return
  <2>1. path # <<>>
    BY <1>9 DEF Return
  <2>2. PICK n \in Nat : n = Len(path) /\ n >= 1 /\ DOMAIN path = 1..n
    BY <1>1, <2>1, EmptySeq, LenProperties
  <2>3. mwResolved' = [mwResolved EXCEPT ![Top.node] = Answer(Top.found)]
    BY <1>9 DEF Return, RemembersFor
  <2>4. AnswersAreReached'
    BY <1>1, <1>2, <1>4, <2>1, <2>3
    DEF WalkInv, AnswersAreReached, Resolved, Answer, WalkTypeOK
  <2>5. mwResolved' \in [Functions -> Answers \union {NotResolved}]
    BY <1>1, <1>2, <2>1, <2>3 DEF WalkTypeOK, Answer, Answers
  <2>6. PICK below : below = SubSeq(path, 1, n - 1)
    OBVIOUS
  <2>7. /\ below \in Seq(Activations)
        /\ Len(below) = n - 1
        /\ DOMAIN below = 1..(n - 1)
        /\ \A i \in 1..(n - 1) : below[i] = path[i]
    <3>1. PICK m \in 0..Len(path) : m = n - 1
      BY <2>2
    <3> QED
      BY <1>1, <2>6, <3>1, PrefixFacts
  <2>8. \A i \in DOMAIN below :
          /\ below[i].found \subseteq RefsFrom(below[i].node)
          /\ below[i].todo \subseteq Callees(below[i].node)
          /\ i > 1 => below[i].node \in Callees(below[i - 1].node)
    BY <1>1, <2>2, <2>7
  <2>9. path' \in Seq(Activations) /\ PathIsReached'
    <3>1. CASE below = <<>>
      BY <1>5, <1>9, <2>2, <2>6, <2>7, <2>8, <3>1 DEF Return
    <3>2. CASE below # <<>>
      <4>1. path' = [below EXCEPT ![Len(below)].found = @ \union Top.found]
        BY <1>9, <2>2, <2>6, <3>2 DEF Return, Returns
      <4>2. n - 1 >= 1 /\ n - 1 \in DOMAIN below
        BY <2>2, <2>7, <3>2, EmptySeq
      <4>3. /\ Top.node \in Callees(below[n - 1].node)
            /\ below[n - 1] \in Activations
            /\ below[n - 1].node \in Functions
        BY <1>1, <2>2, <2>7, <4>2, PathFacts DEF Top
      <4>4. Top.found \subseteq RefsFrom(below[n - 1].node)
        BY <1>2, <2>1, <4>3, RefsOfCallee
      <4>5. PICK act \in Activations :
              act = [below[n - 1] EXCEPT !.found = @ \union Top.found]
        BY <1>2, <2>1, <4>3 DEF Activations
      <4>6. /\ act.node = below[n - 1].node
            /\ act.found \subseteq RefsFrom(act.node)
            /\ act.todo \subseteq Callees(act.node)
        BY <2>8, <4>2, <4>3, <4>4, <4>5 DEF Activations
      <4>7. PICK q : q = [below EXCEPT ![Len(below)] = act]
        OBVIOUS
      <4>8. path' = q
        BY <2>7, <4>1, <4>5, <4>7
      <4>9. act.node = below[Len(below)].node
        BY <2>7, <4>6
      <4>10. /\ q \in Seq(Activations)
             /\ \A i \in DOMAIN q :
                  /\ q[i].found \subseteq RefsFrom(q[i].node)
                  /\ q[i].todo \subseteq Callees(q[i].node)
                  /\ i > 1 => q[i].node \in Callees(q[i - 1].node)
        <5>1. below \in Seq(Activations)
          BY <2>7
        <5> QED
          BY <1>1, <2>8, <3>2, <4>6, <4>7, <4>9, <5>1, ReplaceTop
      <4> QED
        BY <1>5, <4>8, <4>10
    <3> QED
      BY <3>1, <3>2
  <2>10. WalkTypeOK'
    BY <1>1, <1>9, <2>5, <2>9 DEF Return, WalkTypeOK
  <2> QED
    BY <2>4, <2>9, <2>10 DEF WalkInv
<1>10. CASE UNCHANGED walkVars
  <2>1. UNCHANGED <<calls, matching, mwResolved, path, first>>
    BY <1>10 DEF walkVars
  <2>2. WalkTypeOK'
    BY <1>1, <2>1 DEF WalkTypeOK
  <2>3. PathIsReached'
    BY <1>1, <1>5, <2>1
  <2> QED
    BY <1>6, <2>1, <2>2, <2>3 DEF WalkInv
<1> QED
  BY <1>7, <1>8, <1>9, <1>10 DEF WalkNext, Step, AllResolved

(* For any graph, middleware and order of questions, the walk is well      *)
(* typed and no function is answered with middleware it cannot reach.      *)
THEOREM WalkCorrect == WalkSpec => []WalkInv
<1>1. WalkInit => WalkInv
  <2> SUFFICES ASSUME WalkInit
               PROVE  WalkInv
    OBVIOUS
  <2>1. WalkTypeOK
    BY EmptySeq DEF WalkInit, WalkTypeOK
  <2>2. PathIsReached
    BY DEF WalkInit, PathIsReached
  <2>3. AnswersAreReached
    BY DEF WalkInit, AnswersAreReached, Resolved
  <2> QED
    BY <2>1, <2>2, <2>3 DEF WalkInv
<1>2. WalkInv /\ [WalkNext]_walkVars => WalkInv'
  BY WalkStep
<1> QED
  BY <1>1, <1>2, PTL DEF WalkSpec

(* Type correctness for any graph.                                         *)
THEOREM WalkTypeCorrect == WalkSpec => []WalkTypeOK
<1>1. WalkInv => WalkTypeOK
  BY DEF WalkInv
<1> QED
  BY <1>1, WalkCorrect, PTL

(* No wrapper is answered with middleware it cannot reach, whatever was    *)
(* asked before, in any graph.                                             *)
THEOREM AnswersReached == WalkSpec => []AnswersAreReached
<1>1. WalkInv => AnswersAreReached
  BY DEF WalkInv
<1> QED
  BY <1>1, WalkCorrect, PTL


-----------------------------------------------------------------------------
(* The functions on the path differ, and none has an answer yet: a return  *)
(* writes each answer once.                                                *)
PathIsFresh ==
  \A i \in DOMAIN path :
    /\ ~Resolved(path[i].node)
    /\ \A j \in DOMAIN path : path[i].node = path[j].node => i = j

(* Away from recursion nothing is cut: what a callee reaches is found once *)
(* it is scanned, unless it is the one being walked.                       *)
ScannedIsFound ==
  \A i \in DOMAIN path :
    ~Recurs(path[i].node) =>
      /\ matching[path[i].node] \subseteq path[i].found
      /\ \A g \in Callees(path[i].node) :
           \/ g \in path[i].todo
           \/ RefsFrom(g) \subseteq path[i].found
           \/ i + 1 \in DOMAIN path /\ g = path[i + 1].node

Visited(v) == Resolved(v) \/ OnStack(v)

(* In the walk of the first wrapper a cut costs an inner activation what   *)
(* it would have found, but the one it was cut for is below it: what any   *)
(* function visited so far matches is held somewhere on the path, and its  *)
(* callees are visited or still to be scanned.                             *)
ScansLoseNothing ==
  /\ path # <<>>
  /\ path[1].node = first
  /\ \A v \in Functions :
       Visited(v) =>
         /\ \A r \in matching[v] : \E i \in DOMAIN path : r \in path[i].found
         /\ \A g \in Callees(v) :
              \/ Visited(g)
              \/ \E i \in DOMAIN path : path[i].node = v /\ g \in path[i].todo

FirstWalk ==
  /\ first = NotResolved => path = <<>> /\ \A f \in Functions : ~Resolved(f)
  /\ first # NotResolved =>
       IF Resolved(first) THEN RefsFrom(first) \subseteq mwResolved[first].refs
                          ELSE ScansLoseNothing

(* Who is below on the path calls his way to who is above. *)
PathIsCalled ==
  \A i, j \in DOMAIN path : i <= j => Reaches(path[i].node, path[j].node)

CutInv ==
  /\ PathIsFresh
  /\ PathIsCalled
  /\ ScannedIsFound
  /\ CompleteWithoutRecursion
  /\ FirstWalk

LEMMA ReachesTrans ==
  ASSUME NEW f \in Functions, NEW g \in Functions, NEW h \in Functions,
         Reaches(f, g), Reaches(g, h)
  PROVE  Reaches(f, h)
  BY DEF Reaches

LEMMA ReachesCallee ==
  ASSUME NEW f \in Functions, NEW g \in Callees(f)
  PROVE  g \in Functions /\ Reaches(f, g)
  BY DEF Reaches, Callees

LEMMA ReachesSelf ==
  ASSUME NEW f \in Functions
  PROVE  Reaches(f, f)
  BY DEF Reaches

(* What is reached is the function itself or reached from a callee. *)
LEMMA ReachesSplit ==
  ASSUME NEW f \in Functions, NEW u \in Functions, Reaches(f, u), u # f
  PROVE  \E g \in Callees(f) : Reaches(g, u)
<1> DEFINE S == {f} \union {v \in Functions : \E g \in Callees(f) : Reaches(g, v)}
<1>1. ASSUME NEW v \in S
      PROVE  Callees(v) \subseteq S
  <2> SUFFICES ASSUME NEW w \in Callees(v)
               PROVE  w \in S
    OBVIOUS
  <2>1. v \in Functions
    OBVIOUS
  <2>2. w \in Functions /\ Reaches(v, w)
    BY <2>1, ReachesCallee
  <2>3. CASE v = f
    <3>1. w \in Callees(f) /\ Reaches(w, w)
      BY <2>2, <2>3, ReachesSelf
    <3> QED
      BY <2>2, <3>1
  <2>4. CASE v # f
    <3>1. PICK g \in Callees(f) : Reaches(g, v)
      BY <2>4
    <3>2. g \in Functions
      BY DEF Callees
    <3>3. Reaches(g, w)
      BY <2>1, <2>2, <3>1, <3>2, ReachesTrans
    <3> QED
      BY <2>2, <3>3
  <2> QED
    BY <2>3, <2>4
<1>2. S \in SUBSET Functions /\ f \in S
  OBVIOUS
<1>3. u \in S
  BY <1>1, <1>2 DEF Reaches
<1> QED
  BY <1>3

(* What a function reaches it matches itself or a callee reaches. *)
LEMMA RefsFromParts ==
  ASSUME NEW f \in Functions, NEW r \in RefsFrom(f)
  PROVE  r \in matching[f] \/ \E g \in Callees(f) : r \in RefsFrom(g)
<1>1. PICK u \in Functions : Reaches(f, u) /\ r \in matching[u]
  BY DEF RefsFrom
<1>2. CASE u = f
  BY <1>1, <1>2
<1>3. CASE u # f
  <2>1. PICK g \in Callees(f) : Reaches(g, u)
    BY <1>1, <1>3, ReachesSplit
  <2> QED
    BY <1>1, <2>1 DEF RefsFrom
<1> QED
  BY <1>2, <1>3

(* No recursion behind a function, none behind its callees, and none of    *)
(* these calls it back.                                                    *)
LEMMA NoRecursion ==
  ASSUME NEW f \in Functions, ~Recurs(f), NEW g \in Callees(f)
  PROVE  ~Recurs(g) /\ ~Reaches(g, f)
<1>1. g \in Functions /\ Reaches(f, g)
  BY ReachesCallee
<1>2. ~Recurs(g)
  <2> SUFFICES ASSUME NEW h \in Functions, Reaches(g, h),
                      NEW u \in Callees(h), Reaches(u, h)
               PROVE  FALSE
    BY DEF Recurs
  <2>1. Reaches(f, h)
    BY <1>1, ReachesTrans
  <2> QED
    BY <2>1 DEF Recurs
<1>3. ~Reaches(g, f)
  BY ReachesSelf DEF Recurs
<1> QED
  BY <1>2, <1>3

LEMMA GraphKept ==
  ASSUME UNCHANGED <<calls, matching>>
  PROVE  /\ \A f : Callees(f)' = Callees(f) /\ RefsFrom(f)' = RefsFrom(f)
         /\ \A f : Recurs(f)' = Recurs(f)
         /\ \A f, g : Reaches(f, g)' = Reaches(f, g)
  BY DEF Callees, RefsFrom, Reaches, Recurs

-----------------------------------------------------------------------------
(* What a scan does to the path, activation by activation. *)
LEMMA ScanFacts ==
  ASSUME WalkTypeOK, PathIsReached, NEW g \in Functions, Scan(g),
         NEW n, n = Len(path)
  PROVE  /\ n \in Nat /\ n >= 1 /\ DOMAIN path = 1..n
         /\ g \in path[n].todo /\ g \in Callees(path[n].node)
         /\ UNCHANGED <<calls, matching, mwResolved, first>>
         /\ \E more \in SUBSET Refs, m \in {n, n + 1} :
              /\ DOMAIN path' = 1..m
              /\ \A i \in 1..n : path'[i].node = path[i].node
              /\ \A i \in 1..(n - 1) : path'[i] = path[i]
              /\ path'[n].todo = path[n].todo \ {g}
              /\ path'[n].found = path[n].found \union more
              /\ \/ Resolved(g) /\ m = n /\ more = mwResolved[g].refs
                 \/ ~Resolved(g) /\ OnStack(g) /\ m = n /\ more = {}
                 \/ /\ ~Resolved(g) /\ ~OnStack(g) /\ m = n + 1 /\ more = {}
                    /\ path'[n + 1] = Activation(g)
<1>1. /\ n \in Nat /\ n >= 1 /\ DOMAIN path = 1..n
      /\ path \in Seq(Activations) /\ Top = path[n]
  BY EmptySeq, LenProperties DEF WalkTypeOK, Scan, Top
<1>2. path[n] \in Activations
  BY <1>1, PathFacts
<1>3. /\ g \in path[n].todo /\ g \in Callees(path[n].node)
      /\ UNCHANGED <<calls, matching, mwResolved, first>>
  BY <1>1 DEF Scan, PathIsReached
<1>4. PICK top \in Activations : top = [path[n] EXCEPT !.todo = @ \ {g}]
  BY <1>2 DEF Activations
<1>5. /\ top.node = path[n].node
      /\ top.found = path[n].found
      /\ top.todo = path[n].todo \ {g}
  BY <1>2, <1>4 DEF Activations
<1>6. PICK s : s = Scanned(g)
  OBVIOUS
<1>7. s = [path EXCEPT ![n] = top]
  BY <1>1, <1>4, <1>6 DEF Scanned
<1>8. /\ s \in Seq(Activations)
      /\ Len(s) = n
      /\ DOMAIN s = 1..n
      /\ \A i \in 1..n : s[i] = IF i = n THEN top ELSE path[i]
  BY <1>1, <1>7, ExceptSeq, LenProperties
<1>9. /\ s[n] = top
      /\ \A i \in 1..(n - 1) : s[i] = path[i]
      /\ \A i \in 1..n : s[i].node = path[i].node
  BY <1>1, <1>5, <1>8
<1>10. CASE /\ Resolved(g)
            /\ path' = [s EXCEPT ![n].found = @ \union mwResolved[g].refs]
  <2>1. PICK more \in SUBSET Refs : more = mwResolved[g].refs
    BY <1>10 DEF WalkTypeOK, Resolved, Answers
  <2>2. PICK act \in Activations : act = [top EXCEPT !.found = @ \union more]
    BY <1>4, <2>1 DEF Activations
  <2>3. /\ act.node = top.node
        /\ act.todo = top.todo
        /\ act.found = top.found \union more
    BY <1>4, <2>2 DEF Activations
  <2>4. path' = [s EXCEPT ![n] = act]
    BY <1>9, <1>10, <2>1, <2>2
  <2>5. /\ DOMAIN path' = 1..n
        /\ \A i \in 1..n : path'[i] = IF i = n THEN act ELSE s[i]
    BY <1>8, <2>4
  <2>6. /\ path'[n] = act
        /\ \A i \in 1..(n - 1) : path'[i] = path[i]
        /\ \A i \in 1..n : path'[i].node = path[i].node
    BY <1>1, <1>5, <1>9, <2>3, <2>5
  <2> QED
    BY <1>1, <1>3, <1>5, <1>10, <2>1, <2>3, <2>5, <2>6
<1>11. CASE ~Resolved(g) /\ OnStack(g) /\ path' = s
  <2>1. path'[n].found = path[n].found \union {}
    BY <1>5, <1>9, <1>11
  <2> QED
    BY <1>1, <1>3, <1>5, <1>8, <1>9, <1>11, <2>1
<1>12. CASE ~Resolved(g) /\ ~OnStack(g) /\ path' = Append(s, Activation(g))
  <2>1. Activation(g) \in Activations
    BY ActivationFacts
  <2>2. PICK q : q = Append(s, Activation(g))
    OBVIOUS
  <2>3. /\ DOMAIN q = 1..(n + 1)
        /\ \A i \in 1..n : q[i] = s[i]
        /\ q[n + 1] = Activation(g)
    BY <1>1, <1>8, <2>1, <2>2, AppendProperties, LenProperties
  <2>4. q[n].found = path[n].found \union {}
    BY <1>1, <1>5, <1>9, <2>3
  <2>5. /\ \A i \in 1..n : q[i].node = path[i].node
        /\ \A i \in 1..(n - 1) : q[i] = path[i]
        /\ q[n].todo = path[n].todo \ {g}
    BY <1>1, <1>5, <1>9, <2>3
  <2> QED
    BY <1>1, <1>3, <1>12, <2>2, <2>3, <2>4, <2>5
<1>13. \/ Resolved(g) /\ path' = [s EXCEPT ![n].found = @ \union mwResolved[g].refs]
       \/ ~Resolved(g) /\ OnStack(g) /\ path' = s
       \/ ~Resolved(g) /\ ~OnStack(g) /\ path' = Append(s, Activation(g))
  BY <1>6 DEF Scan
<1> QED
  BY <1>10, <1>11, <1>12, <1>13

(* What a return does to the path, activation by activation. *)
LEMMA ReturnFacts ==
  ASSUME WalkTypeOK, Return, NEW n, n = Len(path)
  PROVE  /\ n \in Nat /\ n >= 1 /\ DOMAIN path = 1..n
         /\ path[n].todo = {}
         /\ path[n].node \in Functions
         /\ UNCHANGED <<calls, matching, first>>
         /\ mwResolved' = [mwResolved EXCEPT ![path[n].node] = Answer(path[n].found)]
         /\ DOMAIN path' = 1..(n - 1)
         /\ \A i \in 1..(n - 1) : /\ path'[i].node = path[i].node
                                  /\ path'[i].todo = path[i].todo
         /\ \A i \in 1..(n - 2) : path'[i] = path[i]
         /\ n > 1 => path'[n - 1].found = path[n - 1].found \union path[n].found
<1>1. /\ n \in Nat /\ n >= 1 /\ DOMAIN path = 1..n
      /\ path \in Seq(Activations) /\ Top = path[n]
  BY EmptySeq, LenProperties DEF WalkTypeOK, Return, Top
<1>2. \A i \in 1..n : path[i] \in Activations
  BY <1>1, PathFacts
<1>3. /\ path[n].todo = {}
      /\ path[n].node \in Functions
      /\ UNCHANGED <<calls, matching, first>>
      /\ mwResolved' = [mwResolved EXCEPT ![path[n].node] = Answer(path[n].found)]
  BY <1>1, <1>2 DEF Return, RemembersFor, Activations
<1>4. PICK below : below = SubSeq(path, 1, n - 1)
  OBVIOUS
<1>5. /\ below \in Seq(Activations)
      /\ Len(below) = n - 1
      /\ DOMAIN below = 1..(n - 1)
      /\ \A i \in 1..(n - 1) : below[i] = path[i]
  <2>1. PICK m \in 0..Len(path) : m = n - 1
    BY <1>1
  <2> QED
    BY <1>1, <1>4, <2>1, PrefixFacts
<1>6. CASE below = <<>>
  <2>1. n = 1
    <3>1. Len(below) = 0
      BY <1>6, EmptySeq
    <3>2. n - 1 = 0
      BY <1>5, <3>1
    <3>3. \A k \in Nat : k - 1 = 0 => k = 1
      OBVIOUS
    <3>4. n \in Nat
      BY <1>1
    <3> QED
      BY <3>2, <3>3, <3>4
  <2>2. path' = below
    BY <1>4, <1>6 DEF Return
  <2> QED
    BY <1>1, <1>3, <1>5, <2>1, <2>2
<1>7. CASE below # <<>>
  <2>1. n > 1
    BY <1>1, <1>5, <1>7, EmptySeq
  <2>2. path' = [below EXCEPT ![n - 1].found = @ \union path[n].found]
    BY <1>1, <1>4, <1>5, <1>7 DEF Return, Returns
  <2>3. below[n - 1] \in Activations /\ path[n] \in Activations
    BY <1>1, <1>2, <1>5, <2>1
  <2>4. PICK act : act = [below[n - 1] EXCEPT !.found = @ \union path[n].found]
    OBVIOUS
  <2>5. /\ act.node = below[n - 1].node
        /\ act.todo = below[n - 1].todo
        /\ act.found = below[n - 1].found \union path[n].found
    BY <2>3, <2>4 DEF Activations
  <2>6. path' = [below EXCEPT ![n - 1] = act]
    BY <2>2, <2>4
  <2>7. /\ DOMAIN path' = 1..(n - 1)
        /\ \A i \in 1..(n - 1) : path'[i] = IF i = n - 1 THEN act ELSE below[i]
    BY <1>5, <2>6
  <2>8. n - 1 \in 1..(n - 1)
    BY <1>1, <2>1
  <2>9. path'[n - 1] = act
    BY <2>7, <2>8
  <2>10. \A i \in 1..(n - 2) : i \in 1..(n - 1) /\ i # n - 1 /\ path'[i] = path[i]
    BY <1>1, <1>5, <2>7
  <2>11. \A i \in 1..(n - 1) : /\ path'[i].node = path[i].node
                               /\ path'[i].todo = path[i].todo
    BY <1>5, <2>5, <2>7
  <2>12. path'[n - 1].found = path[n - 1].found \union path[n].found
    BY <1>5, <2>5, <2>8, <2>9
  <2> QED
    BY <1>1, <1>3, <2>7, <2>10, <2>11, <2>12
<1> QED
  BY <1>6, <1>7

-----------------------------------------------------------------------------
(* A walk keeps its path free of repetitions and of answered functions.    *)
LEMMA PathStaysFresh ==
  ASSUME WalkInv, PathIsFresh, PathIsCalled, WalkNext
  PROVE  PathIsFresh' /\ PathIsCalled'
<1>1. /\ WalkTypeOK /\ PathIsReached
      /\ \A i \in DOMAIN path : path[i].node \in Functions
  BY PathFacts DEF WalkInv
<1>2. UNCHANGED <<calls, matching>>
  BY DEF WalkNext, Step, Ask, Scan, Return, AllResolved, walkVars
<1>3. \A f, g : Reaches(f, g)' = Reaches(f, g)
  BY <1>2, GraphKept
<1>4. ASSUME NEW f \in Functions, Ask(f)
      PROVE  PathIsFresh' /\ PathIsCalled'
  <2>1. /\ path' = <<Activation(f)>> /\ ~Resolved(f) /\ mwResolved' = mwResolved
    BY <1>4 DEF Ask
  <2>2. Activation(f).node = f
    BY <1>1, ActivationFacts
  <2>3. DOMAIN path' = {1} /\ path'[1].node = f
    BY <2>1, <2>2
  <2>4. ~Resolved(f)'
    BY <2>1 DEF Resolved
  <2>5. Reaches(f, f)'
    BY <1>3, ReachesSelf
  <2> QED
    BY <2>3, <2>4, <2>5 DEF PathIsFresh, PathIsCalled
<1>5. ASSUME NEW g \in Functions, Scan(g)
      PROVE  PathIsFresh' /\ PathIsCalled'
  <2>1. PICK n : n = Len(path)
    OBVIOUS
  <2>2. /\ n \in Nat /\ n >= 1 /\ DOMAIN path = 1..n
        /\ g \in Callees(path[n].node)
        /\ mwResolved' = mwResolved
    BY <1>1, <1>5, <2>1, ScanFacts
  <2>3. PICK m \in {n, n + 1} :
          /\ DOMAIN path' = 1..m
          /\ \A i \in 1..n : path'[i].node = path[i].node
          /\ m = n + 1 => /\ ~Resolved(g) /\ ~OnStack(g)
                          /\ path'[n + 1] = Activation(g)
    BY <1>1, <1>5, <2>1, ScanFacts
  <2>4. \A f : Resolved(f)' = Resolved(f)
    BY <2>2 DEF Resolved
  <2>5. CASE m = n
    BY <1>3, <2>2, <2>3, <2>4, <2>5 DEF PathIsFresh, PathIsCalled
  <2>6. CASE m = n + 1
    <3>1. path'[n + 1].node = g
      BY <1>1, <2>3, <2>6, ActivationFacts
    <3>2. \A i \in 1..n : path[i].node # g
      BY <2>2, <2>3, <2>6 DEF OnStack
    <3>3. \A i \in 1..n : Reaches(path[i].node, g)
      <4> SUFFICES ASSUME NEW i \in 1..n
                   PROVE  Reaches(path[i].node, g)
        OBVIOUS
      <4>1. Reaches(path[i].node, path[n].node) /\ path[n].node \in Functions
        BY <1>1, <2>2 DEF PathIsCalled
      <4>2. Reaches(path[n].node, g)
        BY <2>2, <4>1, ReachesCallee
      <4> QED
        BY <1>1, <2>2, <4>1, <4>2, ReachesTrans
    <3>4. Reaches(g, g)
      BY ReachesSelf
    <3>5. \A i \in 1..(n + 1) : i \in 1..n \/ i = n + 1
      BY <2>2
    <3>6. PathIsFresh'
      BY <2>2, <2>3, <2>4, <2>6, <3>1, <3>2, <3>5 DEF PathIsFresh
    <3>7. PathIsCalled'
      BY <1>3, <2>2, <2>3, <2>6, <3>1, <3>3, <3>4, <3>5 DEF PathIsCalled
    <3> QED
      BY <3>6, <3>7
  <2> QED
    BY <2>3, <2>5, <2>6
<1>6. CASE Return
  <2>1. PICK n : n = Len(path)
    OBVIOUS
  <2>2. /\ n \in Nat /\ n >= 1 /\ DOMAIN path = 1..n
        /\ path[n].node \in Functions
        /\ mwResolved' = [mwResolved EXCEPT ![path[n].node] = Answer(path[n].found)]
        /\ DOMAIN path' = 1..(n - 1)
        /\ \A i \in 1..(n - 1) : path'[i].node = path[i].node
    BY <1>1, <1>6, <2>1, ReturnFacts
  <2>3. \A i \in 1..(n - 1) : i \in 1..n /\ i # n
    BY <2>2
  <2>4. \A i \in 1..(n - 1) : ~Resolved(path[i].node)'
    BY <1>1, <2>2, <2>3 DEF PathIsFresh, Resolved, WalkTypeOK
  <2>5. PathIsFresh'
    BY <2>2, <2>3, <2>4 DEF PathIsFresh
  <2>6. PathIsCalled'
    BY <1>3, <2>2, <2>3 DEF PathIsCalled
  <2> QED
    BY <2>5, <2>6
<1>7. CASE UNCHANGED walkVars
  <2>1. path' = path /\ mwResolved' = mwResolved
    BY <1>7 DEF walkVars
  <2> QED
    BY <1>3, <2>1 DEF PathIsFresh, PathIsCalled, Resolved
<1> QED
  BY <1>4, <1>5, <1>6, <1>7 DEF WalkNext, Step, AllResolved

(* Away from recursion every scan adds all that the callee reaches.        *)
LEMMA ScansStayFound ==
  ASSUME WalkInv, PathIsFresh, PathIsCalled, ScannedIsFound,
         CompleteWithoutRecursion, WalkNext
  PROVE  ScannedIsFound' /\ CompleteWithoutRecursion'
<1>1. /\ WalkTypeOK /\ PathIsReached
      /\ \A i \in DOMAIN path : path[i].node \in Functions
  BY PathFacts DEF WalkInv
<1>2. UNCHANGED <<calls, matching>>
  BY DEF WalkNext, Step, Ask, Scan, Return, AllResolved, walkVars
<1>3. \A f : /\ Callees(f)' = Callees(f) /\ RefsFrom(f)' = RefsFrom(f)
             /\ Recurs(f)' = Recurs(f)
  BY <1>2, GraphKept
<1>4. ASSUME UNCHANGED mwResolved
      PROVE  CompleteWithoutRecursion'
  BY <1>3, <1>4 DEF CompleteWithoutRecursion, Resolved
<1>5. ASSUME NEW f \in Functions, NEW act, act = Activation(f)
      PROVE  /\ act.node = f
             /\ act.todo = Callees(f)
             /\ act.found = matching[f]
  BY <1>5 DEF Activation
<1>6. ASSUME NEW f \in Functions, Ask(f)
      PROVE  ScannedIsFound' /\ CompleteWithoutRecursion'
  <2>1. PICK act : act = Activation(f)
    OBVIOUS
  <2>2. DOMAIN path' = {1} /\ path'[1] = act /\ mwResolved' = mwResolved
    BY <1>6, <2>1 DEF Ask
  <2>3. ScannedIsFound'
    BY <1>2, <1>3, <1>5, <2>1, <2>2 DEF ScannedIsFound
  <2> QED
    BY <1>4, <2>2, <2>3
<1>7. ASSUME NEW g \in Functions, Scan(g)
      PROVE  ScannedIsFound' /\ CompleteWithoutRecursion'
  <2>1. PICK n : n = Len(path)
    OBVIOUS
  <2>2. /\ n \in Nat /\ n >= 1 /\ DOMAIN path = 1..n
        /\ g \in path[n].todo /\ g \in Callees(path[n].node)
        /\ UNCHANGED <<calls, matching, mwResolved, first>>
    BY <1>1, <1>7, <2>1, ScanFacts
  <2>3. PICK more \in SUBSET Refs, m \in {n, n + 1} :
          /\ DOMAIN path' = 1..m
          /\ \A i \in 1..n : path'[i].node = path[i].node
          /\ \A i \in 1..(n - 1) : path'[i] = path[i]
          /\ path'[n].todo = path[n].todo \ {g}
          /\ path'[n].found = path[n].found \union more
          /\ \/ Resolved(g) /\ m = n /\ more = mwResolved[g].refs
             \/ ~Resolved(g) /\ OnStack(g) /\ m = n /\ more = {}
             \/ /\ ~Resolved(g) /\ ~OnStack(g) /\ m = n + 1 /\ more = {}
                /\ path'[n + 1] = Activation(g)
    BY <1>1, <1>7, <2>1, ScanFacts
  <2> DEFINE Whole(p, i) ==
        /\ matching[p[i].node] \subseteq p[i].found
        /\ \A h \in Callees(p[i].node) :
             \/ h \in p[i].todo
             \/ RefsFrom(h) \subseteq p[i].found
             \/ i + 1 \in DOMAIN p /\ h = p[i + 1].node
  <2>4. PICK q : q = path'
    OBVIOUS
  <2>5. ASSUME NEW i \in DOMAIN q, ~Recurs(q[i].node)
        PROVE  Whole(q, i)
    <3>1. CASE i \in 1..(n - 1)
      <4>1. /\ i \in 1..n /\ i + 1 \in 1..n /\ q[i] = path[i]
            /\ q[i + 1].node = path[i + 1].node /\ i + 1 \in DOMAIN q
        BY <2>2, <2>3, <2>4, <3>1
      <4>2. Whole(path, i)
        BY <2>2, <2>5, <4>1 DEF ScannedIsFound
      <4> QED
        BY <4>1, <4>2
    <3>2. CASE i = n
      <4>1. /\ q[n].node = path[n].node /\ n \in DOMAIN path /\ n + 1 \notin DOMAIN path
            /\ q[n].todo = path[n].todo \ {g}
            /\ q[n].found = path[n].found \union more
        BY <2>2, <2>3, <2>4
      <4>2. ~Recurs(path[n].node) /\ path[n].node \in Functions
        BY <1>1, <2>5, <3>2, <4>1
      <4>3. Whole(path, n)
        BY <4>1, <4>2 DEF ScannedIsFound
      <4>4. RefsFrom(g) \subseteq more \/ (n + 1 \in DOMAIN q /\ q[n + 1].node = g)
        <5>1. ~Recurs(g) /\ ~Reaches(g, path[n].node)
          BY <2>2, <4>2, NoRecursion
        <5>2. CASE Resolved(g) /\ more = mwResolved[g].refs
          BY <5>1, <5>2 DEF CompleteWithoutRecursion
        <5>3. CASE OnStack(g)
          <6>1. PICK j \in 1..n : path[j].node = g
            BY <2>2, <5>3 DEF OnStack
          <6>2. Reaches(g, path[n].node)
            BY <2>2, <6>1 DEF PathIsCalled
          <6> QED
            BY <5>1, <6>2
        <5>4. CASE m = n + 1 /\ path'[n + 1] = Activation(g)
          BY <1>5, <2>2, <2>3, <2>4, <5>4
        <5> QED
          BY <2>3, <5>2, <5>3, <5>4
      <4> QED
        BY <3>2, <4>1, <4>3, <4>4
    <3>3. CASE i = n + 1 /\ q[n + 1] = Activation(g)
      <4>1. PICK act : act = Activation(g)
        OBVIOUS
      <4>2. act.node = g /\ act.todo = Callees(g) /\ act.found = matching[g]
        BY <1>5, <4>1
      <4> QED
        BY <3>3, <4>1, <4>2
    <3> QED
      BY <2>2, <2>3, <2>4, <3>1, <3>2, <3>3
  <2>6. ScannedIsFound'
    BY <1>2, <1>3, <2>4, <2>5 DEF ScannedIsFound
  <2> QED
    BY <1>4, <2>2, <2>6
<1>8. CASE Return
  <2>1. PICK n : n = Len(path)
    OBVIOUS
  <2>2. /\ n \in Nat /\ n >= 1 /\ DOMAIN path = 1..n
        /\ path[n].todo = {}
        /\ path[n].node \in Functions
        /\ mwResolved' = [mwResolved EXCEPT ![path[n].node] = Answer(path[n].found)]
        /\ DOMAIN path' = 1..(n - 1)
        /\ \A i \in 1..(n - 1) : /\ path'[i].node = path[i].node
                                 /\ path'[i].todo = path[i].todo
        /\ \A i \in 1..(n - 2) : path'[i] = path[i]
        /\ n > 1 => path'[n - 1].found = path[n - 1].found \union path[n].found
    BY <1>1, <1>8, <2>1, ReturnFacts
  <2>3. ASSUME ~Recurs(path[n].node)
        PROVE  RefsFrom(path[n].node) \subseteq path[n].found
    <3> SUFFICES ASSUME NEW r \in RefsFrom(path[n].node)
                 PROVE  r \in path[n].found
      OBVIOUS
    <3>1. /\ matching[path[n].node] \subseteq path[n].found
          /\ \A g \in Callees(path[n].node) : RefsFrom(g) \subseteq path[n].found
      BY <2>2, <2>3 DEF ScannedIsFound
    <3> QED
      BY <2>2, <3>1, RefsFromParts
  <2>4. CompleteWithoutRecursion'
    <3> SUFFICES ASSUME NEW f \in Functions, Resolved(f)', ~Recurs(f)
                 PROVE  RefsFrom(f) \subseteq mwResolved'[f].refs
      BY <1>3 DEF CompleteWithoutRecursion
    <3>1. CASE f = path[n].node
      <4>1. mwResolved'[f] = Answer(path[n].found)
        BY <1>1, <2>2, <3>1 DEF WalkTypeOK
      <4> QED
        BY <2>3, <3>1, <4>1 DEF Answer
    <3>2. CASE f # path[n].node
      <4>1. mwResolved'[f] = mwResolved[f]
        BY <1>1, <2>2, <3>2 DEF WalkTypeOK
      <4> QED
        BY <4>1 DEF CompleteWithoutRecursion, Resolved
    <3> QED
      BY <3>1, <3>2
  <2>5. PICK q : q = path'
    OBVIOUS
  <2>6. ASSUME NEW i \in DOMAIN q, ~Recurs(q[i].node)
        PROVE  /\ matching[q[i].node] \subseteq q[i].found
               /\ \A h \in Callees(q[i].node) :
                    \/ h \in q[i].todo
                    \/ RefsFrom(h) \subseteq q[i].found
                    \/ i + 1 \in DOMAIN q /\ h = q[i + 1].node
    <3>1. /\ i \in 1..(n - 1) /\ i \in 1..n /\ i + 1 \in 1..n
          /\ q[i].node = path[i].node /\ q[i].todo = path[i].todo
      BY <2>2, <2>5
    <3>2. /\ matching[path[i].node] \subseteq path[i].found
          /\ \A h \in Callees(path[i].node) :
               \/ h \in path[i].todo
               \/ RefsFrom(h) \subseteq path[i].found
               \/ h = path[i + 1].node
      BY <2>2, <2>6, <3>1 DEF ScannedIsFound
    <3>3. CASE i = n - 1
      <4>1. q[i].found = path[i].found \union path[n].found /\ i + 1 = n
        BY <2>2, <2>5, <3>1, <3>3
      <4>2. path[n].node \in Callees(path[i].node)
        BY <1>1, <2>2, <3>1, <4>1 DEF PathIsReached
      <4>3. ~Recurs(path[n].node)
        BY <1>1, <2>2, <2>6, <3>1, <4>2, NoRecursion
      <4>4. RefsFrom(path[n].node) \subseteq q[i].found
        BY <2>3, <4>1, <4>3
      <4> QED
        BY <3>1, <3>2, <4>1, <4>4
    <3>4. CASE i # n - 1
      <4>1. /\ i \in 1..(n - 2) /\ q[i] = path[i]
            /\ i + 1 \in 1..(n - 1) /\ i + 1 \in DOMAIN q
            /\ q[i + 1].node = path[i + 1].node
        BY <2>2, <2>5, <3>1, <3>4
      <4> QED
        BY <3>2, <4>1
    <3> QED
      BY <3>3, <3>4
  <2>7. ScannedIsFound'
    BY <1>2, <1>3, <2>5, <2>6 DEF ScannedIsFound
  <2> QED
    BY <2>4, <2>7
<1>9. CASE UNCHANGED walkVars
  <2>1. path' = path /\ mwResolved' = mwResolved
    BY <1>9 DEF walkVars
  <2>2. ScannedIsFound'
    BY <1>2, <1>3, <2>1 DEF ScannedIsFound
  <2> QED
    BY <1>4, <2>1, <2>2
<1> QED
  BY <1>6, <1>7, <1>8, <1>9 DEF WalkNext, Step, AllResolved

(* An answer is written once: none that is there is written over.          *)
LEMMA AnswersStay ==
  ASSUME WalkInv, PathIsFresh, WalkNext, NEW f \in Functions, Resolved(f)
  PROVE  mwResolved'[f] = mwResolved[f] /\ Resolved(f)'
<1>1. CASE UNCHANGED mwResolved
  BY <1>1 DEF Resolved
<1>2. CASE Return
  <2>1. WalkTypeOK
    BY DEF WalkInv
  <2>2. PICK n : n = Len(path)
    OBVIOUS
  <2>3. /\ n \in DOMAIN path
        /\ mwResolved' = [mwResolved EXCEPT ![path[n].node] = Answer(path[n].found)]
    BY <1>2, <2>1, <2>2, ReturnFacts
  <2>4. f # path[n].node
    BY <2>3 DEF PathIsFresh
  <2> QED
    BY <2>1, <2>3, <2>4 DEF WalkTypeOK, Resolved
<1> QED
  BY <1>1, <1>2 DEF WalkNext, Step, Ask, Scan, AllResolved, walkVars

(* All that is reached from a function in a set of answered functions that *)
(* is closed under calls has been answered.                                *)
LEMMA ReachedAreVisited ==
  ASSUME NEW S \in SUBSET Functions, \A v \in S : Callees(v) \subseteq S,
         NEW f \in S, NEW refs, \A v \in S : matching[v] \subseteq refs
  PROVE  RefsFrom(f) \subseteq refs
<1>1. \A u \in Functions : Reaches(f, u) => u \in S
  BY DEF Reaches
<1> QED
  BY <1>1 DEF RefsFrom

(* The walk of the first wrapper loses nothing, and what it answers stays. *)
LEMMA FirstStaysWhole ==
  ASSUME WalkInv, PathIsFresh, PathIsCalled, FirstWalk, WalkNext
  PROVE  FirstWalk'
<1>1. /\ WalkTypeOK /\ PathIsReached
      /\ \A i \in DOMAIN path : path[i].node \in Functions
  BY PathFacts DEF WalkInv
<1>2. UNCHANGED <<calls, matching>>
  BY DEF WalkNext, Step, Ask, Scan, Return, AllResolved, walkVars
<1>3. \A f : Callees(f)' = Callees(f) /\ RefsFrom(f)' = RefsFrom(f)
  BY <1>2, GraphKept
<1>4. first # NotResolved => first \in Functions /\ first' = first
  BY <1>1 DEF WalkTypeOK, WalkNext, Step, Ask, Scan, Return, AllResolved, walkVars
<1>5. CASE first # NotResolved /\ Resolved(first)
  <2>1. mwResolved'[first] = mwResolved[first] /\ Resolved(first)'
    BY <1>4, <1>5, AnswersStay
  <2>2. RefsFrom(first) \subseteq mwResolved[first].refs
    BY <1>5 DEF FirstWalk
  <2>3. mwResolved'[first'] = mwResolved[first] /\ Resolved(first)'
    BY <1>4, <1>5, <2>1
  <2>4. RefsFrom(first)' = RefsFrom(first)
    BY <1>2, <1>4, <1>5 DEF RefsFrom, Reaches, Callees
  <2> QED
    BY <1>4, <1>5, <2>2, <2>3, <2>4 DEF FirstWalk
<1>6. ASSUME first' # NotResolved, ScansLoseNothing'
      PROVE  FirstWalk'
  <2>1. ~Resolved(first)'
    <3>1. WalkTypeOK'
      BY WalkStep DEF WalkInv
    <3>2. path' # <<>> /\ path'[1].node = first'
      BY <1>6 DEF ScansLoseNothing
    <3>3. 1 \in DOMAIN path'
      BY <3>1, <3>2, EmptySeq, LenProperties DEF WalkTypeOK
    <3>4. PathIsFresh'
      BY PathStaysFresh
    <3>5. mwResolved'[path'[1].node] = NotResolved
      BY <3>3, <3>4 DEF PathIsFresh, Resolved
    <3> QED
      BY <3>2, <3>5 DEF Resolved
  <2> QED
    BY <1>6, <2>1 DEF FirstWalk
<1>7. CASE first = NotResolved
  <2>1. path = <<>> /\ \A v \in Functions : ~Resolved(v)
    BY <1>7 DEF FirstWalk
  <2>2. ASSUME NEW f \in Functions, Ask(f)
        PROVE  FirstWalk'
    <3>1. PICK act : act = Activation(f)
      OBVIOUS
    <3>2. act.node = f /\ act.todo = Callees(f) /\ act.found = matching[f]
      BY <3>1 DEF Activation
    <3>3. /\ DOMAIN path' = {1} /\ path'[1] = act /\ path' # <<>>
          /\ mwResolved' = mwResolved /\ first' = f
      BY <1>7, <2>2, <3>1 DEF Ask
    <3>4. \A v \in Functions : Visited(v)' => v = f
      BY <2>1, <3>2, <3>3 DEF Visited, OnStack, Resolved
    <3>5. ScansLoseNothing'
      BY <1>2, <1>3, <3>2, <3>3, <3>4 DEF ScansLoseNothing
    <3> QED
      BY <1>6, <3>3, <3>5, FunctionsAssumption
  <2>3. CASE UNCHANGED walkVars
    BY <1>7, <2>1, <2>3 DEF FirstWalk, walkVars, Resolved
  <2> QED
    BY <2>1, <2>2, <2>3 DEF WalkNext, Step, Scan, Return, AllResolved
<1>8. CASE first # NotResolved /\ ~Resolved(first)
  <2>1. ScansLoseNothing
    BY <1>8 DEF FirstWalk
  <2>2. PICK n : n = Len(path)
    OBVIOUS
  <2>3. ASSUME NEW g \in Functions, Scan(g)
        PROVE  FirstWalk'
    <3>1. /\ n \in Nat /\ n >= 1 /\ DOMAIN path = 1..n
          /\ UNCHANGED <<calls, matching, mwResolved, first>>
      BY <1>1, <2>2, <2>3, ScanFacts
    <3>2. PICK more \in SUBSET Refs, m \in {n, n + 1} :
            /\ DOMAIN path' = 1..m
            /\ \A i \in 1..n : path'[i].node = path[i].node
            /\ \A i \in 1..(n - 1) : path'[i] = path[i]
            /\ path'[n].todo = path[n].todo \ {g}
            /\ path'[n].found = path[n].found \union more
            /\ \/ Resolved(g) /\ m = n /\ more = mwResolved[g].refs
               \/ ~Resolved(g) /\ OnStack(g) /\ m = n /\ more = {}
               \/ /\ ~Resolved(g) /\ ~OnStack(g) /\ m = n + 1 /\ more = {}
                  /\ path'[n + 1] = Activation(g)
      BY <1>1, <2>2, <2>3, ScanFacts
    <3>3. PICK q : q = path'
      OBVIOUS
    <3>4. \A i \in 1..n : /\ i \in DOMAIN q
                          /\ q[i].node = path[i].node
                          /\ path[i].found \subseteq q[i].found
                          /\ path[i].todo \subseteq q[i].todo \union {g}
      <4>1. \A i \in 1..n : i \in 1..(n - 1) \/ i = n
        BY <3>1
      <4>2. \A i \in 1..n : i \in DOMAIN q
        BY <3>1, <3>2, <3>3
      <4> QED
        BY <3>2, <3>3, <4>1, <4>2
    <3>5. PICK act : act = Activation(g)
      OBVIOUS
    <3>6. act.node = g /\ act.todo = Callees(g) /\ act.found = matching[g]
      BY <3>5 DEF Activation
    <3>7. \A v : Visited(v) => Visited(v)'
      BY <3>1, <3>3, <3>4 DEF Visited, OnStack, Resolved
    <3>8. Visited(g)'
      <4>1. CASE Resolved(g) \/ OnStack(g)
        BY <3>7, <4>1 DEF Visited
      <4>2. CASE m = n + 1 /\ path'[n + 1] = act
        <5>1. n + 1 \in DOMAIN path' /\ path'[n + 1].node = g
          BY <3>1, <3>2, <3>6, <4>2
        <5> QED
          BY <5>1 DEF Visited, OnStack
      <4> QED
        BY <3>2, <3>5, <4>1, <4>2
    <3>9. \A v :
            Visited(v)' => \/ Visited(v)
                           \/ v = g /\ n + 1 \in DOMAIN q /\ q[n + 1] = act
      <4> SUFFICES ASSUME NEW v, Visited(v)', ~Visited(v)
                   PROVE  v = g /\ n + 1 \in DOMAIN q /\ q[n + 1] = act
        OBVIOUS
      <4>1. PICK i \in DOMAIN q : q[i].node = v
        BY <3>1, <3>3 DEF Visited, OnStack, Resolved
      <4>2. i \notin 1..n
        BY <3>1, <3>4, <4>1 DEF Visited, OnStack
      <4>3. i = n + 1 /\ m = n + 1
        BY <3>1, <3>2, <3>3, <4>2
      <4> QED
        BY <3>1, <3>2, <3>3, <3>5, <3>6, <4>1, <4>3
    <3>10. ASSUME NEW v \in Functions, Visited(v)'
           PROVE  /\ \A r \in matching[v] : \E i \in DOMAIN q : r \in q[i].found
                  /\ \A h \in Callees(v) :
                       \/ Visited(h)'
                       \/ \E i \in DOMAIN q : q[i].node = v /\ h \in q[i].todo
      <4>1. CASE Visited(v)
        <5>1. ASSUME NEW r \in matching[v]
              PROVE  \E i \in DOMAIN q : r \in q[i].found
          <6>1. PICK i \in 1..n : r \in path[i].found
            BY <2>1, <3>1, <4>1, <5>1 DEF ScansLoseNothing
          <6> QED
            BY <3>4, <6>1
        <5>2. ASSUME NEW h \in Callees(v), ~Visited(h)'
              PROVE  \E i \in DOMAIN q : q[i].node = v /\ h \in q[i].todo
          <6>1. ~Visited(h) /\ h # g
            BY <3>7, <3>8, <5>2
          <6>2. PICK i \in 1..n : path[i].node = v /\ h \in path[i].todo
            BY <2>1, <3>1, <4>1, <5>2, <6>1 DEF ScansLoseNothing
          <6> QED
            BY <3>4, <6>1, <6>2
        <5> QED
          BY <5>1, <5>2
      <4>2. CASE v = g /\ n + 1 \in DOMAIN q /\ q[n + 1] = act
        BY <3>6, <4>2
      <4> QED
        BY <3>9, <3>10, <4>1, <4>2
    <3>11. path' # <<>> /\ path'[1].node = first'
      <4>1. 1 \in DOMAIN q /\ q[1].node = first
        BY <2>1, <3>1, <3>4 DEF ScansLoseNothing
      <4>2. q # <<>>
        BY <4>1
      <4> QED
        BY <3>1, <3>3, <4>1, <4>2
    <3>12. ScansLoseNothing'
      BY <1>2, <1>3, <3>3, <3>10, <3>11 DEF ScansLoseNothing
    <3> QED
      BY <1>4, <1>6, <1>8, <3>12
  <2>4. CASE Return
    <3>1. /\ n \in Nat /\ n >= 1 /\ DOMAIN path = 1..n
          /\ path[n].todo = {}
          /\ path[n].node \in Functions
          /\ mwResolved' = [mwResolved EXCEPT ![path[n].node] = Answer(path[n].found)]
          /\ DOMAIN path' = 1..(n - 1)
          /\ \A i \in 1..(n - 1) : /\ path'[i].node = path[i].node
                                   /\ path'[i].todo = path[i].todo
          /\ \A i \in 1..(n - 2) : path'[i] = path[i]
          /\ n > 1 => path'[n - 1].found = path[n - 1].found \union path[n].found
      BY <1>1, <2>2, <2>4, ReturnFacts
    <3>2. \A v \in Functions : Resolved(v)' <=> Resolved(v) \/ v = path[n].node
      BY <1>1, <3>1 DEF Resolved, WalkTypeOK, Answer, NotResolved
    <3>3. CASE n = 1
      <4> DEFINE S == {v \in Functions : Visited(v)}
      <4>1. path[1].node = first /\ DOMAIN path = {1} /\ path[1].todo = {}
        BY <2>1, <3>1, <3>3 DEF ScansLoseNothing
      <4>2. first \in S
        BY <1>4, <1>8, <4>1 DEF Visited, OnStack
      <4>3. \A v \in S : Callees(v) \subseteq S
        BY <2>1, <4>1 DEF ScansLoseNothing, Callees
      <4>4. \A v \in S : matching[v] \subseteq path[1].found
        BY <2>1, <4>1 DEF ScansLoseNothing
      <4>5. RefsFrom(first) \subseteq path[1].found
        <5> HIDE DEF S
        <5>1. S \in SUBSET Functions
          BY DEF S
        <5> QED
          BY <4>2, <4>3, <4>4, <5>1, ReachedAreVisited
      <4>6. mwResolved'[first] = Answer(path[1].found)
        BY <1>1, <1>4, <1>8, <3>1, <3>3, <4>1 DEF WalkTypeOK
      <4>7. RefsFrom(first)' = RefsFrom(first)
        BY <1>2, <1>4, <1>8 DEF RefsFrom, Reaches, Callees
      <4>8. /\ Resolved(first)'
            /\ RefsFrom(first)' \subseteq mwResolved'[first].refs
        <5>1. Answer(path[1].found).refs = path[1].found
          BY DEF Answer
        <5>2. first' = first /\ first \in Functions /\ first = path[n].node
          BY <1>4, <1>8, <3>3, <4>1
        <5>3. Resolved(first)'
          BY <5>2, <4>6 DEF Resolved, Answer, NotResolved
        <5> QED
          BY <4>5, <4>6, <4>7, <5>1, <5>3
      <4> QED
        BY <1>4, <1>8, <4>8 DEF FirstWalk
    <3>4. CASE n > 1
      <4>1. PICK q : q = path'
        OBVIOUS
      <4>2. \A i \in 1..(n - 1) : i \in 1..n /\ i # n
        BY <3>1
      <4>3. \A v \in Functions : Visited(v)' <=> Visited(v)
        <5> SUFFICES ASSUME NEW v \in Functions
                     PROVE  Visited(v)' <=> Visited(v)
          OBVIOUS
        <5>1. OnStack(v)' <=> \E i \in 1..(n - 1) : path[i].node = v
          BY <3>1, <4>1 DEF OnStack
        <5>2. OnStack(v) <=> (\E i \in 1..(n - 1) : path[i].node = v) \/ path[n].node = v
          BY <3>1 DEF OnStack
        <5> QED
          BY <3>2, <5>1, <5>2 DEF Visited
      <4>4. \A i \in 1..(n - 1) : path[i].found \subseteq q[i].found
        <5>1. \A i \in 1..(n - 1) : i \in 1..(n - 2) \/ i = n - 1
          BY <3>1
        <5> QED
          BY <3>1, <3>4, <4>1, <5>1
      <4>5. path[n].found \subseteq q[n - 1].found /\ n - 1 \in DOMAIN q
        BY <3>1, <3>4, <4>1
      <4>6. ASSUME NEW v \in Functions, Visited(v)
            PROVE  /\ \A r \in matching[v] : \E i \in DOMAIN q : r \in q[i].found
                   /\ \A h \in Callees(v) :
                        \/ Visited(h)
                        \/ \E i \in DOMAIN q : q[i].node = v /\ h \in q[i].todo
        <5>1. ASSUME NEW r \in matching[v]
              PROVE  \E i \in DOMAIN q : r \in q[i].found
          <6>1. PICK i \in 1..n : r \in path[i].found
            BY <2>1, <3>1, <4>6 DEF ScansLoseNothing
          <6>2. CASE i = n
            BY <4>5, <6>1, <6>2
          <6>3. CASE i # n
            <7>1. i \in 1..(n - 1) /\ i \in DOMAIN q
              BY <3>1, <4>1, <6>3
            <7> QED
              BY <4>4, <6>1, <7>1
          <6> QED
            BY <6>2, <6>3
        <5>2. ASSUME NEW h \in Callees(v), ~Visited(h)
              PROVE  \E i \in DOMAIN q : q[i].node = v /\ h \in q[i].todo
          <6>1. PICK i \in 1..n : path[i].node = v /\ h \in path[i].todo
            BY <2>1, <3>1, <4>6, <5>2 DEF ScansLoseNothing
          <6>2. i \in 1..(n - 1)
            BY <3>1, <6>1
          <6> QED
            BY <3>1, <4>1, <6>1, <6>2
        <5> QED
          BY <5>1, <5>2
      <4>7. path' # <<>> /\ path'[1].node = first'
        <5>1. 1 \in 1..(n - 1)
          BY <3>1, <3>4
        <5>2. 1 \in DOMAIN q /\ q[1].node = first
          BY <2>1, <3>1, <4>1, <5>1 DEF ScansLoseNothing
        <5>3. q # <<>>
          BY <5>2
        <5> QED
          BY <1>4, <1>8, <4>1, <5>2, <5>3
      <4>8. \A v \in Functions : Callees(v) \subseteq Functions
        BY DEF Callees
      <4>9. ScansLoseNothing'
        BY <1>2, <1>3, <4>1, <4>3, <4>6, <4>7, <4>8 DEF ScansLoseNothing
      <4> QED
        BY <1>4, <1>6, <1>8, <4>9
    <3> QED
      BY <3>1, <3>3, <3>4
  <2>5. CASE UNCHANGED walkVars
    <3>1. UNCHANGED <<calls, matching, mwResolved, path, first>>
      BY <2>5 DEF walkVars
    <3>2. ScansLoseNothing'
      BY <1>3, <2>1, <3>1 DEF ScansLoseNothing, Visited, OnStack, Resolved
    <3> QED
      BY <1>4, <1>6, <1>8, <3>2
  <2>6. ~\E f \in Functions : Ask(f)
    BY <2>1 DEF ScansLoseNothing, Ask
  <2> QED
    BY <2>3, <2>4, <2>5, <2>6 DEF WalkNext, Step, AllResolved
<1> QED
  BY <1>5, <1>7, <1>8

(* What the cuts at a recursion may cost, they cost only behind one, and   *)
(* not the wrapper that was asked for first (reachability.go:101-160), in  *)
(* any graph.                                                              *)
THEOREM OnlyRecursionCut == WalkSpec => []OnlyRecursionIsCut
<1>1. WalkInit => CutInv
  <2> SUFFICES ASSUME WalkInit
               PROVE  CutInv
    OBVIOUS
  <2>1. path = <<>> /\ DOMAIN path = {} /\ first = NotResolved
    BY EmptySeq DEF WalkInit
  <2>2. \A f \in Functions : ~Resolved(f)
    BY DEF WalkInit, Resolved
  <2>3. PathIsFresh /\ PathIsCalled /\ ScannedIsFound
    BY <2>1 DEF PathIsFresh, PathIsCalled, ScannedIsFound
  <2>4. CompleteWithoutRecursion /\ FirstWalk
    BY <2>1, <2>2 DEF CompleteWithoutRecursion, FirstWalk
  <2> QED
    BY <2>3, <2>4 DEF CutInv
<1>2. WalkInv /\ CutInv /\ [WalkNext]_walkVars => CutInv'
  <2> SUFFICES ASSUME WalkInv /\ CutInv /\ [WalkNext]_walkVars
               PROVE  CutInv'
    OBVIOUS
  <2>1. WalkInv /\ CutInv
    OBVIOUS
  <2>2. CASE WalkNext
    BY <2>2, PathStaysFresh, ScansStayFound, FirstStaysWhole DEF CutInv
  <2>3. CASE UNCHANGED walkVars
    <3>1. UNCHANGED <<calls, matching, mwResolved, path, first>>
      BY <2>3 DEF walkVars
    <3>2. PathIsFresh' /\ PathIsCalled'
      BY <2>1, <3>1 DEF CutInv, PathIsFresh, PathIsCalled, Resolved, Reaches, Callees
    <3>3. ScannedIsFound' /\ CompleteWithoutRecursion' /\ FirstWalk'
      BY <2>1, <3>1, GraphKept
      DEF CutInv, ScannedIsFound, CompleteWithoutRecursion, FirstWalk,
          ScansLoseNothing, Visited, OnStack, Resolved
    <3> QED
      BY <3>2, <3>3 DEF CutInv
  <2> QED
    BY <2>2, <2>3
<1>3. CutInv => OnlyRecursionIsCut
  <2> SUFFICES ASSUME CutInv
               PROVE  OnlyRecursionIsCut
    OBVIOUS
  <2>1. FirstIsComplete
    BY FunctionsAssumption DEF CutInv, FirstWalk, FirstIsComplete
  <2> QED
    BY <2>1 DEF CutInv, OnlyRecursionIsCut
<1> QED
  BY <1>1, <1>2, <1>3, WalkCorrect, PTL DEF WalkSpec

=============================================================================
