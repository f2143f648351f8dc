------------------------ MODULE BuildCallGraph_proofs ------------------------
(***************************************************************************)
(* Theorems about BuildCallGraph for any well-formed programs.             *)
(***************************************************************************)
EXTENDS BuildCallGraph, SequenceTheorems, NaturalsInduction,
        WellFoundedInduction, FiniteSetTheorems, TLAPS

LEMMA AppendFacts ==
  ASSUME NEW S, NEW s \in Seq(S), NEW e \in S
  PROVE  /\ Append(s, e) \in Seq(S)
         /\ Append(s, e) # <<>>
         /\ Len(Append(s, e)) = Len(s) + 1
         /\ DOMAIN Append(s, e) = 1..(Len(s) + 1)
         /\ \A i \in 1..Len(s) : Append(s, e)[i] = s[i]
         /\ Append(s, e)[Len(s) + 1] = e
         /\ Len(s) \in Nat
  BY AppendProperties, LenProperties

(* The walk keeps to one well-formed program. *)
SourceOK == WellFormed(ast) /\ ast \in Seq(Node)

LEMMA AstFacts ==
  ASSUME SourceOK
  PROVE  /\ Len(ast) \in Nat \ {0}
         /\ NodesOf = 1..Len(ast)
         /\ \A i \in NodesOf : /\ ast[i] \in Node
                               /\ Placed(ast, i)
<1>1. Len(ast) \in Nat /\ DOMAIN ast = 1..Len(ast)
  BY LenProperties DEF SourceOK
<1>2. Len(ast) # 0
  BY EmptySeq, <1>1 DEF SourceOK, WellFormed
<1>3. \A i \in NodesOf : ast[i] \in Node
  BY ElementOfSeq DEF SourceOK, NodesOf
<1> QED
  BY <1>1, <1>2, <1>3 DEF NodesOf, SourceOK, WellFormed

(* A file begins no spine. *)
LEMMA FileIsNoReceiver ==
  ASSUME SourceOK, NEW i \in NodesOf, ast[i].kind = "file"
  PROVE  ast[i].role \notin Spine
<1>1. Placed(ast, i)
  BY AstFacts
<1>2. ast[i].role = "in"
  BY <1>1 DEF Placed
<1> QED
  BY <1>2 DEF Spine

(* The innermost call of a spine is a node. *)
LEMMA BaseFacts ==
  ASSUME SourceOK, NEW i \in NodesOf
  PROVE  /\ Base(i) \in i..Len(ast)
         /\ OnSpine(i, Base(i))
         /\ Base(i) = Len(ast) \/ ast[Base(i) + 1].role \notin Spine
<1>1. i \in Nat /\ i <= Len(ast) /\ Len(ast) \in Nat
  BY AstFacts
<1>2. PICK E : E = {j \in i..Len(ast) : j = Len(ast) \/ ast[j + 1].role \notin Spine}
  OBVIOUS
<1>3. E \subseteq Nat /\ Len(ast) \in E
  BY <1>1, <1>2
<1>4. PICK j \in E : \A u \in E : ~(<<u, j>> \in OpToRel(<, Nat))
  BY <1>3, NatLessThanWellFounded, WFMin
<1>5. ASSUME NEW u \in E
      PROVE  ~(u < j)
  <2>1. u < j => <<u, j>> \in OpToRel(<, Nat)
    BY <1>3, Zenon DEF OpToRel
  <2> QED
    BY <1>4, <2>1
<1>6. j \in i..Len(ast) /\ (j = Len(ast) \/ ast[j + 1].role \notin Spine)
  BY <1>2
<1>7. ASSUME NEW k \in (i + 1)..j
      PROVE  ast[k].role \in Spine
  <2>1. k - 1 \in i..Len(ast) /\ k - 1 < j /\ (k - 1) + 1 = k
    BY <1>1, <1>6
  <2>2. k - 1 \notin E
    BY <1>5, <2>1
  <2> QED
    BY <1>2, <2>1, <2>2
<1>8. OnSpine(i, j)
  BY <1>7 DEF OnSpine
<1> QED
  BY <1>6, <1>8 DEF Base

LEMMA KeyIsKey ==
  ASSUME SourceOK, NEW i \in NodesOf
  PROVE  Key(i) \in Keys
<1>1. Base(i) \in NodesOf
  BY BaseFacts, AstFacts
<1>2. ast[i].name \in Names
  BY AstFacts DEF Node
<1> QED
  BY <1>1, <1>2 DEF Key, Keys

LEMMA RootIsNode ==
  ASSUME SourceOK, NEW i \in NodesOf
  PROVE  RootVariable(i) \in 0..Len(ast)
<1>1. Base(i) \in 0..Len(ast)
  BY BaseFacts, AstFacts
<1>2. Len(ast) \in Nat
  BY AstFacts
<1> QED
  BY <1>1, <1>2 DEF RootVariable
-----------------------------------------------------------------------------
(* A call is processed for a node that the walk has come to.               *)
Started == entering # 0 \/ pending # <<>> => at # 0

Typed == SourceOK /\ TypeOK /\ Started

LEMMA GraphFacts ==
  ASSUME Typed
  PROVE  /\ Len(callGraph) \in Nat /\ DOMAIN callGraph = 1..Len(callGraph)
         /\ \A e \in DOMAIN callGraph : /\ callGraph[e] \in Edge
                                        /\ callGraph[e].call \in NodesOf
                                        /\ callGraph[e].seen \in NodesOf
         /\ \A k \in Keys : calleeMap[k] \in 0..Len(callGraph)
<1>1. callGraph \in Seq(Edge)
  BY DEF Typed, TypeOK
<1>2. \A e \in DOMAIN callGraph : callGraph[e] \in Edge
  BY <1>1, ElementOfSeq, LenProperties
<1>3. calleeMap \in [Keys -> 0..Len(callGraph)]
  BY DEF Typed, TypeOK
<1> QED
  BY <1>1, <1>2, <1>3, LenProperties DEF Edge

LEMMA PendingFacts ==
  ASSUME Typed
  PROVE  /\ pending \in Seq(NodesOf)
         /\ Len(pending) \in Nat /\ DOMAIN pending = 1..Len(pending)
         /\ \A m \in DOMAIN pending : pending[m] \in NodesOf
         /\ pending # <<>> => /\ Len(pending) \in Nat \ {0}
                              /\ Head(pending) = pending[1]
                              /\ Head(pending) \in NodesOf
                              /\ Tail(pending) \in Seq(NodesOf)
                              /\ Len(Tail(pending)) = Len(pending) - 1
                              /\ \A m \in 1..(Len(pending) - 1) : Tail(pending)[m] = pending[m + 1]
<1>1. pending \in Seq(NodesOf)
  BY DEF Typed, TypeOK
<1>2. Len(pending) \in Nat /\ DOMAIN pending = 1..Len(pending)
  BY <1>1, LenProperties
<1>3. \A m \in DOMAIN pending : pending[m] \in NodesOf
  BY <1>1, <1>2, ElementOfSeq
<1>4. ASSUME pending # <<>>
      PROVE  /\ Len(pending) \in Nat \ {0}
             /\ Head(pending) = pending[1]
             /\ Head(pending) \in NodesOf
             /\ Tail(pending) \in Seq(NodesOf)
             /\ Len(Tail(pending)) = Len(pending) - 1
             /\ \A m \in 1..(Len(pending) - 1) : Tail(pending)[m] = pending[m + 1]
  <2>1. Len(pending) # 0
    BY <1>1, <1>4, EmptySeq
  <2> QED
    BY <1>1, <1>2, <1>3, <1>4, <2>1, HeadTailProperties
<1> QED
  BY <1>1, <1>2, <1>3, <1>4

LEMMA RecordFacts ==
  ASSUME Typed, UNCHANGED ast, at \in NodesOf,
         NEW i \in NodesOf, NEW v \in 0..Len(ast), NEW parent \in Nat,
         NEW root \in 0..Len(ast), NEW depth \in Nat,
         Record(i, v, parent, root, depth)
  PROVE  /\ callGraph' \in Seq(Edge)
         /\ Len(callGraph') = Len(callGraph) + 1
         /\ DOMAIN callGraph' = 1..(Len(callGraph) + 1)
         /\ \A e \in DOMAIN callGraph : callGraph'[e] = callGraph[e]
         /\ callGraph'[Len(callGraph) + 1] =
              [call |-> i, seen |-> at, assigned |-> assignStmt,
               calleeVarName |-> v, chainParent |-> parent,
               chainRoot |-> root, chainDepth |-> depth]
         /\ calleeMap' \in [Keys -> 0..Len(callGraph')]
         /\ calleeMap'[Key(i)] = Len(callGraph) + 1
         /\ \A k \in Keys : calleeMap[k] # 0 => calleeMap'[k] # 0
<1>1. PICK new : new = [call |-> i, seen |-> at, assigned |-> assignStmt,
               calleeVarName |-> v, chainParent |-> parent,
               chainRoot |-> root, chainDepth |-> depth]
  OBVIOUS
<1>2. new \in Edge
  BY <1>1 DEF Edge, Typed, TypeOK
<1>3. callGraph' = Append(callGraph, new)
  BY <1>1 DEF Record
<1>4. callGraph \in Seq(Edge)
  BY DEF Typed, TypeOK
<1>5. /\ callGraph' \in Seq(Edge)
      /\ Len(callGraph') = Len(callGraph) + 1
      /\ DOMAIN callGraph' = 1..(Len(callGraph) + 1)
      /\ \A e \in 1..Len(callGraph) : callGraph'[e] = callGraph[e]
      /\ callGraph'[Len(callGraph) + 1] = new
  BY <1>2, <1>3, <1>4, AppendFacts
<1>6. DOMAIN callGraph = 1..Len(callGraph) /\ Len(callGraph) \in Nat
  BY GraphFacts
<1>7. Key(i) \in Keys
  BY KeyIsKey DEF Typed
<1>8. calleeMap \in [Keys -> 0..Len(callGraph)]
  BY DEF Typed, TypeOK
<1>9. calleeMap' = [calleeMap EXCEPT ![Key(i)] = Len(callGraph) + 1]
  BY DEF Record
<1>10. calleeMap' \in [Keys -> 0..(Len(callGraph) + 1)]
  <2>1. calleeMap \in [Keys -> 0..(Len(callGraph) + 1)]
    BY <1>6, <1>8
  <2>2. Len(callGraph) + 1 \in 0..(Len(callGraph) + 1)
    BY <1>6
  <2> QED
    BY <1>9, <2>1, <2>2
<1>11. calleeMap'[Key(i)] = Len(callGraph) + 1
  BY <1>7, <1>8, <1>9
<1>12. ASSUME NEW k \in Keys, calleeMap[k] # 0
       PROVE  calleeMap'[k] # 0
  BY <1>6, <1>8, <1>9, <1>12
<1> QED
  BY <1>1, <1>5, <1>6, <1>10, <1>11, <1>12

LEMMA MakeEdgeTypes ==
  ASSUME Typed, UNCHANGED ast, at \in NodesOf, NEW i \in NodesOf, MakeEdge(i)
  PROVE  /\ argMap' \in [Keys -> Visit \union {Nil}]
         /\ parents' \in Seq(Visit)
<1>1. ThisVisit(i) \in Visit
  BY DEF ThisVisit, Visit
<1>2. argMap \in [Keys -> Visit \union {Nil}] /\ parents \in Seq(Visit)
  BY DEF Typed, TypeOK
<1>3. parents' \in Seq(Visit)
  <2>1. Append(parents, ThisVisit(i)) \in Seq(Visit)
    BY <1>1, <1>2, AppendFacts
  <2> QED
    BY <1>2, <2>1 DEF MakeEdge, Filed
<1>4. argMap' \in [Keys -> Visit \union {Nil}]
  BY <1>1, <1>2, Zenon DEF MakeEdge
<1> QED
  BY <1>3, <1>4

LEMMA EnteringFacts ==
  ASSUME Typed, entering # 0
  PROVE  entering \in NodesOf /\ at \in NodesOf
<1>1. Len(ast) \in Nat \ {0} /\ NodesOf = 1..Len(ast)
  BY AstFacts DEF Typed
<1> QED
  BY <1>1 DEF Typed, TypeOK, Started

(* What Returned leaves has its type. *)
LEMMA ReturnedTypes ==
  ASSUME Typed, UNCHANGED <<ast, at>>, NEW waiting \in Seq(NodesOf), Returned(waiting),
         at # 0
  PROVE  /\ entering' \in 0..Len(ast') /\ pending' \in Seq(NodesOf')
         /\ assignStmt' \in 0..Len(ast') /\ Started'
<1>1. Len(ast) \in Nat \ {0} /\ NodesOf' = NodesOf
  BY AstFacts DEF Typed, NodesOf
<1>2. assignStmt \in 0..Len(ast)
  BY DEF Typed, TypeOK
<1> QED
  BY <1>1, <1>2 DEF Returned, Started

(* What a chained call records is typed, whatever its parent. *)
LEMMA ResumeRecords ==
  ASSUME Typed, ResumeChained
  PROVE  /\ Len(callGraph) \in DOMAIN callGraph
         /\ \E v \in 0..Len(ast), root \in 0..Len(ast), depth \in Nat :
               /\ Record(Head(pending), v, Len(callGraph), root, depth)
               /\ v = Fallback(callGraph[Len(callGraph)], Head(pending))
               /\ root = IF v = 0 THEN callGraph[Len(callGraph)].calleeVarName ELSE v
<1>1. callGraph \in Seq(Edge) /\ callGraph # <<>>
  BY DEF Typed, TypeOK, ResumeChained
<1>2. Len(callGraph) \in Nat /\ Len(callGraph) # 0
  BY <1>1, EmptySeq, LenProperties
<1>3. Len(callGraph) \in DOMAIN callGraph
  BY <1>2, GraphFacts
<1>4. PICK parent : parent = callGraph[Len(callGraph)]
  OBVIOUS
<1>5. parent \in Edge
  BY <1>3, <1>4, GraphFacts
<1>6. Head(pending) \in NodesOf
  BY PendingFacts DEF ResumeChained
<1>7. PICK v : v = Fallback(parent, Head(pending))
  OBVIOUS
<1>8. v \in 0..Len(ast)
  <2>1. RootVariable(Head(pending)) \in 0..Len(ast) /\ Len(ast) \in Nat
    BY <1>6, RootIsNode, AstFacts DEF Typed
  <2> QED
    BY <1>7, <2>1 DEF Fallback
<1>9. PICK root : root = IF v = 0 THEN parent.calleeVarName ELSE v
  OBVIOUS
<1>10. PICK depth : depth = IF v = 0 THEN parent.chainDepth + 1 ELSE 1
  OBVIOUS
<1>11. parent.calleeVarName \in 0..Len(ast) /\ parent.chainDepth \in Nat
  BY <1>5 DEF Edge
<1>12. root \in 0..Len(ast) /\ depth \in Nat
  BY <1>8, <1>9, <1>10, <1>11
<1>13. Record(Head(pending), v, Len(callGraph), root, depth)
  BY <1>4, <1>7, <1>9, <1>10 DEF ResumeChained
<1> QED
  BY <1>3, <1>4, <1>7, <1>8, <1>9, <1>12, <1>13

LEMMA InitTyped ==
  ASSUME Init
  PROVE  Typed
<1>1. WellFormed(ast)
  BY ProgramsAssumption DEF Init
<1>2. SourceOK
  BY <1>1 DEF SourceOK, WellFormed
<1>3. Len(ast) \in Nat \ {0}
  BY <1>2, AstFacts
<1>4. argMap \in [Keys -> Visit \union {Nil}]
  BY Zenon DEF Init
<1>5. calleeMap \in [Keys -> 0..Len(callGraph)]
  BY EmptySeq DEF Init
<1>6. pending \in Seq(NodesOf) /\ callGraph \in Seq(Edge) /\ parents \in Seq(Visit)
  BY EmptySeq DEF Init
<1>7. at \in 0..Len(ast) /\ entering \in 0..Len(ast) /\ assignStmt \in 0..Len(ast)
  BY <1>3 DEF Init
<1>9. /\ open \in BOOLEAN /\ panicked \in BOOLEAN
      /\ linked \subseteq [arg : Visit, key : Keys, edge : DOMAIN callGraph]
  BY Zenon DEF Init
<1>8. Started
  BY DEF Init, Started
<1> QED
  BY <1>2, <1>4, <1>5, <1>6, <1>7, <1>8, <1>9 DEF Typed, TypeOK, SourceOK

LEMMA NextTyped ==
  ASSUME Typed, [Next]_vars
  PROVE  Typed'
<1>1. Len(ast) \in Nat \ {0} /\ NodesOf = 1..Len(ast)
  BY AstFacts DEF Typed
<1> USE DEF Typed
<1>2. CASE OpenFile
  <2> USE <1>2 DEF OpenFile
  <2>1. at < Len(ast) /\ at \in Nat
    BY <1>1 DEF Coming, TypeOK
  <2>2. at + 1 \in 1..Len(ast)
    BY <1>1, <2>1
  <2>3. SourceOK' /\ NodesOf' = NodesOf /\ Keys' = Keys /\ Visit' = Visit /\ Edge' = Edge
    BY DEF SourceOK, NodesOf, Keys, Visit, Edge, WellFormed, Placed, SpineLink
  <2>4. argMap' \in [Keys -> Visit \union {Nil}]
    BY Zenon
  <2>5. calleeMap' \in [Keys -> 0..Len(callGraph)]
    BY GraphFacts
  <2>6. Started'
    BY <2>2 DEF Started
  <2> QED
    BY <1>1, <2>2, <2>3, <2>4, <2>5, <2>6 DEF TypeOK, SourceOK
<1>3. CASE InspectAssign
  <2> USE <1>3 DEF InspectAssign
  <2>1. at + 1 \in 1..Len(ast)
    BY <1>1 DEF Coming, TypeOK
  <2>2. SourceOK' /\ NodesOf' = NodesOf /\ Keys' = Keys /\ Visit' = Visit /\ Edge' = Edge
    BY DEF SourceOK, NodesOf, Keys, Visit, Edge, WellFormed, Placed, SpineLink
  <2>3. Started'
    BY <2>1 DEF Started
  <2> QED
    BY <1>1, <2>1, <2>2, <2>3 DEF TypeOK, SourceOK
<1>4. CASE InspectCall
  <2> USE <1>4 DEF InspectCall
  <2>1. at + 1 \in 1..Len(ast)
    BY <1>1 DEF Coming, TypeOK
  <2>2. SourceOK' /\ NodesOf' = NodesOf /\ Keys' = Keys /\ Visit' = Visit /\ Edge' = Edge
    BY DEF SourceOK, NodesOf, Keys, Visit, Edge, WellFormed, Placed, SpineLink
  <2>3. Started'
    BY <2>1 DEF Started
  <2> QED
    BY <1>1, <2>1, <2>2, <2>3 DEF TypeOK, SourceOK
<1>5. CASE SkipCall
  <2> USE <1>5 DEF SkipCall
  <2>1. SourceOK' /\ NodesOf' = NodesOf /\ Keys' = Keys /\ Visit' = Visit /\ Edge' = Edge
    BY DEF SourceOK, NodesOf, Keys, Visit, Edge, WellFormed, Placed, SpineLink
  <2>2. at # 0 /\ pending \in Seq(NodesOf)
    BY PendingFacts DEF Started
  <2>3. /\ entering' \in 0..Len(ast') /\ pending' \in Seq(NodesOf')
        /\ assignStmt' \in 0..Len(ast') /\ Started'
    BY <2>2, ReturnedTypes
  <2> QED
    BY <2>1, <2>3 DEF TypeOK, SourceOK
<1>6. CASE SeenBefore
  <2> USE <1>6 DEF SeenBefore
  <2>1. SourceOK' /\ NodesOf' = NodesOf /\ Keys' = Keys /\ Visit' = Visit /\ Edge' = Edge
    BY DEF SourceOK, NodesOf, Keys, Visit, Edge, WellFormed, Placed, SpineLink
  <2>2. at # 0 /\ pending \in Seq(NodesOf)
    BY PendingFacts DEF Started
  <2>3. /\ entering' \in 0..Len(ast') /\ pending' \in Seq(NodesOf')
        /\ assignStmt' \in 0..Len(ast') /\ Started'
    BY <2>2, ReturnedTypes
  <2>4. argMap' \in [Keys -> Visit \union {Nil}] /\ parents' \in Seq(Visit)
    BY EnteringFacts, MakeEdgeTypes
  <2> QED
    BY <2>1, <2>3, <2>4 DEF TypeOK, SourceOK
<1>7. CASE EnterReceiver
  <2> USE <1>7 DEF EnterReceiver
  <2>1. SourceOK' /\ NodesOf' = NodesOf /\ Keys' = Keys /\ Visit' = Visit /\ Edge' = Edge
    BY DEF SourceOK, NodesOf, Keys, Visit, Edge, WellFormed, Placed, SpineLink
  <2>2. entering \in NodesOf /\ at \in NodesOf
    BY EnteringFacts
  <2>3. argMap' \in [Keys -> Visit \union {Nil}] /\ parents' \in Seq(Visit)
    BY <2>2, MakeEdgeTypes
  <2>4. entering' \in 0..Len(ast)
    BY <1>1, <2>2 DEF HasReceiver
  <2>5. pending' \in Seq(NodesOf)
    <3>1. <<entering>> \in Seq(NodesOf) /\ pending \in Seq(NodesOf)
      BY <2>2, PendingFacts
    <3> QED
      BY <3>1, ConcatProperties DEF Waiting
  <2>6. Started'
    BY <1>1, <2>2 DEF Started
  <2> QED
    BY <2>1, <2>3, <2>4, <2>5, <2>6 DEF TypeOK, SourceOK
<1>8. CASE RecordCall
  <2> USE <1>8 DEF RecordCall
  <2>1. SourceOK' /\ NodesOf' = NodesOf /\ Keys' = Keys /\ Visit' = Visit /\ Edge' = Edge
    BY DEF SourceOK, NodesOf, Keys, Visit, Edge, WellFormed, Placed, SpineLink
  <2>2. entering \in NodesOf /\ at \in NodesOf
    BY EnteringFacts
  <2>3. argMap' \in [Keys -> Visit \union {Nil}] /\ parents' \in Seq(Visit)
    BY <2>2, MakeEdgeTypes
  <2>4. at # 0 /\ pending \in Seq(NodesOf)
    BY PendingFacts DEF Started
  <2>5. /\ entering' \in 0..Len(ast') /\ pending' \in Seq(NodesOf')
        /\ assignStmt' \in 0..Len(ast') /\ Started'
    BY <2>4, ReturnedTypes
  <2>6. PICK v \in 0..Len(ast) : Record(entering, v, 0, v, 0)
    BY <1>1, <2>2
  <2>7. /\ callGraph' \in Seq(Edge)
        /\ DOMAIN callGraph' = 1..(Len(callGraph) + 1)
        /\ calleeMap' \in [Keys -> 0..Len(callGraph')]
    <3>1. 0 \in Nat /\ UNCHANGED ast
      OBVIOUS
    <3> QED
      BY <2>2, <2>6, <3>1, RecordFacts
  <2>8. linked' \subseteq [arg : Visit, key : Keys, edge : DOMAIN callGraph']
    <3>1. DOMAIN callGraph \subseteq DOMAIN callGraph'
      BY <2>7, GraphFacts
    <3>2. linked \subseteq [arg : Visit, key : Keys, edge : DOMAIN callGraph]
      BY DEF TypeOK
    <3> QED
      BY <3>1, <3>2
  <2> QED
    BY <2>1, <2>3, <2>5, <2>7, <2>8 DEF TypeOK, SourceOK
<1>9. CASE ResumeChained
  <2> USE <1>9 DEF ResumeChained
  <2>1. SourceOK' /\ NodesOf' = NodesOf /\ Keys' = Keys /\ Visit' = Visit /\ Edge' = Edge
    BY DEF SourceOK, NodesOf, Keys, Visit, Edge, WellFormed, Placed, SpineLink
  <2>2. at # 0 /\ Tail(pending) \in Seq(NodesOf) /\ Head(pending) \in NodesOf
    BY PendingFacts DEF Started
  <2>3. at \in NodesOf
    BY <1>1, <2>2 DEF TypeOK
  <2>4. /\ entering' \in 0..Len(ast') /\ pending' \in Seq(NodesOf')
        /\ assignStmt' \in 0..Len(ast') /\ Started'
    BY <2>2, ReturnedTypes
  <2>5. PICK v \in 0..Len(ast), root \in 0..Len(ast), depth \in Nat :
          Record(Head(pending), v, Len(callGraph), root, depth)
    BY ResumeRecords
  <2>6. /\ callGraph' \in Seq(Edge)
        /\ DOMAIN callGraph' = 1..(Len(callGraph) + 1)
        /\ calleeMap' \in [Keys -> 0..Len(callGraph')]
    BY <2>2, <2>3, <2>5, GraphFacts, RecordFacts
  <2>7. linked' \subseteq [arg : Visit, key : Keys, edge : DOMAIN callGraph']
    <3>1. DOMAIN callGraph \subseteq DOMAIN callGraph'
      BY <2>6, GraphFacts
    <3>2. linked \subseteq [arg : Visit, key : Keys, edge : DOMAIN callGraph]
      BY DEF TypeOK
    <3> QED
      BY <3>1, <3>2
  <2> QED
    BY <2>1, <2>4, <2>6, <2>7 DEF TypeOK, SourceOK
<1>10. CASE IndexOutOfRange
  <2> USE <1>10 DEF IndexOutOfRange
  <2>1. SourceOK' /\ NodesOf' = NodesOf /\ Keys' = Keys /\ Visit' = Visit /\ Edge' = Edge
    BY DEF SourceOK, NodesOf, Keys, Visit, Edge, WellFormed, Placed, SpineLink
  <2> QED
    BY <2>1 DEF TypeOK, SourceOK, Started
<1>11. CASE LinkArguments
  <2> USE <1>11 DEF LinkArguments
  <2>1. SourceOK' /\ NodesOf' = NodesOf /\ Keys' = Keys /\ Visit' = Visit /\ Edge' = Edge
    BY DEF SourceOK, NodesOf, Keys, Visit, Edge, WellFormed, Placed, SpineLink
  <2>2. ASSUME NEW k \in Linkable
        PROVE  /\ k \in Keys /\ argMap[k] \in Visit
               /\ calleeMap[k] \in DOMAIN callGraph
    <3>1. k \in Keys /\ argMap[k] # Nil /\ calleeMap[k] # 0
      BY DEF Linkable
    <3>2. argMap[k] \in Visit \union {Nil}
      BY <3>1 DEF TypeOK
    <3>3. calleeMap[k] \in 0..Len(callGraph) /\ Len(callGraph) \in Nat
          /\ DOMAIN callGraph = 1..Len(callGraph)
      BY <3>1, GraphFacts
    <3> QED
      BY <3>1, <3>2, <3>3
  <2>3. linked \subseteq [arg : Visit, key : Keys, edge : DOMAIN callGraph]
    BY DEF TypeOK
  <2>4. linked' \subseteq [arg : Visit, key : Keys, edge : DOMAIN callGraph]
    BY <2>2, <2>3
  <2> QED
    BY <2>1, <2>4 DEF TypeOK, SourceOK, Started
<1>12. CASE UNCHANGED vars
  <2> USE <1>12 DEF vars
  <2>1. SourceOK' /\ NodesOf' = NodesOf /\ Keys' = Keys /\ Visit' = Visit /\ Edge' = Edge
    BY DEF SourceOK, NodesOf, Keys, Visit, Edge, WellFormed, Placed, SpineLink
  <2> QED
    BY <2>1 DEF TypeOK, SourceOK, Started
<1> QED
  BY <1>2, <1>3, <1>4, <1>5, <1>6, <1>7, <1>8, <1>9, <1>10, <1>11, <1>12
  DEF Next, Ended

(* TypeOK: the walk stays among the nodes of its program, and the edges,   *)
(* maps and arguments it makes are what the code declares.                 *)
THEOREM TypeCorrect == Spec => []TypeOK
<1>1. Init => Typed
  BY InitTyped
<1>2. Typed /\ [Next]_vars => Typed'
  BY NextTyped
<1>3. Typed => TypeOK
  BY DEF Typed
<1> QED
  BY <1>1, <1>2, <1>3, PTL DEF Spec
-----------------------------------------------------------------------------
(* Whether a later visit of call i would find its key taken, or comes no   *)
(* more because the walk has gone on to another file.                      *)
FilePassed(i) == \E k \in (i + 1)..at : ast[k].kind = "file"
Taken(i) == calleeMap[Key(i)] # 0 \/ FilePassed(i)

(* The calls being processed stand one above the other on the spine that   *)
(* begins at the node the walk has come to.                                *)
Stacked ==
  /\ entering # 0 => entering = at + Len(pending) /\ OnSpine(at, entering)
  /\ \A m \in DOMAIN pending : /\ pending[m] = at + Len(pending) - m
                               /\ IsCall(pending[m]) /\ HasReceiver(pending[m])
                               /\ OnSpine(at, pending[m])

(* An edge stands on the spine it was recorded from; its key is taken, so  *)
(* is its receiver's, and so is that of the call around it unless that     *)
(* call still waits.                                                       *)
EdgePlaced(c) ==
  /\ c.seen <= at /\ c.seen <= c.call /\ OnSpine(c.seen, c.call)
  /\ Taken(c.call)
  /\ HasReceiver(c.call) => ~IsCall(c.call + 1) \/ Taken(c.call + 1)
  /\ c.call # c.seen => \/ Taken(c.call - 1)
                        \/ c.seen = at /\ \E m \in DOMAIN pending : pending[m] = c.call - 1
  /\ entering # 0 => c.seen # at

EdgesPlaced == \A e \in DOMAIN callGraph : EdgePlaced(callGraph[e])

(* A waiting call has no edge; its receiver has none but the newest, and   *)
(* that one when it is the next to resume; no call waits that is itself    *)
(* the receiver of a recorded one.                                         *)
WaitingClean ==
  \A m \in DOMAIN pending : \A e \in DOMAIN callGraph :
    /\ callGraph[e].call # pending[m]
    /\ callGraph[e].call = pending[m] + 1 => m = 1 /\ entering = 0 /\ e = Len(callGraph)
    /\ callGraph[e].call = pending[m] - 1 => ~HasReceiver(pending[m] - 1)

(* When a call resumes, its receiver has been looked at. *)
ReceiverDone ==
  entering = 0 => \A m \in DOMAIN pending :
    m = 1 => ~IsCall(pending[m] + 1) \/ Taken(pending[m] + 1)

ChainInv == Typed /\ Stacked /\ EdgesPlaced /\ WaitingClean /\ ReceiverDone
            /\ ReceiverIsChainParent

LEMMA OwnSpine ==
  ASSUME NEW i \in Int
  PROVE  OnSpine(i, i)
<1>1. \A k \in (i + 1)..i : FALSE
  OBVIOUS
<1> QED
  BY <1>1 DEF OnSpine

LEMMA SameSource ==
  ASSUME UNCHANGED ast
  PROVE  /\ NodesOf' = NodesOf /\ Keys' = Keys
         /\ \A i : Key(i)' = Key(i) /\ IsCall(i)' = IsCall(i) /\ HasReceiver(i)' = HasReceiver(i)
         /\ \A i, j : OnSpine(i, j)' = OnSpine(i, j)
<1>1. \A i, j : OnSpine(i, j)' = OnSpine(i, j)
  BY DEF OnSpine
<1>2. \A i : Base(i)' = Base(i)
  BY DEF Base, OnSpine
<1>3. \A i : Key(i)' = Key(i)
  BY <1>2 DEF Key
<1>4. \A i : IsCall(i)' = IsCall(i)
  BY DEF IsCall
<1>5. \A i : HasReceiver(i)' = HasReceiver(i)
  BY DEF HasReceiver
<1>6. NodesOf' = NodesOf /\ Keys' = Keys
  BY DEF NodesOf, Keys
<1> QED
  BY <1>1, <1>3, <1>4, <1>5, <1>6

LEMMA TakenStays ==
  ASSUME Typed, UNCHANGED ast, at \in Int, at' \in Int, at <= at',
         \A k \in Keys : calleeMap[k] # 0 => calleeMap'[k] # 0,
         NEW i \in NodesOf, Taken(i)
  PROVE  Taken(i)'
<1>1. Key(i) \in Keys /\ Key(i)' = Key(i)
  BY KeyIsKey, SameSource DEF Typed
<1>2. CASE calleeMap[Key(i)] # 0
  BY <1>1, <1>2 DEF Taken
<1>3. CASE FilePassed(i)
  <2>1. PICK k \in (i + 1)..at : ast[k].kind = "file"
    BY <1>3 DEF FilePassed
  <2>2. i \in Int
    BY AstFacts DEF Typed
  <2>3. k \in (i + 1)..at'
    BY <2>1, <2>2
  <2>4. FilePassed(i)'
    BY <2>1, <2>3 DEF FilePassed
  <2> QED
    BY <2>4 DEF Taken
<1> QED
  BY <1>2, <1>3 DEF Taken

(* The nodes around an edge. *)
LEMMA AroundEdge ==
  ASSUME Typed, EdgesPlaced, NEW e \in DOMAIN callGraph, NEW c, c = callGraph[e]
  PROVE  /\ c.call \in NodesOf /\ c.seen \in NodesOf
         /\ c.call \in Int /\ c.seen \in Int /\ at \in Int
         /\ c.seen <= at /\ c.seen <= c.call /\ OnSpine(c.seen, c.call)
         /\ HasReceiver(c.call) => c.call + 1 \in NodesOf /\ OnSpine(c.seen, c.call + 1)
         /\ c.call # c.seen => c.call - 1 \in NodesOf /\ OnSpine(c.seen, c.call - 1)
<1>1. EdgePlaced(c)
  BY DEF EdgesPlaced
<1>2. c.call \in NodesOf /\ c.seen \in NodesOf
  BY GraphFacts
<1>3. NodesOf = 1..Len(ast) /\ Len(ast) \in Nat
  BY AstFacts DEF Typed
<1>4. at \in Int
  BY <1>3 DEF Typed, TypeOK
<1>5. c.seen <= at /\ c.seen <= c.call /\ OnSpine(c.seen, c.call)
  BY <1>1 DEF EdgePlaced
<1>6. ASSUME HasReceiver(c.call)
      PROVE  c.call + 1 \in NodesOf /\ OnSpine(c.seen, c.call + 1)
  <2>1. c.call < Len(ast) /\ ast[c.call + 1].role = "chain"
    BY <1>6 DEF HasReceiver
  <2>2. ASSUME NEW k \in (c.seen + 1)..(c.call + 1)
        PROVE  ast[k].role \in Spine
    <3>1. k \in (c.seen + 1)..c.call \/ k = c.call + 1
      BY <1>2, <1>3
    <3> QED
      BY <1>5, <2>1, <3>1 DEF OnSpine, Spine
  <2> QED
    BY <1>2, <1>3, <2>1, <2>2 DEF OnSpine
<1>7. ASSUME c.call # c.seen
      PROVE  c.call - 1 \in NodesOf /\ OnSpine(c.seen, c.call - 1)
  <2>1. c.call - 1 \in NodesOf
    BY <1>2, <1>3, <1>5, <1>7
  <2>2. \A k \in (c.seen + 1)..(c.call - 1) : k \in (c.seen + 1)..c.call
    BY <1>2, <1>3
  <2> QED
    BY <1>5, <2>1, <2>2 DEF OnSpine
<1> QED
  BY <1>2, <1>3, <1>4, <1>5, <1>6, <1>7

(* A spine that begins before a file ends before it. *)
LEMMA SpineEndsAtFile ==
  ASSUME SourceOK, NEW s \in NodesOf, NEW i \in NodesOf, NEW n \in NodesOf,
         s < n, OnSpine(s, i), ast[n].kind = "file"
  PROVE  i < n
<1>1. ast[n].role \notin Spine
  BY FileIsNoReceiver
<1>2. NodesOf \subseteq Int
  BY AstFacts
<1>3. i >= n => n \in (s + 1)..i
  BY <1>2
<1> QED
  BY <1>1, <1>2, <1>3 DEF OnSpine

(* Steps of the walk between two calls of processCallExpression. *)
LEMMA WalkOn ==
  ASSUME ChainInv, Typed', pending = <<>>, entering = 0,
         UNCHANGED <<ast, callGraph, pending>>, at <= at',
         \/ UNCHANGED calleeMap
         \/ at' = at + 1 /\ at' \in NodesOf /\ ast[at'].kind = "file",
         entering' = 0 \/ (entering' = at' /\ at < at')
  PROVE  ChainInv'
<1>1. at \in Int /\ at' \in Int
  <2>1. Len(ast) \in Int
    BY AstFacts DEF ChainInv, Typed
  <2> QED
    BY <2>1 DEF ChainInv, Typed, TypeOK
<1>2. DOMAIN pending = {} /\ Len(pending) = 0
  BY EmptySeq
<1>3. Stacked'
  <2>1. OnSpine(at', at')
    BY <1>1, OwnSpine
  <2>2. entering' # 0 => entering' = at' + Len(pending) /\ OnSpine(at', entering')
    BY <1>1, <1>2, <2>1
  <2>3. DOMAIN pending' = {} /\ Len(pending') = 0
    BY <1>2
  <2> QED
    BY <1>1, <2>1, <2>3 DEF Stacked, OnSpine
<1>4. ASSUME NEW e \in DOMAIN callGraph
      PROVE  EdgePlaced(callGraph[e])'
  <2>1. PICK c : c = callGraph[e]
    OBVIOUS
  <2>2. /\ c.call \in NodesOf /\ c.seen \in NodesOf /\ c.call \in Int /\ c.seen \in Int
        /\ c.seen <= at /\ c.seen <= c.call /\ OnSpine(c.seen, c.call)
        /\ HasReceiver(c.call) => c.call + 1 \in NodesOf /\ OnSpine(c.seen, c.call + 1)
        /\ c.call # c.seen => c.call - 1 \in NodesOf /\ OnSpine(c.seen, c.call - 1)
    BY <2>1, AroundEdge DEF ChainInv
  <2>3. ASSUME NEW i \in NodesOf, OnSpine(c.seen, i), Taken(i)
        PROVE  Taken(i)'
    <3>1. CASE UNCHANGED calleeMap
      BY <1>1, <2>3, <3>1, TakenStays DEF ChainInv
    <3>2. CASE at' = at + 1 /\ at' \in NodesOf /\ ast[at'].kind = "file"
      <4>1. c.seen < at'
        BY <1>1, <2>2, <3>2
      <4>2. i < at'
        BY <2>2, <2>3, <3>2, <4>1, SpineEndsAtFile DEF ChainInv, Typed
      <4>3. i \in Int
        BY AstFacts DEF ChainInv, Typed
      <4>4. at' \in (i + 1)..at'
        BY <1>1, <4>2, <4>3
      <4>5. FilePassed(i)'
        BY <3>2, <4>4 DEF FilePassed
      <4> QED
        BY <4>5 DEF Taken
    <3> QED
      BY <3>1, <3>2
  <2>4. EdgePlaced(c)
    BY <2>1 DEF ChainInv, EdgesPlaced
  <2>5. c' = c /\ callGraph[e]' = c
    BY <2>1
  <2>6. Taken(c.call)'
    BY <2>2, <2>3, <2>4 DEF EdgePlaced
  <2>7. HasReceiver(c.call) => ~IsCall(c.call + 1) \/ Taken(c.call + 1)'
    BY <2>2, <2>3, <2>4 DEF EdgePlaced
  <2>8. c.call # c.seen => Taken(c.call - 1)'
    BY <1>2, <2>2, <2>3, <2>4 DEF EdgePlaced
  <2>9. entering' # 0 => c.seen # at'
    BY <1>1, <2>2
  <2> QED
    BY <1>1, <2>2, <2>5, <2>6, <2>7, <2>8, <2>9, SameSource DEF EdgePlaced
<1>5. EdgesPlaced'
  BY <1>4 DEF EdgesPlaced
<1>6. WaitingClean' /\ ReceiverDone'
  BY <1>2 DEF WaitingClean, ReceiverDone
<1>7. ReceiverIsChainParent'
  BY SameSource DEF ChainInv, ReceiverIsChainParent, EdgesOf
<1> QED
  BY <1>3, <1>5, <1>6, <1>7 DEF ChainInv

(* The processing of a call returns without an edge. *)
LEMMA ReturnWithoutEdge ==
  ASSUME ChainInv, Typed', entering # 0,
         UNCHANGED <<ast, at, calleeMap, callGraph, pending>>, entering' = 0,
         ~IsCall(entering) \/ calleeMap[Key(entering)] # 0
  PROVE  ChainInv'
<1>1. Stacked' /\ ReceiverIsChainParent'
  BY SameSource DEF ChainInv, Stacked, ReceiverIsChainParent, EdgesOf
<1>2. EdgesPlaced'
  <2>1. ASSUME NEW i
        PROVE  Taken(i)' = Taken(i)
    BY SameSource DEF Taken, FilePassed
  <2> QED
    BY <2>1, SameSource DEF ChainInv, EdgesPlaced, EdgePlaced
<1>3. WaitingClean'
  BY SameSource DEF ChainInv, WaitingClean
<1>4. ReceiverDone'
  <2>1. SUFFICES ASSUME 1 \in DOMAIN pending
                 PROVE  ~IsCall(pending[1] + 1)' \/ Taken(pending[1] + 1)'
    BY DEF ReceiverDone
  <2>2. pending[1] = at + Len(pending) - 1 /\ entering = at + Len(pending)
    BY <2>1 DEF ChainInv, Stacked
  <2>3. pending[1] + 1 = entering
    <3>1. at \in Int /\ Len(pending) \in Int
      BY PendingFacts, AstFacts DEF ChainInv, Typed, TypeOK
    <3> QED
      BY <2>2, <3>1
  <2>4. ~IsCall(entering) \/ Taken(entering)
    BY DEF Taken
  <2> QED
    BY <2>3, <2>4, SameSource DEF Taken, FilePassed
<1> QED
  BY <1>1, <1>2, <1>3, <1>4 DEF ChainInv

(* The nodes that are being processed. *)
LEMMA StackFacts ==
  ASSUME Typed, Stacked
  PROVE  /\ at \in Int /\ Len(pending) \in Nat /\ DOMAIN pending = 1..Len(pending)
         /\ \A m \in DOMAIN pending : /\ pending[m] \in NodesOf /\ pending[m] \in Int
                                      /\ pending[m] = at + Len(pending) - m
                                      /\ at <= pending[m]
         /\ entering # 0 => entering \in NodesOf /\ entering \in Int /\ at <= entering
<1>1. at \in Int /\ NodesOf \subseteq Int
  BY AstFacts DEF Typed, TypeOK
<1>2. Len(pending) \in Nat /\ DOMAIN pending = 1..Len(pending)
  BY PendingFacts
<1>3. ASSUME NEW m \in DOMAIN pending
      PROVE  /\ pending[m] \in NodesOf /\ pending[m] \in Int
             /\ pending[m] = at + Len(pending) - m
             /\ at <= pending[m]
  <2>1. pending[m] \in NodesOf
    BY PendingFacts
  <2>2. pending[m] = at + Len(pending) - m
    BY DEF Stacked
  <2> QED
    BY <1>1, <1>2, <2>1, <2>2
<1>4. ASSUME entering # 0
      PROVE  entering \in NodesOf /\ entering \in Int /\ at <= entering
  <2>1. entering \in NodesOf
    BY <1>4, EnteringFacts
  <2>2. entering = at + Len(pending)
    BY <1>4 DEF Stacked
  <2> QED
    BY <1>1, <1>2, <2>1, <2>2
<1> QED
  BY <1>1, <1>2, <1>3, <1>4

(* No file is passed between the walk and what it processes. *)
LEMMA NotPassed ==
  ASSUME NEW i \in Int, at \in Int, at <= i
  PROVE  ~FilePassed(i)
<1>1. \A k \in (i + 1)..at : FALSE
  OBVIOUS
<1> QED
  BY <1>1 DEF FilePassed

LEMMA PushFacts ==
  ASSUME NEW S, NEW s \in Seq(S), NEW x \in S
  PROVE  /\ DOMAIN (<<x>> \o s) = 1..(Len(s) + 1)
         /\ Len(<<x>> \o s) = Len(s) + 1
         /\ (<<x>> \o s)[1] = x
         /\ \A m \in 2..(Len(s) + 1) : (<<x>> \o s)[m] = s[m - 1]
         /\ \A m \in 1..Len(s) : (<<x>> \o s)[m + 1] = s[m]
<1>1. <<x>> \in Seq(S) /\ Len(<<x>>) = 1 /\ <<x>>[1] = x
  OBVIOUS
<1>2. Len(s) \in Nat
  BY LenProperties
<1>3. PICK t : t = <<x>> \o s
  OBVIOUS
<1>4. t \in Seq(S) /\ Len(t) = Len(s) + 1
  BY <1>1, <1>2, <1>3, ConcatProperties
<1>5. \A m \in 1..(Len(s) + 1) : t[m] = IF m <= 1 THEN <<x>>[m] ELSE s[m - 1]
  BY <1>1, <1>2, <1>3, ConcatProperties
<1>6. DOMAIN t = 1..(Len(s) + 1)
  BY <1>4, LenProperties
<1>7. t[1] = x
  BY <1>1, <1>2, <1>5
<1>8. \A m \in 2..(Len(s) + 1) : t[m] = s[m - 1]
  BY <1>2, <1>5
<1>9. ASSUME NEW m \in 1..Len(s)
      PROVE  t[m + 1] = s[m]
  <2>1. m + 1 \in 2..(Len(s) + 1) /\ (m + 1) - 1 = m
    BY <1>2
  <2> QED
    BY <1>8, <2>1
<1> QED
  BY <1>3, <1>4, <1>6, <1>7, <1>8, <1>9

LEMMA EnterReceiverKeeps ==
  ASSUME ChainInv, Typed', EnterReceiver
  PROVE  ChainInv'
<1> DEFINE i == entering
<1>1. /\ i # 0 /\ IsCall(i) /\ calleeMap[Key(i)] = 0 /\ HasReceiver(i)
      /\ pending' = <<i>> \o pending /\ entering' = i + 1
      /\ UNCHANGED <<ast, at, calleeMap, callGraph>>
  BY DEF EnterReceiver, Waiting
<1>2. /\ at \in Int /\ Len(pending) \in Nat /\ DOMAIN pending = 1..Len(pending)
      /\ \A m \in DOMAIN pending : /\ pending[m] \in NodesOf /\ pending[m] \in Int
                                   /\ pending[m] = at + Len(pending) - m
                                   /\ at <= pending[m]
      /\ i \in NodesOf /\ i \in Int /\ at <= i
  BY <1>1, StackFacts DEF ChainInv
<1>3. /\ DOMAIN pending' = 1..(Len(pending) + 1)
      /\ Len(pending') = Len(pending) + 1
      /\ pending'[1] = i
      /\ \A m \in 2..(Len(pending) + 1) : pending'[m] = pending[m - 1]
      /\ \A m \in 1..Len(pending) : pending'[m + 1] = pending[m]
  <2>1. pending \in Seq(NodesOf)
    BY PendingFacts DEF ChainInv
  <2> QED
    BY <1>1, <1>2, <2>1, PushFacts
<1>4. ~Taken(i)
  BY <1>1, <1>2, NotPassed DEF Taken
<1>5. i = at + Len(pending) /\ OnSpine(at, i)
  BY <1>1 DEF ChainInv, Stacked
<1>6. Stacked'
  <2>1. OnSpine(at, i + 1)
    <3>1. ast[i + 1].role \in Spine
      BY <1>1 DEF HasReceiver, Spine
    <3>2. ASSUME NEW k \in (at + 1)..(i + 1)
          PROVE  ast[k].role \in Spine
      <4>1. k = i + 1 \/ k \in (at + 1)..i
        BY <1>2
      <4> QED
        BY <1>5, <3>1, <4>1 DEF OnSpine
    <3> QED
      BY <3>2 DEF OnSpine
  <2>2. entering' = at' + Len(pending') /\ OnSpine(at, entering')
    BY <1>1, <1>2, <1>3, <1>5, <2>1
  <2>3. ASSUME NEW m \in DOMAIN pending'
        PROVE  /\ pending'[m] = at + Len(pending') - m
               /\ IsCall(pending'[m]) /\ HasReceiver(pending'[m])
               /\ OnSpine(at, pending'[m])
    <3>1. CASE m = 1
      BY <1>1, <1>2, <1>3, <1>5, <3>1
    <3>2. CASE m # 1
      <4>1. m \in 2..(Len(pending) + 1) /\ m - 1 \in DOMAIN pending /\ m \in Int
        BY <1>2, <1>3, <3>2
      <4>2. pending'[m] = pending[m - 1]
        BY <1>3, <4>1
      <4>3. /\ pending[m - 1] = at + Len(pending) - (m - 1)
            /\ IsCall(pending[m - 1]) /\ HasReceiver(pending[m - 1])
            /\ OnSpine(at, pending[m - 1])
        BY <4>1 DEF ChainInv, Stacked
      <4>4. at + Len(pending) - (m - 1) = at + (Len(pending) + 1) - m
        BY <1>2, <4>1
      <4> QED
        BY <1>3, <4>2, <4>3, <4>4
    <3> QED
      BY <3>1, <3>2
  <2> QED
    BY <1>1, <2>2, <2>3, SameSource DEF Stacked
<1>7. EdgesPlaced'
  <2>1. ASSUME NEW j
        PROVE  Taken(j)' = Taken(j)
    BY <1>1, SameSource DEF Taken, FilePassed
  <2>2. ASSUME NEW e \in DOMAIN callGraph
        PROVE  EdgePlaced(callGraph[e])'
    <3>1. EdgePlaced(callGraph[e])
      BY DEF ChainInv, EdgesPlaced
    <3>2. ASSUME NEW m \in DOMAIN pending, pending[m] = callGraph[e].call - 1
          PROVE  \E n \in DOMAIN pending' : pending'[n] = callGraph[e].call - 1
      <4>1. m + 1 \in DOMAIN pending' /\ pending'[m + 1] = pending[m]
        BY <1>2, <1>3
      <4> QED
        BY <3>2, <4>1
    <3> QED
      BY <1>1, <2>1, <3>1, <3>2, SameSource DEF EdgePlaced
  <2> QED
    BY <1>1, <2>2 DEF EdgesPlaced
<1>8. ASSUME NEW m \in DOMAIN pending', NEW e \in DOMAIN callGraph
      PROVE  /\ callGraph[e].call # pending'[m]
             /\ callGraph[e].call # pending'[m] + 1
             /\ callGraph[e].call = pending'[m] - 1 => ~HasReceiver(pending'[m] - 1)
  <2>1. CASE m = 1
    <3>1. PICK c : c = callGraph[e]
      OBVIOUS
    <3>2. EdgePlaced(c)
      BY <3>1 DEF ChainInv, EdgesPlaced
    <3>3. pending'[m] = i
      BY <1>3, <2>1
    <3>4. c.call \in Int /\ c.seen \in Int /\ c.seen <= at
      BY <3>1, AroundEdge DEF ChainInv
    <3>5. c.call # i
      BY <1>4, <3>2 DEF EdgePlaced
    <3>6. ASSUME c.call = i + 1
          PROVE  FALSE
      <4>1. c.call # c.seen /\ c.call - 1 = i
        BY <1>2, <3>4, <3>6
      <4>2. c.seen # at
        BY <1>1, <3>2 DEF EdgePlaced
      <4>3. Taken(c.call - 1)
        BY <3>2, <4>1, <4>2 DEF EdgePlaced
      <4> QED
        BY <1>4, <4>1, <4>3
    <3>7. ASSUME c.call = i - 1, HasReceiver(i - 1)
          PROVE  FALSE
      <4>1. c.call + 1 = i
        BY <1>2, <3>7
      <4>2. ~IsCall(i) \/ Taken(i)
        BY <3>2, <3>7, <4>1 DEF EdgePlaced
      <4> QED
        BY <1>1, <1>4, <4>2
    <3> QED
      BY <3>1, <3>3, <3>5, <3>6, <3>7
  <2>2. CASE m # 1
    <3>1. m - 1 \in DOMAIN pending /\ pending'[m] = pending[m - 1]
      BY <1>2, <1>3, <2>2
    <3> QED
      BY <1>1, <3>1 DEF ChainInv, WaitingClean
  <2> QED
    BY <2>1, <2>2
<1>9. WaitingClean'
  BY <1>1, <1>8, SameSource DEF WaitingClean
<1>10. ReceiverDone'
  <2>1. i \in Nat \ {0}
    BY <1>2, AstFacts DEF ChainInv, Typed
  <2>2. entering' # 0
    BY <1>1, <2>1
  <2> QED
    BY <2>2 DEF ReceiverDone
<1>11. ReceiverIsChainParent'
  BY <1>1, SameSource DEF ChainInv, ReceiverIsChainParent, EdgesOf
<1> QED
  BY <1>6, <1>7, <1>9, <1>10, <1>11 DEF ChainInv

(* What recording an edge for call i keeps, when i's key was free, i has   *)
(* no edge, and no recorded call has i for its receiver.  The calls above  *)
(* i wait; those not above keep what they had.                             *)
LEMMA RecordKeeps ==
  ASSUME ChainInv, Typed', UNCHANGED <<ast, at>>, entering' = 0,
         NEW i \in NodesOf, at \in NodesOf, at <= i, OnSpine(at, i), IsCall(i),
         NEW v \in 0..Len(ast), NEW parent \in Nat,
         NEW root \in 0..Len(ast), NEW depth \in Nat,
         Record(i, v, parent, root, depth),
         pending' \in Seq(NodesOf), Len(pending') \in Nat, DOMAIN pending' = 1..Len(pending'),
         i = at + Len(pending'),
         \A m \in DOMAIN pending' : \E n \in DOMAIN pending : pending'[m] = pending[n],
         \A m \in DOMAIN pending' : pending'[m] = at + Len(pending') - m,
         \A n \in DOMAIN pending : pending[n] = i \/ \E m \in DOMAIN pending' : pending'[m] = pending[n],
         \A m \in DOMAIN pending' : \A e \in DOMAIN callGraph :
           callGraph[e].call # pending'[m] + 1,
         \A e \in DOMAIN callGraph :
           /\ callGraph[e].call # i
           /\ callGraph[e].call = i - 1 => ~HasReceiver(i - 1),
         HasReceiver(i) => ~IsCall(i + 1) \/ Taken(i + 1),
         IF HasReceiver(i)
         THEN \A d \in DOMAIN callGraph : callGraph[d].call = i + 1 => parent = d
         ELSE parent = 0
  PROVE  ChainInv'
<1> DEFINE new == Len(callGraph) + 1
<1>1. /\ Len(callGraph) \in Nat /\ DOMAIN callGraph = 1..Len(callGraph)
      /\ Len(callGraph') = new /\ DOMAIN callGraph' = 1..new
      /\ \A e \in DOMAIN callGraph : callGraph'[e] = callGraph[e]
      /\ callGraph'[new].call = i /\ callGraph'[new].seen = at
      /\ callGraph'[new].chainParent = parent
      /\ calleeMap'[Key(i)] = new
      /\ \A k \in Keys : calleeMap[k] # 0 => calleeMap'[k] # 0
  <2>1. Typed /\ UNCHANGED ast
    BY DEF ChainInv
  <2>2. Len(callGraph) \in Nat /\ DOMAIN callGraph = 1..Len(callGraph)
    BY <2>1, GraphFacts
  <2>3. /\ Len(callGraph') = Len(callGraph) + 1
        /\ DOMAIN callGraph' = 1..(Len(callGraph) + 1)
        /\ \A e \in DOMAIN callGraph : callGraph'[e] = callGraph[e]
        /\ callGraph'[Len(callGraph) + 1] =
              [call |-> i, seen |-> at, assigned |-> assignStmt,
               calleeVarName |-> v, chainParent |-> parent,
               chainRoot |-> root, chainDepth |-> depth]
        /\ calleeMap'[Key(i)] = Len(callGraph) + 1
        /\ \A k \in Keys : calleeMap[k] # 0 => calleeMap'[k] # 0
    BY <2>1, RecordFacts
  <2> QED
    BY <2>2, <2>3
<1>2. at \in Int /\ i \in Int /\ NodesOf \subseteq Int
  BY AstFacts DEF ChainInv, Typed
<1>3. ASSUME NEW j \in NodesOf, Taken(j)
      PROVE  Taken(j)'
  <2>1. Typed /\ UNCHANGED ast /\ at' \in Int /\ at <= at'
    BY <1>2 DEF ChainInv
  <2>2. \A k \in Keys : calleeMap[k] # 0 => calleeMap'[k] # 0
    BY <1>1
  <2> QED
    BY <1>2, <1>3, <2>1, <2>2, TakenStays
<1>4. Taken(i)'
  BY <1>1, SameSource DEF Taken
<1>5. \A e \in DOMAIN callGraph' : e = new \/ e \in DOMAIN callGraph
  BY <1>1
<1>6. Stacked'
  <2>1. ASSUME NEW m \in DOMAIN pending'
        PROVE  IsCall(pending'[m]) /\ HasReceiver(pending'[m]) /\ OnSpine(at, pending'[m])
    BY DEF ChainInv, Stacked
  <2> QED
    BY <2>1, SameSource DEF Stacked
<1>7. ASSUME NEW e \in DOMAIN callGraph'
      PROVE  EdgePlaced(callGraph[e])'
  <2>1. CASE e = new
    <3>1. PICK c : c = callGraph'[new]
      OBVIOUS
    <3>2. c.call = i /\ c.seen = at
      BY <1>1, <3>1
    <3>3. HasReceiver(i) => ~IsCall(i + 1) \/ Taken(i + 1)'
      <4>1. HasReceiver(i) => i + 1 \in NodesOf
        BY <1>2, AstFacts DEF HasReceiver, ChainInv, Typed
      <4> QED
        BY <1>3, <4>1
    <3>4. i # at => \E m \in DOMAIN pending' : pending'[m] = i - 1
      <4>1. SUFFICES ASSUME i # at
                     PROVE  1 \in DOMAIN pending' /\ pending'[1] = i - 1
        OBVIOUS
      <4>2. 1 \in DOMAIN pending'
        BY <1>2, <4>1
      <4>3. pending'[1] = at + Len(pending') - 1
        BY <4>2
      <4> QED
        BY <1>2, <4>2, <4>3
    <3> QED
      BY <1>2, <1>4, <2>1, <3>1, <3>2, <3>3, <3>4, SameSource DEF EdgePlaced
  <2>2. CASE e \in DOMAIN callGraph
    <3>1. PICK c : c = callGraph[e]
      OBVIOUS
    <3>2. EdgePlaced(c) /\ callGraph'[e] = c
      BY <1>1, <2>2, <3>1 DEF ChainInv, EdgesPlaced
    <3>3. /\ c.call \in NodesOf
          /\ HasReceiver(c.call) => c.call + 1 \in NodesOf
          /\ c.call # c.seen => c.call - 1 \in NodesOf
      BY <2>2, <3>1, AroundEdge DEF ChainInv
    <3>4. Taken(c.call)'
      BY <1>3, <3>2, <3>3 DEF EdgePlaced
    <3>5. HasReceiver(c.call) => ~IsCall(c.call + 1) \/ Taken(c.call + 1)'
      BY <1>3, <3>2, <3>3 DEF EdgePlaced
    <3>6. c.call # c.seen => \/ Taken(c.call - 1)'
                             \/ c.seen = at /\ \E m \in DOMAIN pending' : pending'[m] = c.call - 1
      <4>1. SUFFICES ASSUME c.call # c.seen
                     PROVE  \/ Taken(c.call - 1)'
                            \/ c.seen = at /\ \E m \in DOMAIN pending' : pending'[m] = c.call - 1
        OBVIOUS
      <4>2. CASE Taken(c.call - 1)
        BY <1>3, <3>3, <4>1, <4>2
      <4>3. CASE c.seen = at /\ \E n \in DOMAIN pending : pending[n] = c.call - 1
        <5>1. PICK n \in DOMAIN pending : pending[n] = c.call - 1
          BY <4>3
        <5>2. pending[n] = i \/ \E m \in DOMAIN pending' : pending'[m] = pending[n]
          OBVIOUS
        <5>3. CASE pending[n] = i
          BY <1>4, <5>1, <5>3
        <5>4. CASE \E m \in DOMAIN pending' : pending'[m] = pending[n]
          BY <4>3, <5>1, <5>4
        <5> QED
          BY <5>2, <5>3, <5>4
      <4> QED
        BY <3>2, <4>1, <4>2, <4>3 DEF EdgePlaced
    <3>7. c.seen <= at /\ c.seen <= c.call /\ OnSpine(c.seen, c.call)
      BY <3>2 DEF EdgePlaced
    <3> QED
      BY <3>2, <3>4, <3>5, <3>6, <3>7, SameSource DEF EdgePlaced
  <2> QED
    BY <1>5, <2>1, <2>2
<1>8. EdgesPlaced'
  BY <1>7 DEF EdgesPlaced
<1>9. ASSUME NEW m \in DOMAIN pending', NEW e \in DOMAIN callGraph'
      PROVE  /\ callGraph'[e].call # pending'[m]
             /\ callGraph'[e].call = pending'[m] + 1 => m = 1 /\ e = new
             /\ callGraph'[e].call = pending'[m] - 1 => ~HasReceiver(pending'[m] - 1)
  <2>1. pending'[m] = at + Len(pending') - m /\ m \in 1..Len(pending')
    OBVIOUS
  <2>2. CASE e = new
    <3>1. callGraph'[e].call = i
      BY <1>1, <2>2
    <3>2. i # pending'[m] /\ i # pending'[m] - 1 /\ (i = pending'[m] + 1 => m = 1)
      <4>1. \A a, l, k, q, j \in Int : /\ q = a + l - k
                                       /\ j = a + l
                                       /\ k >= 1
                                       => j # q /\ j # q - 1 /\ (j = q + 1 => k = 1)
        BY SMT
      <4>2. m \in Int /\ m >= 1 /\ Len(pending') \in Int /\ at \in Int /\ i \in Int
        BY <1>2, <2>1 DEF NodesOf
      <4>3. pending'[m] \in Int
        BY <2>1, <4>2
      <4>4. pending'[m] = at + Len(pending') - m /\ i = at + Len(pending')
        BY <1>2, <2>1
      <4> QED
        BY <4>1, <4>2, <4>3, <4>4
    <3> QED
      BY <2>2, <3>1, <3>2
  <2>3. CASE e \in DOMAIN callGraph
    <3>1. PICK n \in DOMAIN pending : pending'[m] = pending[n]
      OBVIOUS
    <3>2. callGraph'[e] = callGraph[e]
      BY <1>1, <2>3
    <3>3. /\ callGraph[e].call # pending[n]
          /\ callGraph[e].call = pending[n] - 1 => ~HasReceiver(pending[n] - 1)
      BY <2>3, <3>1 DEF ChainInv, WaitingClean
    <3>4. callGraph[e].call # pending'[m] + 1
      BY <2>3
    <3> QED
      BY <3>1, <3>2, <3>3, <3>4
  <2> QED
    BY <1>5, <2>2, <2>3
<1>10. WaitingClean'
  BY <1>1, <1>9, SameSource DEF WaitingClean
<1>11. ReceiverDone'
  <2>1. SUFFICES ASSUME 1 \in DOMAIN pending'
                 PROVE  Taken(pending[1] + 1)'
    BY DEF ReceiverDone
  <2>2. pending'[1] = at + Len(pending') - 1
    BY <2>1
  <2>3. pending'[1] + 1 = i
    BY <1>2, <2>2
  <2> QED
    BY <1>4, <2>3 DEF Taken, FilePassed
<1>12. ReceiverIsChainParent'
  <2>1. ASSUME NEW e \in DOMAIN callGraph'
        PROVE  IF HasReceiver(callGraph'[e].call)
               THEN \A d \in DOMAIN callGraph' :
                      callGraph'[d].call = callGraph'[e].call + 1 => callGraph'[e].chainParent = d
               ELSE callGraph'[e].chainParent = 0
    <3>1. CASE e = new
      <4>1. callGraph'[e].call = i /\ callGraph'[e].chainParent = parent
        BY <1>1, <3>1
      <4>2. ASSUME NEW d \in DOMAIN callGraph', callGraph'[d].call = i + 1, HasReceiver(i)
            PROVE  parent = d
        <5>1. d # new
          BY <1>1, <1>2, <4>2
        <5>2. d \in DOMAIN callGraph /\ callGraph[d].call = i + 1
          BY <1>1, <1>5, <4>2, <5>1
        <5> QED
          BY <4>2, <5>2
      <4> QED
        BY <4>1, <4>2
    <3>2. CASE e \in DOMAIN callGraph
      <4>1. PICK c : c = callGraph[e]
        OBVIOUS
      <4>2. callGraph'[e] = c
        BY <1>1, <3>2, <4>1
      <4>3. IF HasReceiver(c.call)
            THEN \A d \in EdgesOf(c.call + 1) : c.chainParent = d
            ELSE c.chainParent = 0
        BY <3>2, <4>1 DEF ChainInv, ReceiverIsChainParent
      <4>4. ASSUME NEW d \in DOMAIN callGraph', callGraph'[d].call = c.call + 1,
                   HasReceiver(c.call)
            PROVE  c.chainParent = d
        <5>1. CASE d = new
          <6>1. c.call + 1 = i
            BY <1>1, <4>4, <5>1
          <6>2. c.call \in Int
            BY <1>2, <3>2, <4>1, GraphFacts DEF ChainInv
          <6>3. \A x \in Int, y \in Int : x + 1 = y => x = y - 1
            OBVIOUS
          <6>4. c.call = i - 1
            BY <1>2, <6>1, <6>2, <6>3, Zenon
          <6> QED
            BY <3>2, <4>1, <4>4, <6>4
        <5>2. CASE d \in DOMAIN callGraph
          <6>1. d \in EdgesOf(c.call + 1)
            BY <1>1, <4>4, <5>2 DEF EdgesOf
          <6> QED
            BY <4>3, <4>4, <6>1
        <5> QED
          BY <1>5, <5>1, <5>2
      <4> QED
        BY <4>2, <4>3, <4>4
    <3> QED
      BY <1>5, <3>1, <3>2
  <2> QED
    BY <2>1, SameSource DEF ReceiverIsChainParent, EdgesOf
<1> QED
  BY <1>6, <1>8, <1>10, <1>11, <1>12 DEF ChainInv

LEMMA RecordCallKeeps ==
  ASSUME ChainInv, Typed', RecordCall
  PROVE  ChainInv'
<1> DEFINE i == entering
<1>1. /\ i # 0 /\ IsCall(i) /\ calleeMap[Key(i)] = 0 /\ ~HasReceiver(i)
      /\ entering' = 0 /\ pending' = pending /\ UNCHANGED <<ast, at>>
  BY DEF RecordCall, Returned
<1>2. /\ at \in Int /\ Len(pending) \in Nat /\ DOMAIN pending = 1..Len(pending)
      /\ \A m \in DOMAIN pending : pending[m] = at + Len(pending) - m
      /\ i \in NodesOf /\ i \in Int /\ at <= i
  BY <1>1, StackFacts DEF ChainInv
<1>3. at \in NodesOf /\ Len(ast) \in Nat /\ pending \in Seq(NodesOf)
  BY <1>1, EnteringFacts, PendingFacts, AstFacts DEF ChainInv, Typed
<1>4. PICK v \in 0..Len(ast) : Record(i, v, 0, v, 0)
  <2>1. (IF ast[i].sel = "var" THEN i ELSE 0) \in 0..Len(ast)
    BY <1>2, <1>3, AstFacts DEF ChainInv, Typed
  <2> QED
    BY <2>1 DEF RecordCall
<1>5. i = at + Len(pending) /\ OnSpine(at, i)
  BY <1>1 DEF ChainInv, Stacked
<1>6. ~Taken(i)
  BY <1>1, <1>2, NotPassed DEF Taken
<1>7. ASSUME NEW e \in DOMAIN callGraph
      PROVE  /\ callGraph[e].call # i
             /\ callGraph[e].call = i - 1 => ~HasReceiver(i - 1)
  <2>1. PICK c : c = callGraph[e]
    OBVIOUS
  <2>2. EdgePlaced(c)
    BY <2>1 DEF ChainInv, EdgesPlaced
  <2>3. c.call # i
    BY <1>6, <2>2 DEF EdgePlaced
  <2>4. ASSUME c.call = i - 1, HasReceiver(i - 1)
        PROVE  FALSE
    <3>1. c.call + 1 = i
      BY <1>2, <2>4
    <3>2. ~IsCall(i) \/ Taken(i)
      BY <2>2, <2>4, <3>1 DEF EdgePlaced
    <3> QED
      BY <1>1, <1>6, <3>2
  <2> QED
    BY <2>1, <2>3, <2>4
<1>8. ASSUME NEW m \in DOMAIN pending', NEW e \in DOMAIN callGraph
      PROVE  callGraph[e].call # pending'[m] + 1
  BY <1>1 DEF ChainInv, WaitingClean
<1>9. /\ pending' \in Seq(NodesOf) /\ Len(pending') \in Nat /\ DOMAIN pending' = 1..Len(pending')
      /\ i = at + Len(pending')
      /\ \A m \in DOMAIN pending' : \E n \in DOMAIN pending : pending'[m] = pending[n]
      /\ \A m \in DOMAIN pending' : pending'[m] = at + Len(pending') - m
      /\ \A n \in DOMAIN pending : pending[n] = i \/ \E m \in DOMAIN pending' : pending'[m] = pending[n]
  BY <1>1, <1>2, <1>3, <1>5
<1>10. /\ HasReceiver(i) => ~IsCall(i + 1) \/ Taken(i + 1)
       /\ IF HasReceiver(i)
          THEN \A d \in DOMAIN callGraph : callGraph[d].call = i + 1 => 0 = d
          ELSE 0 = 0
       /\ 0 \in Nat
  BY <1>1
<1> QED
  BY <1>1, <1>2, <1>3, <1>4, <1>5, <1>7, <1>8, <1>9, <1>10, RecordKeeps

LEMMA ResumeKeeps ==
  ASSUME ChainInv, Typed', ResumeChained
  PROVE  ChainInv'
<1> DEFINE i == Head(pending)
<1>1. /\ entering = 0 /\ pending # <<>>
      /\ entering' = 0 /\ pending' = Tail(pending) /\ UNCHANGED <<ast, at>>
  BY DEF ResumeChained, Returned
<1>2. /\ Len(pending) \in Nat \ {0} /\ i = pending[1] /\ i \in NodesOf
      /\ Tail(pending) \in Seq(NodesOf)
      /\ Len(Tail(pending)) = Len(pending) - 1
      /\ \A m \in 1..(Len(pending) - 1) : Tail(pending)[m] = pending[m + 1]
  BY <1>1, PendingFacts DEF ChainInv
<1>3. DOMAIN pending = 1..Len(pending) /\ 1 \in DOMAIN pending
  BY <1>2, PendingFacts DEF ChainInv
<1>4. /\ at \in Int /\ i \in Int /\ i = at + Len(pending) - 1 /\ at <= i
      /\ \A m \in DOMAIN pending : pending[m] = at + Len(pending) - m
  BY <1>2, <1>3, StackFacts DEF ChainInv
<1>5. at \in NodesOf
  <2>1. at # 0 /\ at \in 0..Len(ast)
    BY <1>1 DEF ChainInv, Typed, Started, TypeOK
  <2> QED
    BY <2>1, AstFacts DEF ChainInv, Typed
<1>6. OnSpine(at, i) /\ IsCall(i) /\ HasReceiver(i)
  BY <1>2, <1>3 DEF ChainInv, Stacked
<1>7. PICK v \in 0..Len(ast), root \in 0..Len(ast), depth \in Nat :
        Record(i, v, Len(callGraph), root, depth)
  BY ResumeRecords DEF ChainInv
<1>8. Len(callGraph) \in Nat
  BY GraphFacts DEF ChainInv
<1>9. /\ pending' \in Seq(NodesOf) /\ Len(pending') \in Nat /\ Len(pending') = Len(pending) - 1
      /\ DOMAIN pending' = 1..Len(pending') /\ i = at + Len(pending')
  <2>1. DOMAIN Tail(pending) = 1..Len(Tail(pending))
    BY <1>2, LenProperties
  <2> QED
    BY <1>1, <1>2, <1>4, <2>1
<1>10. ASSUME NEW m \in DOMAIN pending'
       PROVE  /\ m + 1 \in DOMAIN pending /\ pending'[m] = pending[m + 1]
              /\ m + 1 # 1
              /\ pending'[m] = at + Len(pending') - m
  <2>1. m \in 1..(Len(pending) - 1)
    BY <1>9
  <2>2. m + 1 \in DOMAIN pending /\ pending'[m] = pending[m + 1] /\ m + 1 # 1
    BY <1>1, <1>2, <1>3, <2>1
  <2>3. pending[m + 1] = at + Len(pending) - (m + 1)
    BY <1>4, <2>2
  <2>4. at + Len(pending) - (m + 1) = at + (Len(pending) - 1) - m
    BY <1>2, <1>4, <2>1
  <2> QED
    BY <1>9, <2>2, <2>3, <2>4
<1>11. ASSUME NEW n \in DOMAIN pending
       PROVE  pending[n] = i \/ \E m \in DOMAIN pending' : pending'[m] = pending[n]
  <2>1. CASE n = 1
    BY <1>2, <2>1
  <2>2. CASE n # 1
    <3>1. n - 1 \in DOMAIN pending' /\ (n - 1) + 1 = n
      BY <1>2, <1>3, <1>9, <2>2
    <3>2. pending'[n - 1] = pending[n]
      BY <1>10, <3>1
    <3> QED
      BY <3>1, <3>2
  <2> QED
    BY <2>1, <2>2
<1>12. ASSUME NEW m \in DOMAIN pending', NEW e \in DOMAIN callGraph
       PROVE  callGraph[e].call # pending'[m] + 1
  BY <1>10 DEF ChainInv, WaitingClean
<1>13. ASSUME NEW e \in DOMAIN callGraph
       PROVE  /\ callGraph[e].call # i
              /\ callGraph[e].call = i - 1 => ~HasReceiver(i - 1)
              /\ callGraph[e].call = i + 1 => e = Len(callGraph)
  BY <1>2, <1>3 DEF ChainInv, WaitingClean
<1>14. ~IsCall(i + 1) \/ Taken(i + 1)
  BY <1>1, <1>2, <1>3 DEF ChainInv, ReceiverDone
<1>15. \A m \in DOMAIN pending' : \E n \in DOMAIN pending : pending'[m] = pending[n]
  BY <1>10
<1>16. IF HasReceiver(i)
       THEN \A d \in DOMAIN callGraph : callGraph[d].call = i + 1 => Len(callGraph) = d
       ELSE Len(callGraph) = 0
  BY <1>6, <1>13
<1> QED
  BY <1>1, <1>2, <1>4, <1>5, <1>6, <1>7, <1>8, <1>9, <1>10, <1>11, <1>12, <1>13,
     <1>14, <1>15, <1>16, RecordKeeps

LEMMA InitChain ==
  ASSUME Init
  PROVE  ChainInv
<1>1. Typed
  BY InitTyped
<1>2. DOMAIN callGraph = {} /\ DOMAIN pending = {} /\ entering = 0
  BY EmptySeq DEF Init
<1> QED
  BY <1>1, <1>2
  DEF ChainInv, Stacked, EdgesPlaced, WaitingClean, ReceiverDone, ReceiverIsChainParent

LEMMA NextChain ==
  ASSUME ChainInv, [Next]_vars
  PROVE  ChainInv'
<1>1. Typed'
  BY NextTyped DEF ChainInv
<1>2. at \in Int /\ at + 1 \in Int /\ at <= at + 1 /\ at < at + 1 /\ Len(ast) \in Nat
      /\ 0 <= at /\ NodesOf = 1..Len(ast)
  <2>1. Len(ast) \in Nat /\ at \in 0..Len(ast) /\ NodesOf = 1..Len(ast)
    BY AstFacts DEF ChainInv, Typed, TypeOK
  <2> QED
    BY <2>1
<1>3. CASE OpenFile
  <2>1. /\ pending = <<>> /\ entering = 0 /\ UNCHANGED <<ast, callGraph, pending>>
        /\ at' = at + 1 /\ entering' = 0 /\ at < Len(ast) /\ ast[at'].kind = "file"
    BY <1>3 DEF OpenFile, Inspecting, Coming
  <2>2. at' \in NodesOf
    BY <1>2, <2>1
  <2> QED
    BY <1>1, <1>2, <2>1, <2>2, WalkOn
<1>4. CASE InspectAssign
  <2>1. /\ pending = <<>> /\ entering = 0 /\ UNCHANGED <<ast, callGraph, pending, calleeMap>>
        /\ at' = at + 1 /\ entering' = 0
    BY <1>4 DEF InspectAssign, Inspecting
  <2> QED
    BY <1>1, <1>2, <2>1, WalkOn
<1>5. CASE InspectCall
  <2>1. /\ pending = <<>> /\ entering = 0 /\ UNCHANGED <<ast, callGraph, pending, calleeMap>>
        /\ at' = at + 1 /\ entering' = at + 1
    BY <1>5 DEF InspectCall, Inspecting
  <2> QED
    BY <1>1, <1>2, <2>1, WalkOn
<1>6. CASE SkipCall
  <2>1. /\ entering # 0 /\ ~IsCall(entering) /\ entering' = 0
        /\ UNCHANGED <<ast, at, calleeMap, callGraph, pending>>
    BY <1>6 DEF SkipCall, Returned, IsCall
  <2> QED
    BY <1>1, <2>1, ReturnWithoutEdge
<1>7. CASE SeenBefore
  <2>1. /\ entering # 0 /\ calleeMap[Key(entering)] # 0 /\ entering' = 0
        /\ UNCHANGED <<ast, at, calleeMap, callGraph, pending>>
    BY <1>7 DEF SeenBefore, Returned
  <2> QED
    BY <1>1, <2>1, ReturnWithoutEdge
<1>8. CASE EnterReceiver
  BY <1>1, <1>8, EnterReceiverKeeps
<1>9. CASE RecordCall
  BY <1>1, <1>9, RecordCallKeeps
<1>10. CASE ResumeChained
  BY <1>1, <1>10, ResumeKeeps
<1>11. CASE IndexOutOfRange \/ UNCHANGED vars
  <2>1. UNCHANGED <<ast, at, entering, pending, calleeMap, callGraph>>
    BY <1>11 DEF IndexOutOfRange, vars
  <2>2. ASSUME NEW i
        PROVE  Taken(i)' = Taken(i)
    BY <2>1, SameSource DEF Taken, FilePassed
  <2>3. Stacked' /\ WaitingClean' /\ ReceiverIsChainParent'
    BY <2>1, SameSource DEF ChainInv, Stacked, WaitingClean, ReceiverIsChainParent, EdgesOf
  <2>4. EdgesPlaced'
    BY <2>1, <2>2, SameSource DEF ChainInv, EdgesPlaced, EdgePlaced
  <2>5. ReceiverDone'
    BY <2>1, <2>2, SameSource DEF ChainInv, ReceiverDone
  <2> QED
    BY <1>1, <2>3, <2>4, <2>5 DEF ChainInv
<1>12. CASE LinkArguments
  <2>1. /\ pending = <<>> /\ entering = 0 /\ UNCHANGED <<ast, callGraph, pending, calleeMap>>
        /\ at' = at /\ entering' = 0
    BY <1>12 DEF LinkArguments, Inspecting
  <2>2. at <= at'
    BY <1>2, <2>1
  <2> QED
    BY <1>1, <1>2, <2>1, <2>2, WalkOn
<1> QED
  BY <1>3, <1>4, <1>5, <1>6, <1>7, <1>8, <1>9, <1>10, <1>11, <1>12 DEF Next, Ended

(* ReceiverIsChainParent: in the graph of any program, a chained call's    *)
(* parent, taken blindly from the end of the slice, is the edge of its     *)
(* receiver if the receiver has an edge at all, although receivers are     *)
(* visited twice and the instance IDs of a chain differ by name only.      *)
THEOREM ChainParents == Spec => []ReceiverIsChainParent
<1>1. Init => ChainInv
  BY InitChain
<1>2. ChainInv /\ [Next]_vars => ChainInv'
  BY NextChain
<1>3. ChainInv => ReceiverIsChainParent
  BY DEF ChainInv
<1> QED
  BY <1>1, <1>2, <1>3, PTL DEF Spec
-----------------------------------------------------------------------------
(* Every step leaves the graph or adds the edge of a call that had none. *)
LEMMA AddsOne ==
  ASSUME ChainInv, [Next]_vars
  PROVE  \/ UNCHANGED callGraph
         \/ /\ DOMAIN callGraph' = 1..(Len(callGraph) + 1)
            /\ \A e \in DOMAIN callGraph : callGraph'[e] = callGraph[e]
            /\ \A e \in DOMAIN callGraph :
                 callGraph[e].call # callGraph'[Len(callGraph) + 1].call
            /\ \/ RecordCall /\ callGraph'[Len(callGraph) + 1].call = entering
               \/ ResumeChained /\ callGraph'[Len(callGraph) + 1].call = Head(pending)
<1>1. callGraph \in Seq(Edge) /\ Len(callGraph) \in Nat /\ DOMAIN callGraph = 1..Len(callGraph)
  BY GraphFacts DEF ChainInv, Typed, TypeOK
<1>2. ASSUME NEW i \in NodesOf, NEW v \in 0..Len(ast), NEW parent \in Nat,
             NEW root \in 0..Len(ast), NEW depth \in Nat,
             Record(i, v, parent, root, depth), UNCHANGED ast, at \in NodesOf
      PROVE  /\ DOMAIN callGraph' = 1..(Len(callGraph) + 1)
             /\ \A e \in DOMAIN callGraph : callGraph'[e] = callGraph[e]
             /\ callGraph'[Len(callGraph) + 1].call = i
  <2>1. Typed /\ UNCHANGED ast
    BY <1>2 DEF ChainInv
  <2>2. /\ DOMAIN callGraph' = 1..(Len(callGraph) + 1)
        /\ \A e \in DOMAIN callGraph : callGraph'[e] = callGraph[e]
        /\ callGraph'[Len(callGraph) + 1] =
              [call |-> i, seen |-> at, assigned |-> assignStmt,
               calleeVarName |-> v, chainParent |-> parent,
               chainRoot |-> root, chainDepth |-> depth]
    BY <1>2, <2>1, RecordFacts
  <2> QED
    BY <2>2
<1>3. at # 0 => at \in NodesOf
  BY AstFacts DEF ChainInv, Typed, TypeOK
<1>4. CASE RecordCall
  <2>1. /\ entering # 0 /\ IsCall(entering) /\ calleeMap[Key(entering)] = 0 /\ UNCHANGED ast
    BY <1>4 DEF RecordCall
  <2>2. entering \in NodesOf /\ entering \in Int /\ at \in Int /\ at <= entering /\ at \in NodesOf
    BY <2>1, StackFacts, EnteringFacts DEF ChainInv
  <2>3. PICK v \in 0..Len(ast) : Record(entering, v, 0, v, 0)
    <3>1. (IF ast[entering].sel = "var" THEN entering ELSE 0) \in 0..Len(ast)
      BY <2>2, AstFacts DEF ChainInv, Typed
    <3> QED
      BY <1>4, <3>1 DEF RecordCall
  <2>4. 0 \in 0..Len(ast) /\ 0 \in Nat
    BY AstFacts DEF ChainInv, Typed
  <2>5. /\ DOMAIN callGraph' = 1..(Len(callGraph) + 1)
        /\ \A e \in DOMAIN callGraph : callGraph'[e] = callGraph[e]
        /\ callGraph'[Len(callGraph) + 1].call = entering
    BY <1>2, <2>1, <2>2, <2>3, <2>4
  <2>6. ~Taken(entering)
    BY <2>1, <2>2, NotPassed DEF Taken
  <2>7. ASSUME NEW e \in DOMAIN callGraph
        PROVE  callGraph[e].call # entering
    BY <2>6 DEF ChainInv, EdgesPlaced, EdgePlaced
  <2> QED
    BY <1>4, <2>5, <2>7
<1>5. CASE ResumeChained
  <2>1. pending # <<>> /\ UNCHANGED ast
    BY <1>5 DEF ResumeChained
  <2>2. Head(pending) \in NodesOf /\ Head(pending) = pending[1] /\ 1 \in DOMAIN pending
    BY <2>1, PendingFacts DEF ChainInv
  <2>3. at \in NodesOf
    BY <1>3, <2>1 DEF ChainInv, Typed, Started
  <2>4. PICK v \in 0..Len(ast), root \in 0..Len(ast), depth \in Nat :
          Record(Head(pending), v, Len(callGraph), root, depth)
    BY <1>5, ResumeRecords DEF ChainInv
  <2>5. /\ DOMAIN callGraph' = 1..(Len(callGraph) + 1)
        /\ \A e \in DOMAIN callGraph : callGraph'[e] = callGraph[e]
        /\ callGraph'[Len(callGraph) + 1].call = Head(pending)
    BY <1>1, <1>2, <2>1, <2>2, <2>3, <2>4
  <2>6. ASSUME NEW e \in DOMAIN callGraph
        PROVE  callGraph[e].call # Head(pending)
    BY <2>2 DEF ChainInv, WaitingClean
  <2> QED
    BY <1>5, <2>5, <2>6
<1>6. CASE ~RecordCall /\ ~ResumeChained
  BY <1>6 DEF Next, vars, OpenFile, InspectAssign, InspectCall, SkipCall, SeenBefore,
              EnterReceiver, IndexOutOfRange, LinkArguments, Ended
<1> QED
  BY <1>4, <1>5, <1>6

RecordedOnce == \A e, d \in DOMAIN callGraph : callGraph[e].call = callGraph[d].call => e = d

(* However often the walk and the chains come to a call, the graph never   *)
(* has two edges for it.                                                   *)
THEOREM NoCallTwice == Spec => []RecordedOnce
<1>1. Init => ChainInv /\ RecordedOnce
  <2>1. Init => DOMAIN callGraph = {}
    BY EmptySeq DEF Init
  <2> QED
    BY <2>1, InitChain DEF RecordedOnce
<1>2. ChainInv /\ RecordedOnce /\ [Next]_vars => (ChainInv /\ RecordedOnce)'
  <2> SUFFICES ASSUME ChainInv, RecordedOnce, [Next]_vars
               PROVE  RecordedOnce'
    BY NextChain
  <2>1. CASE UNCHANGED callGraph
    BY <2>1 DEF RecordedOnce
  <2>2. CASE /\ DOMAIN callGraph' = 1..(Len(callGraph) + 1)
             /\ \A e \in DOMAIN callGraph : callGraph'[e] = callGraph[e]
             /\ \A e \in DOMAIN callGraph :
                  callGraph[e].call # callGraph'[Len(callGraph) + 1].call
    <3>1. Len(callGraph) \in Nat /\ DOMAIN callGraph = 1..Len(callGraph)
      BY GraphFacts DEF ChainInv
    <3>2. \A e \in DOMAIN callGraph' : e = Len(callGraph) + 1 \/ e \in DOMAIN callGraph
      BY <2>2, <3>1
    <3>3. ASSUME NEW e \in DOMAIN callGraph', NEW d \in DOMAIN callGraph',
                 callGraph'[e].call = callGraph'[d].call
          PROVE  e = d
      <4>1. CASE e \in DOMAIN callGraph /\ d \in DOMAIN callGraph
        BY <2>2, <3>3, <4>1 DEF RecordedOnce
      <4>2. CASE e = Len(callGraph) + 1 /\ d \in DOMAIN callGraph
        BY <2>2, <3>3, <4>2
      <4>3. CASE e \in DOMAIN callGraph /\ d = Len(callGraph) + 1
        BY <2>2, <3>3, <4>3
      <4> QED
        BY <3>2, <4>1, <4>2, <4>3
    <3> QED
      BY <3>3 DEF RecordedOnce
  <2> QED
    BY <2>1, <2>2, AddsOne
<1>3. ChainInv /\ RecordedOnce => RecordedOnce
  OBVIOUS
<1> QED
  BY <1>1, <1>2, <1>3, PTL DEF Spec
-----------------------------------------------------------------------------
(* The innermost call of a spine is the only node with what BaseFacts says. *)
LEMMA BaseIsUnique ==
  ASSUME SourceOK, NEW i \in NodesOf, NEW j \in i..Len(ast), OnSpine(i, j),
         j = Len(ast) \/ ast[j + 1].role \notin Spine
  PROVE  Base(i) = j
<1>1. /\ Base(i) \in i..Len(ast) /\ OnSpine(i, Base(i))
      /\ Base(i) = Len(ast) \/ ast[Base(i) + 1].role \notin Spine
  BY BaseFacts
<1>2. i \in Int /\ Len(ast) \in Int
  BY AstFacts
<1>3. PICK b : b = Base(i)
  OBVIOUS
<1>4. b \in Int /\ j \in Int /\ i <= b /\ i <= j /\ b <= Len(ast) /\ j <= Len(ast)
  BY <1>1, <1>2, <1>3
<1>5. ASSUME b < j
      PROVE  FALSE
  <2>1. b + 1 \in (i + 1)..j /\ b # Len(ast)
    BY <1>2, <1>4, <1>5
  <2> QED
    BY <1>1, <1>3, <2>1 DEF OnSpine
<1>6. ASSUME j < b
      PROVE  FALSE
  <2>1. j + 1 \in (i + 1)..b /\ j # Len(ast)
    BY <1>2, <1>4, <1>6
  <2> QED
    BY <1>1, <1>3, <2>1 DEF OnSpine
<1>7. b = j
  BY <1>4, <1>5, <1>6
<1> QED
  BY <1>3, <1>7

(* A chained call has the root variable of its receiver. *)
LEMMA RootOfReceiver ==
  ASSUME SourceOK, NEW i \in NodesOf, HasReceiver(i)
  PROVE  /\ i + 1 \in NodesOf
         /\ RootVariable(i) = RootVariable(i + 1)
<1>1. i + 1 \in NodesOf /\ i \in Int /\ Len(ast) \in Int /\ NodesOf = 1..Len(ast)
  BY AstFacts DEF HasReceiver
<1>2. ast[i + 1].role = "chain"
  BY DEF HasReceiver
<1>3. PICK b : b = Base(i + 1)
  OBVIOUS
<1>4. b \in (i + 1)..Len(ast) /\ OnSpine(i + 1, b) /\ (b = Len(ast) \/ ast[b + 1].role \notin Spine)
  BY <1>1, <1>3, BaseFacts
<1>5. \A k \in (i + 1)..b : k = i + 1 \/ k \in ((i + 1) + 1)..b
  BY <1>1, <1>4
<1>6. OnSpine(i, b)
  <2>1. ASSUME NEW k \in (i + 1)..b
        PROVE  ast[k].role \in Spine
    <3>1. CASE k = i + 1
      BY <1>2, <3>1 DEF Spine
    <3>2. CASE k \in ((i + 1) + 1)..b
      BY <1>4, <3>2 DEF OnSpine
    <3> QED
      BY <1>5, <3>1, <3>2
  <2> QED
    BY <2>1 DEF OnSpine
<1>7. Base(i) = b
  <2>1. b \in i..Len(ast)
    BY <1>1, <1>4
  <2> QED
    BY <1>4, <1>6, <2>1, BaseIsUnique
<1>8. (\A k \in (i + 1)..b : ast[k].role # "curry")
        <=> (\A k \in ((i + 1) + 1)..b : ast[k].role # "curry")
  <2>1. \A k \in ((i + 1) + 1)..b : k \in (i + 1)..b
    BY <1>1, <1>4
  <2> QED
    BY <1>2, <1>5, <2>1
<1> QED
  BY <1>1, <1>3, <1>7, <1>8 DEF RootVariable

(* A call selected from a variable is its own base, and has that variable. *)
LEMMA RootOfVariable ==
  ASSUME SourceOK, NEW i \in NodesOf, ast[i].sel = "var"
  PROVE  RootVariable(i) = i
<1>1. i \in Int /\ Len(ast) \in Int /\ NodesOf = 1..Len(ast)
  BY AstFacts
<1>2. ASSUME i # Len(ast), ast[i + 1].role \in Spine
      PROVE  FALSE
  <2>1. i + 1 \in NodesOf /\ (i + 1) - 1 = i
    BY <1>1, <1>2
  <2>2. SpineLink(ast, i + 1)
    BY <1>2, <2>1, AstFacts DEF Placed
  <2>3. ast[i].sel = "plain"
    BY <2>1, <2>2 DEF SpineLink
  <2> QED
    BY <2>3
<1>3. OnSpine(i, i)
  BY <1>1, OwnSpine
<1>4. Base(i) = i
  <2>1. i \in i..Len(ast)
    BY <1>1
  <2> QED
    BY <1>2, <1>3, <2>1, BaseIsUnique
<1>5. \A k \in (i + 1)..i : FALSE
  BY <1>1
<1> QED
  BY <1>4, <1>5 DEF RootVariable

(* An edge names no other variable than the root of its own chain, and its *)
(* root is right if its parent is its receiver's edge.                     *)
RootPlaced(c) ==
  /\ c.calleeVarName \in {0, RootVariable(c.call)}
  /\ HasReceiver(c.call) /\ c.chainParent \in DOMAIN callGraph
       /\ callGraph[c.chainParent].call = c.call + 1 => c.chainRoot = RootVariable(c.call)

RootsPlaced ==
  \A e \in DOMAIN callGraph : RootPlaced(callGraph[e]) /\ callGraph[e].chainParent < e

(* The last edge of the next graph is all there is to look at. *)
LEMMA RootsStep ==
  ASSUME ChainInv, RootsPlaced, UNCHANGED ast, NEW new,
         Len(callGraph) \in Nat, DOMAIN callGraph = 1..Len(callGraph),
         DOMAIN callGraph' = 1..(Len(callGraph) + 1),
         \A e \in DOMAIN callGraph : callGraph'[e] = callGraph[e],
         callGraph'[Len(callGraph) + 1] = new,
         new.calleeVarName \in {0, RootVariable(new.call)},
         HasReceiver(new.call) /\ new.chainParent \in DOMAIN callGraph
           /\ callGraph[new.chainParent].call = new.call + 1
             => new.chainRoot = RootVariable(new.call),
         new.chainParent \in 0..Len(callGraph)
  PROVE  RootsPlaced'
<1>1. \A i : RootVariable(i)' = RootVariable(i)
  <2>1. \A i : Base(i)' = Base(i)
    BY DEF Base, OnSpine
  <2> QED
    BY <2>1 DEF RootVariable
<1>2. \A e \in DOMAIN callGraph' : e = Len(callGraph) + 1 \/ e \in DOMAIN callGraph
  OBVIOUS
<1>3. ASSUME NEW e \in DOMAIN callGraph'
      PROVE  RootPlaced(callGraph[e])' /\ callGraph'[e].chainParent < e
  <2>1. CASE e = Len(callGraph) + 1
    <3>1. callGraph'[e] = new
      BY <2>1
    <3>2. new.chainParent < e
      BY <2>1
    <3>3. ASSUME HasReceiver(new.call), new.chainParent \in DOMAIN callGraph',
                 callGraph'[new.chainParent].call = new.call + 1
          PROVE  new.chainRoot = RootVariable(new.call)
      <4>1. new.chainParent \in DOMAIN callGraph
        BY <3>3
      <4> QED
        BY <3>3, <4>1
    <3> QED
      BY <1>1, <3>1, <3>2, <3>3, SameSource DEF RootPlaced
  <2>2. CASE e \in DOMAIN callGraph
    <3>1. PICK c : c = callGraph[e]
      OBVIOUS
    <3>2. callGraph'[e] = c /\ RootPlaced(c) /\ c.chainParent < e
      BY <2>2, <3>1 DEF RootsPlaced
    <3>3. c.chainParent \in Nat
      BY <2>2, <3>1, GraphFacts DEF Edge, ChainInv
    <3>4. ASSUME c.chainParent \in DOMAIN callGraph'
          PROVE  c.chainParent \in DOMAIN callGraph
      BY <2>2, <3>2, <3>3, <3>4
    <3> QED
      BY <1>1, <3>2, <3>4, SameSource DEF RootPlaced
  <2> QED
    BY <1>2, <2>1, <2>2
<1> QED
  BY <1>3 DEF RootsPlaced

LEMMA NextRoots ==
  ASSUME ChainInv, RootsPlaced, [Next]_vars
  PROVE  RootsPlaced'
<1>1. Typed /\ Stacked /\ SourceOK
  BY DEF ChainInv, Typed
<1>2. Len(callGraph) \in Nat /\ DOMAIN callGraph = 1..Len(callGraph) /\ Len(ast) \in Nat
      /\ NodesOf = 1..Len(ast)
  BY <1>1, GraphFacts, AstFacts
<1>3. CASE RecordCall
  <2>1. entering # 0 /\ ~HasReceiver(entering) /\ UNCHANGED ast
    BY <1>3 DEF RecordCall
  <2>2. entering \in NodesOf /\ at \in NodesOf
    BY <1>1, <2>1, EnteringFacts
  <2>3. PICK v : v = IF ast[entering].sel = "var" THEN entering ELSE 0
    OBVIOUS
  <2>4. v \in 0..Len(ast) /\ v \in {0, RootVariable(entering)}
    BY <1>1, <1>2, <2>2, <2>3, RootOfVariable
  <2>5. Record(entering, v, 0, v, 0)
    BY <1>3, <2>3 DEF RecordCall
  <2>6. PICK new : new = [call |-> entering, seen |-> at, assigned |-> assignStmt,
               calleeVarName |-> v, chainParent |-> 0, chainRoot |-> v, chainDepth |-> 0]
    OBVIOUS
  <2>7. /\ DOMAIN callGraph' = 1..(Len(callGraph) + 1)
        /\ \A e \in DOMAIN callGraph : callGraph'[e] = callGraph[e]
        /\ callGraph'[Len(callGraph) + 1] = new
    <3>1. 0 \in Nat
      OBVIOUS
    <3> QED
      BY <1>1, <2>1, <2>2, <2>4, <2>5, <2>6, <3>1, RecordFacts
  <2>8. new.call = entering /\ new.calleeVarName = v /\ new.chainParent = 0
    BY <2>6
  <2>9. new.chainParent \in 0..Len(callGraph)
    BY <1>2, <2>8
  <2> QED
    BY <1>2, <2>1, <2>4, <2>7, <2>8, <2>9, RootsStep
<1>4. CASE ResumeChained
  <2>1. pending # <<>> /\ UNCHANGED ast
    BY <1>4 DEF ResumeChained
  <2>2. PICK i : i = Head(pending)
    OBVIOUS
  <2>3. i \in NodesOf /\ i = pending[1] /\ 1 \in DOMAIN pending
    BY <1>1, <2>1, <2>2, PendingFacts
  <2>4. HasReceiver(i)
    BY <1>1, <2>3 DEF Stacked
  <2>5. at \in NodesOf
    BY <1>1, <1>2, <2>1 DEF Typed, Started, TypeOK
  <2>6. PICK p : p = callGraph[Len(callGraph)]
    OBVIOUS
  <2>7. Len(callGraph) \in DOMAIN callGraph
    BY <1>1, <1>4, ResumeRecords
  <2>8. RootPlaced(p)
    BY <2>6, <2>7 DEF RootsPlaced
  <2>9. PICK v \in 0..Len(ast), root \in 0..Len(ast), depth \in Nat :
          /\ Record(i, v, Len(callGraph), root, depth)
          /\ v = Fallback(p, i)
          /\ root = IF v = 0 THEN p.calleeVarName ELSE v
    BY <1>1, <1>4, <2>2, <2>6, ResumeRecords
  <2>10. PICK new : new = [call |-> i, seen |-> at, assigned |-> assignStmt,
               calleeVarName |-> v, chainParent |-> Len(callGraph),
               chainRoot |-> root, chainDepth |-> depth]
    OBVIOUS
  <2>11. /\ DOMAIN callGraph' = 1..(Len(callGraph) + 1)
         /\ \A e \in DOMAIN callGraph : callGraph'[e] = callGraph[e]
         /\ callGraph'[Len(callGraph) + 1] = new
    BY <1>1, <1>2, <2>1, <2>3, <2>5, <2>9, <2>10, RecordFacts
  <2>12. /\ new.call = i /\ new.calleeVarName = v /\ new.chainParent = Len(callGraph)
         /\ new.chainRoot = root
    BY <2>10
  <2>13. v \in {0, RootVariable(i)}
    BY <2>9 DEF Fallback
  <2>14. ASSUME p.call = i + 1
         PROVE  root = RootVariable(i)
    <3>1. RootVariable(i + 1) = RootVariable(i)
      BY <1>1, <2>3, <2>4, RootOfReceiver
    <3>2. p.calleeVarName \in {0, RootVariable(i)}
      BY <2>8, <2>14, <3>1 DEF RootPlaced
    <3> QED
      BY <2>9, <3>2 DEF Fallback
  <2>15. new.chainParent \in 0..Len(callGraph)
    BY <1>2, <2>12
  <2> QED
    BY <1>2, <2>1, <2>6, <2>11, <2>12, <2>13, <2>14, <2>15, RootsStep
<1>5. CASE ~RecordCall /\ ~ResumeChained
  <2>1. UNCHANGED <<ast, callGraph>>
    BY <1>5 DEF Next, vars, OpenFile, InspectAssign, InspectCall, SkipCall, SeenBefore,
              EnterReceiver, IndexOutOfRange, LinkArguments, Ended
  <2>2. \A i : RootVariable(i)' = RootVariable(i)
    <3>1. \A i : Base(i)' = Base(i)
      BY <2>1 DEF Base, OnSpine
    <3> QED
      BY <2>1, <3>1 DEF RootVariable
  <2> QED
    BY <2>1, <2>2, SameSource DEF RootsPlaced, RootPlaced
<1> QED
  BY <1>3, <1>4, <1>5

(* ChainRootIsOwn: whatever the program, a chained call whose receiver has *)
(* an edge is rooted at the variable its own chain starts from.            *)
THEOREM ChainRoots == Spec => []ChainRootIsOwn
<1>1. Init => ChainInv /\ RootsPlaced
  <2>1. Init => DOMAIN callGraph = {}
    BY EmptySeq DEF Init
  <2> QED
    BY <2>1, InitChain DEF RootsPlaced
<1>2. ChainInv /\ RootsPlaced /\ [Next]_vars => (ChainInv /\ RootsPlaced)'
  BY NextChain, NextRoots
<1>3. ChainInv /\ RootsPlaced => ChainRootIsOwn
  <2> SUFFICES ASSUME ChainInv, RootsPlaced, NEW e \in DOMAIN callGraph,
                      HasReceiver(callGraph[e].call), EdgesOf(callGraph[e].call + 1) # {}
               PROVE  callGraph[e].chainRoot = RootVariable(callGraph[e].call)
    BY DEF ChainRootIsOwn
  <2>1. PICK d \in EdgesOf(callGraph[e].call + 1) : TRUE
    OBVIOUS
  <2>2. callGraph[e].chainParent = d
    BY <2>1 DEF ChainInv, ReceiverIsChainParent
  <2>3. d \in DOMAIN callGraph /\ callGraph[d].call = callGraph[e].call + 1
    BY <2>1 DEF EdgesOf
  <2> QED
    BY <2>2, <2>3 DEF RootsPlaced, RootPlaced
<1> QED
  BY <1>1, <1>2, <1>3, PTL DEF Spec

(* The parent and the root of a chained call belong to its own chain,      *)
(* whatever the program.                                                   *)
THEOREM ChainsOwn == Spec => []ChainsAreOwn
  BY ChainParents, ChainRoots, PTL DEF ChainsAreOwn
-----------------------------------------------------------------------------
(* A nonempty set of naturals has a least member. *)
LEMMA LeastNode ==
  ASSUME NEW E, E \subseteq Nat, E # {}
  PROVE  \E j \in E : \A u \in E : j <= u
<1>1. PICK j \in E : \A u \in E : ~(<<u, j>> \in OpToRel(<, Nat))
  BY NatLessThanWellFounded, WFMin
<1>2. ASSUME NEW u \in E
      PROVE  ~(u < j)
  <2>1. u < j => <<u, j>> \in OpToRel(<, Nat)
    BY Zenon DEF OpToRel
  <2> QED
    BY <1>1, <2>1
<1> QED
  BY <1>2

(* Going up a chain, a property that each node hands to the next. *)
LEMMA UpTheChain ==
  ASSUME NEW j \in Nat, NEW i \in Nat, j <= i, NEW F, j \in F,
         \A k \in j..(i - 1) : k \in F => k + 1 \in F
  PROVE  i \in F
<1> DEFINE E == {k \in j..i : k \notin F}
<1>1. SUFFICES ASSUME i \notin F
               PROVE  FALSE
  OBVIOUS
<1>2. E \subseteq Nat /\ i \in E
  BY <1>1
<1>3. PICK k \in E : \A u \in E : k <= u
  BY <1>2, LeastNode
<1>4. k # j /\ k \in j..i
  OBVIOUS
<1>5. k - 1 \in j..(i - 1) /\ (k - 1) + 1 = k /\ ~(k <= k - 1)
  BY <1>4
<1>6. k - 1 \notin E
  BY <1>3, <1>5
<1>7. k - 1 \in F
  BY <1>5, <1>6
<1> QED
  BY <1>5, <1>7

(* And going down. *)
LEMMA DownTheChain ==
  ASSUME NEW i \in Nat, NEW j \in Nat, i <= j, NEW F, j \in F,
         \A k \in (i + 1)..j : k \in F => k - 1 \in F
  PROVE  i \in F
<1> DEFINE E == {k \in i..j : k \in F}
<1>1. E \subseteq Nat /\ j \in E
  OBVIOUS
<1>2. PICK k \in E : \A u \in E : k <= u
  BY <1>1, LeastNode
<1>3. SUFFICES ASSUME k # i
               PROVE  FALSE
  OBVIOUS
<1>4. k \in (i + 1)..j /\ k - 1 \in i..j /\ ~(k <= k - 1)
  BY <1>3
<1>5. k - 1 \in F
  BY <1>4
<1> QED
  BY <1>2, <1>4, <1>5

(* Two nodes of one spine have one innermost call, and only they do. *)
LEMMA SpineHasOneBase ==
  ASSUME SourceOK, NEW j \in NodesOf, NEW i \in NodesOf, j <= i
  PROVE  OnSpine(j, i) <=> Base(j) = Base(i)
<1>1. NodesOf = 1..Len(ast) /\ Len(ast) \in Nat
  BY AstFacts
<1>2. PICK b : b = Base(i)
  OBVIOUS
<1>3. /\ b \in i..Len(ast) /\ OnSpine(i, b)
      /\ b = Len(ast) \/ ast[b + 1].role \notin Spine
  BY <1>2, BaseFacts
<1>4. ASSUME OnSpine(j, i)
      PROVE  Base(j) = b
  <2>1. ASSUME NEW k \in (j + 1)..b
        PROVE  ast[k].role \in Spine
    <3>1. k \in (j + 1)..i \/ k \in (i + 1)..b
      BY <1>1, <1>3
    <3> QED
      BY <1>3, <1>4, <3>1 DEF OnSpine
  <2>2. OnSpine(j, b) /\ b \in j..Len(ast)
    BY <1>1, <1>3, <2>1 DEF OnSpine
  <2> QED
    BY <1>3, <2>2, BaseIsUnique
<1>5. ASSUME Base(j) = b
      PROVE  OnSpine(j, i)
  <2>1. OnSpine(j, b)
    BY <1>5, BaseFacts
  <2>2. \A k \in (j + 1)..i : k \in (j + 1)..b
    BY <1>1, <1>3
  <2> QED
    BY <2>1, <2>2 DEF OnSpine
<1> QED
  BY <1>2, <1>4, <1>5

(* So calls of one spine have one key just when they have one name. *)
LEMMA SpineKeys ==
  ASSUME SourceOK, NEW j \in NodesOf, NEW i \in NodesOf, j <= i
  PROVE  Key(j) = Key(i) <=> ast[j].name = ast[i].name /\ OnSpine(j, i)
BY SpineHasOneBase DEF Key

(* No file stands on a spine but at its beginning. *)
LEMMA NoFileOnSpine ==
  ASSUME SourceOK, NEW j \in NodesOf, NEW i \in NodesOf, OnSpine(j, i),
         NEW k \in (j + 1)..i
  PROVE  k \in NodesOf /\ ast[k].kind # "file"
<1>1. NodesOf = 1..Len(ast) /\ Len(ast) \in Nat
  BY AstFacts
<1>2. k \in NodesOf
  BY <1>1
<1>3. ast[k].role \in Spine
  BY DEF OnSpine
<1> QED
  BY <1>2, <1>3, FileIsNoReceiver
-----------------------------------------------------------------------------
(* Shadowed is a set for which its own definition holds. *)
ShadowedBy(S, i) ==
  \E j \in 1..(i - 1) :
    /\ OnSpine(j, i) /\ IsCall(j) /\ ast[j].name = ast[i].name
    /\ \/ \E k \in (j + 1)..i : ast[k].role # "chain"
       \/ \E k \in (j + 1)..(i - 1) : ~IsCall(k) \/ k \in S

DroppedBy(dropped, i) ==
  \E j \in 1..(i - 1) :
    /\ OnSpine(j, i) /\ IsCall(j) /\ ast[j].name = ast[i].name
    /\ \/ \E k \in (j + 1)..i : ast[k].role # "chain"
       \/ \E k \in (j + 1)..(i - 1) : ~IsCall(k) \/ dropped[k]

SolvesDropped(dropped) == dropped = [i \in NodesOf |-> DroppedBy(dropped, i)]

LEMMA ShadowedIsChosen ==
  Shadowed = {i \in NodesOf : (CHOOSE dropped : SolvesDropped(dropped))[i]}
BY DEF Shadowed, SolvesDropped, DroppedBy

LEMMA ShadowedByMore ==
  ASSUME NEW S, NEW T, S \subseteq T, NEW i, ShadowedBy(S, i)
  PROVE  ShadowedBy(T, i)
BY DEF ShadowedBy

LEMMA ShadowedFacts ==
  ASSUME SourceOK
  PROVE  \A i \in NodesOf : i \in Shadowed <=> ShadowedBy(Shadowed, i)
<1> DEFINE Closed(S) == \A i \in NodesOf : ShadowedBy(S, i) => i \in S
<1> DEFINE D == {i \in NodesOf : \A S \in SUBSET NodesOf : Closed(S) => i \in S}
<1> DEFINE F == {i \in NodesOf : ShadowedBy(D, i)}
<1>1. ASSUME NEW i \in NodesOf, ShadowedBy(D, i)
      PROVE  i \in D
  <2>1. ASSUME NEW S \in SUBSET NodesOf, Closed(S)
        PROVE  i \in S
    <3>1. D \subseteq S
      BY <2>1
    <3>2. ShadowedBy(S, i)
      BY <1>1, <3>1, ShadowedByMore
    <3> QED
      BY <2>1, <3>2
  <2> QED
    BY <2>1
<1>2. ASSUME NEW i \in D
      PROVE  ShadowedBy(D, i)
  <2>1. F \subseteq D
    BY <1>1
  <2>2. Closed(F)
    <3>1. ASSUME NEW n \in NodesOf, ShadowedBy(F, n)
          PROVE  n \in F
      <4>1. ShadowedBy(D, n)
        BY <2>1, <3>1, ShadowedByMore
      <4> QED
        BY <4>1
    <3> QED
      BY <3>1
  <2>3. F \in SUBSET NodesOf
    OBVIOUS
  <2>4. i \in F
    BY <2>2, <2>3
  <2> QED
    BY <2>4
<1>3. \A i \in NodesOf : i \in D <=> ShadowedBy(D, i)
  BY <1>1, <1>2
<1> DEFINE d == [i \in NodesOf |-> i \in D]
<1> HIDE DEF D, F
<1>4. NodesOf = 1..Len(ast) /\ Len(ast) \in Nat
  BY AstFacts
<1>5. ASSUME NEW dropped, NEW S, NEW i \in NodesOf, \A k \in NodesOf : dropped[k] <=> k \in S
      PROVE  DroppedBy(dropped, i) <=> ShadowedBy(S, i)
  <2>1. \A j \in 1..(i - 1) : \A k \in (j + 1)..(i - 1) : k \in NodesOf
    BY <1>4
  <2> QED
    BY <1>5, <2>1 DEF DroppedBy, ShadowedBy
<1>6. SolvesDropped(d)
  <2>1. \A k \in NodesOf : d[k] <=> k \in D
    OBVIOUS
  <2>2. ASSUME NEW i \in NodesOf
        PROVE  (i \in D) = DroppedBy(d, i)
    <3>1. DroppedBy(d, i) <=> i \in D
      BY <1>3, <1>5, <2>1
    <3>2. DroppedBy(d, i) \in BOOLEAN /\ (i \in D) \in BOOLEAN
      BY DEF DroppedBy
    <3> QED
      BY <3>1, <3>2
  <2> QED
    BY <2>2 DEF SolvesDropped
<1>7. PICK c : c = CHOOSE dropped : SolvesDropped(dropped)
  OBVIOUS
<1>8. SolvesDropped(c)
  BY <1>6, <1>7
<1>9. Shadowed = {i \in NodesOf : c[i]}
  BY <1>7, ShadowedIsChosen
<1>10. \A i \in NodesOf : c[i] <=> DroppedBy(c, i)
  BY <1>8, Zenon DEF SolvesDropped
<1>11. \A k \in NodesOf : c[k] <=> k \in Shadowed
  BY <1>9
<1> HIDE DEF d
<1>12. ASSUME NEW i \in NodesOf
       PROVE  i \in Shadowed <=> ShadowedBy(Shadowed, i)
  <2>1. DroppedBy(c, i) <=> ShadowedBy(Shadowed, i)
    BY <1>5, <1>11
  <2> QED
    BY <1>10, <1>11, <2>1
<1> QED
  BY <1>12

LEMMA ShadowedStays ==
  ASSUME UNCHANGED ast
  PROVE  Shadowed' = Shadowed
BY DEF Shadowed, NodesOf, OnSpine, IsCall
-----------------------------------------------------------------------------
Recorded(i) == \E e \in DOMAIN callGraph : callGraph[e].call = i

Processing == entering # 0 \/ pending # <<>>

(* The walk has been at node i and is done with it. *)
Looked(i) == i < at \/ (i = at /\ ~Processing)

(* What the map says of a key is about that key. *)
MapHolds ==
  \A k \in Keys : calleeMap[k] # 0 =>
    /\ calleeMap[k] \in DOMAIN callGraph
    /\ Key(callGraph[calleeMap[k]].call) = k

(* A call that the walk has looked at has its key taken, and its edge *)
(* unless it is shadowed.                                             *)
LookedTaken == \A i \in NodesOf : IsCall(i) /\ Looked(i) => Taken(i)
LookedRecorded ==
  \A i \in NodesOf : IsCall(i) /\ Looked(i) => i \in Shadowed \/ Recorded(i)

(* Only calls that are not shadowed are recorded or wait to be. *)
OwnCall(i) == IsCall(i) /\ i \notin Shadowed
EdgesOwn == \A e \in DOMAIN callGraph : OwnCall(callGraph[e].call)
WaitingOwn == \A m \in DOMAIN pending : OwnCall(pending[m])

(* A chain is recorded from the innermost call out: with a call its        *)
(* receiver, and with a call that the walk had not come to the call around *)
(* it, at the latest when nothing waits any more.                          *)
ReceiverRecorded(i) == OwnCall(i + 1) => Recorded(i + 1)
CallerRecorded(c) ==
  c.call # c.seen => \/ Recorded(c.call - 1)
                     \/ c.seen = at /\ \E m \in DOMAIN pending : pending[m] = c.call - 1

InsideOut ==
  /\ \A e \in DOMAIN callGraph :
       /\ HasReceiver(callGraph[e].call) => ReceiverRecorded(callGraph[e].call)
       /\ CallerRecorded(callGraph[e])
  /\ entering = 0 => \A m \in DOMAIN pending : m = 1 => ReceiverRecorded(pending[m])

OnceInv == MapHolds /\ LookedTaken /\ LookedRecorded /\ EdgesOwn /\ WaitingOwn /\ InsideOut

(* Between the node of the walk and the call that is entered, everything *)
(* is a receiver, and everything above the entered call waits.           *)
LEMMA ChainAbove ==
  ASSUME Typed, Stacked, entering # 0
  PROVE  /\ \A k \in at..(entering - 1) : \E m \in DOMAIN pending : pending[m] = k
         /\ \A k \in (at + 1)..entering : ast[k].role = "chain"
<1>1. /\ at \in Int /\ Len(pending) \in Nat /\ DOMAIN pending = 1..Len(pending)
      /\ \A m \in DOMAIN pending : pending[m] = at + Len(pending) - m
      /\ entering = at + Len(pending)
  BY StackFacts DEF Stacked
<1>2. ASSUME NEW k \in at..(entering - 1)
      PROVE  \E m \in DOMAIN pending : pending[m] = k
  <2>1. entering - k \in DOMAIN pending /\ at + Len(pending) - (entering - k) = k
    BY <1>1
  <2> QED
    BY <1>1, <2>1
<1>3. ASSUME NEW k \in (at + 1)..entering
      PROVE  ast[k].role = "chain"
  <2>1. k - 1 \in at..(entering - 1) /\ (k - 1) + 1 = k
    BY <1>1
  <2>2. PICK m \in DOMAIN pending : pending[m] = k - 1
    BY <1>2, <2>1
  <2>3. HasReceiver(k - 1)
    BY <2>2 DEF Stacked
  <2> QED
    BY <2>1, <2>3 DEF HasReceiver
<1> QED
  BY <1>2, <1>3

(* A call whose key is free when it is entered is not shadowed: no call of *)
(* its name stands further out, for the walk would have been there.        *)
LEMMA EnteredIsOwn ==
  ASSUME ChainInv, OnceInv, entering # 0, IsCall(entering), calleeMap[Key(entering)] = 0
  PROVE  OwnCall(entering)
<1> DEFINE i == entering
<1>1. /\ SourceOK /\ i \in NodesOf /\ i \in Int /\ at \in Int /\ at <= i
      /\ NodesOf = 1..Len(ast) /\ Len(ast) \in Nat
  BY StackFacts, AstFacts DEF ChainInv, Typed
<1>2. SUFFICES ASSUME i \in Shadowed
               PROVE  FALSE
  BY DEF OwnCall
<1>3. PICK j \in 1..(i - 1) :
        /\ OnSpine(j, i) /\ IsCall(j) /\ ast[j].name = ast[i].name
        /\ \/ \E k \in (j + 1)..i : ast[k].role # "chain"
           \/ \E k \in (j + 1)..(i - 1) : ~IsCall(k) \/ k \in Shadowed
  BY <1>1, <1>2, ShadowedFacts DEF ShadowedBy
<1>4. j \in NodesOf /\ j \in Int /\ j <= i
  BY <1>1
<1>5. Key(j) = Key(i)
  BY <1>1, <1>3, <1>4, SpineKeys
<1>6. CASE j < at
  <2>1. Taken(j)
    BY <1>3, <1>4, <1>6 DEF OnceInv, LookedTaken, Looked
  <2>2. FilePassed(j)
    BY <1>5, <2>1 DEF Taken
  <2>3. PICK k \in (j + 1)..at : ast[k].kind = "file"
    BY <2>2 DEF FilePassed
  <2>4. k \in (j + 1)..i
    BY <1>1, <1>4
  <2> QED
    BY <1>1, <1>3, <1>4, <2>3, <2>4, NoFileOnSpine
<1>7. CASE at <= j
  <2>1. \A k \in (j + 1)..i : ast[k].role = "chain"
    <3>1. \A k \in (j + 1)..i : k \in (at + 1)..i
      BY <1>1, <1>4, <1>7
    <3> QED
      BY <3>1, ChainAbove DEF ChainInv
  <2>2. PICK k \in (j + 1)..(i - 1) : ~IsCall(k) \/ k \in Shadowed
    BY <1>3, <2>1
  <2>3. k \in at..(i - 1)
    BY <1>1, <1>4, <1>7
  <2>4. \E m \in DOMAIN pending : pending[m] = k
    BY <2>3, ChainAbove DEF ChainInv
  <2> QED
    BY <2>2, <2>4 DEF OnceInv, WaitingOwn, OwnCall
<1> QED
  BY <1>1, <1>4, <1>6, <1>7

(* A call whose key is taken when it is entered has its edge or is         *)
(* shadowed: the call that took the key is it, or stands on its spine, and *)
(* the chain was recorded between the two.                                 *)
LEMMA FoundIsRecorded ==
  ASSUME ChainInv, OnceInv, entering # 0, IsCall(entering), calleeMap[Key(entering)] # 0
  PROVE  entering \in Shadowed \/ Recorded(entering)
<1> DEFINE i == entering
<1>1. /\ SourceOK /\ i \in NodesOf /\ i \in Nat /\ at \in Int /\ at <= i
      /\ NodesOf = 1..Len(ast) /\ Len(ast) \in Nat
  BY StackFacts, AstFacts DEF ChainInv, Typed
<1>2. SUFFICES ASSUME i \notin Shadowed
               PROVE  Recorded(i)
  OBVIOUS
<1>3. PICK e \in DOMAIN callGraph : Key(callGraph[e].call) = Key(i)
  BY <1>1, KeyIsKey DEF OnceInv, MapHolds
<1>4. PICK j : j = callGraph[e].call
  OBVIOUS
<1>5. j \in NodesOf /\ j \in Nat /\ Recorded(j) /\ Key(j) = Key(i) /\ IsCall(j)
  <2>1. j \in NodesOf
    BY <1>4, AroundEdge DEF ChainInv
  <2> QED
    BY <1>1, <1>3, <1>4, <2>1 DEF Recorded, OnceInv, EdgesOwn, OwnCall
<1> DEFINE F == {k \in NodesOf : Recorded(k)}
<1>6. CASE j < i
  <2>1. OnSpine(j, i) /\ ast[j].name = ast[i].name
    BY <1>1, <1>5, <1>6, SpineKeys
  <2>2. j \in 1..(i - 1)
    BY <1>1, <1>5, <1>6
  <2>3. ~ShadowedBy(Shadowed, i)
    BY <1>1, <1>2, ShadowedFacts
  <2>4. /\ \A k \in (j + 1)..i : ast[k].role = "chain"
        /\ \A k \in (j + 1)..(i - 1) : OwnCall(k)
    BY <1>5, <2>1, <2>2, <2>3 DEF ShadowedBy, OwnCall
  <2>5. ASSUME NEW k \in j..(i - 1), k \in F
        PROVE  k + 1 \in F
    <3>1. k + 1 \in (j + 1)..i /\ k + 1 \in NodesOf /\ k < Len(ast)
      BY <1>1, <1>5
    <3>2. HasReceiver(k)
      BY <2>4, <3>1 DEF HasReceiver
    <3>3. OwnCall(k + 1)
      <4>1. CASE k + 1 = i
        BY <1>2, <4>1 DEF OwnCall
      <4>2. CASE k + 1 # i
        <5>1. k + 1 \in (j + 1)..(i - 1)
          BY <1>1, <1>5, <3>1, <4>2
        <5> QED
          BY <2>4, <5>1
      <4> QED
        BY <4>1, <4>2
    <3>4. PICK d \in DOMAIN callGraph : callGraph[d].call = k
      BY <2>5 DEF Recorded
    <3>5. ReceiverRecorded(k)
      BY <3>2, <3>4 DEF OnceInv, InsideOut
    <3> QED
      BY <3>1, <3>3, <3>5 DEF ReceiverRecorded
  <2>6. j \in F
    BY <1>5
  <2> HIDE DEF F
  <2>7. i \in F
    BY <1>1, <1>5, <1>6, <2>5, <2>6, UpTheChain
  <2> QED
    BY <2>7 DEF F
<1>7. CASE i <= j
  <2>1. ASSUME NEW k \in (i + 1)..j, k \in F
        PROVE  k - 1 \in F
    <3>1. k - 1 \in NodesOf
      BY <1>1, <1>5
    <3>2. PICK d \in DOMAIN callGraph : callGraph[d].call = k
      BY <2>1 DEF Recorded
    <3>3. EdgePlaced(callGraph[d])
      BY DEF ChainInv, EdgesPlaced
    <3>4. callGraph[d].seen <= at /\ callGraph[d].seen # at
      BY <3>3 DEF EdgePlaced
    <3>5. callGraph[d].seen \in Int
      BY <1>1, GraphFacts DEF ChainInv
    <3>6. callGraph[d].call # callGraph[d].seen
      BY <1>1, <3>2, <3>4, <3>5
    <3>7. CallerRecorded(callGraph[d])
      BY DEF OnceInv, InsideOut
    <3> QED
      BY <3>1, <3>2, <3>4, <3>6, <3>7 DEF CallerRecorded
  <2>2. j \in F
    BY <1>5
  <2> HIDE DEF F
  <2>3. i \in F
    BY <1>1, <1>5, <1>7, <2>1, <2>2, DownTheChain
  <2> QED
    BY <2>3 DEF F
<1> QED
  BY <1>1, <1>5, <1>6, <1>7
(* What recording an edge for call i does. *)
Adds(i) ==
  /\ i \in NodesOf /\ at \in NodesOf /\ at <= i /\ OnSpine(at, i) /\ IsCall(i)
  /\ UNCHANGED <<ast, at, open, linked>> /\ entering' = 0
  /\ DOMAIN callGraph' = 1..(Len(callGraph) + 1)
  /\ \A e \in DOMAIN callGraph : callGraph'[e] = callGraph[e]
  /\ callGraph'[Len(callGraph) + 1].call = i
  /\ callGraph'[Len(callGraph) + 1].seen = at
  /\ callGraph'[Len(callGraph) + 1].assigned = assignStmt
  /\ calleeMap' = [calleeMap EXCEPT ![Key(i)] = Len(callGraph) + 1]
  /\ \A m \in DOMAIN pending' : \E n \in DOMAIN pending : pending'[m] = pending[n]
  /\ \A n \in DOMAIN pending : pending[n] = i \/ \E m \in DOMAIN pending' : pending'[m] = pending[n]
  /\ i # at => 1 \in DOMAIN pending' /\ pending'[1] = i - 1
  /\ i = at => DOMAIN pending' = {}
  /\ 1 \in DOMAIN pending' => pending'[1] = i - 1
  /\ \/ /\ RecordCall /\ i = entering /\ entering # 0 /\ ~HasReceiver(i)
        /\ calleeMap[Key(i)] = 0 /\ pending' = pending
     \/ /\ ResumeChained /\ entering = 0 /\ 1 \in DOMAIN pending /\ pending[1] = i
        /\ HasReceiver(i)

LEMMA RecordsAdd ==
  ASSUME ChainInv, RecordCall \/ ResumeChained
  PROVE  \E i \in NodesOf : Adds(i)
<1>1. /\ Typed /\ Stacked /\ Len(callGraph) \in Nat /\ DOMAIN callGraph = 1..Len(callGraph)
      /\ Len(ast) \in Nat /\ NodesOf = 1..Len(ast)
      /\ at \in Int /\ Len(pending) \in Nat /\ DOMAIN pending = 1..Len(pending)
      /\ \A m \in DOMAIN pending : /\ pending[m] \in NodesOf
                                   /\ pending[m] = at + Len(pending) - m /\ at <= pending[m]
  BY GraphFacts, AstFacts, StackFacts DEF ChainInv, Typed
<1>2. ASSUME NEW i \in NodesOf, NEW v \in 0..Len(ast), NEW parent \in Nat,
             NEW root \in 0..Len(ast), NEW depth \in Nat,
             Record(i, v, parent, root, depth), UNCHANGED ast, at \in NodesOf
      PROVE  /\ DOMAIN callGraph' = 1..(Len(callGraph) + 1)
             /\ \A e \in DOMAIN callGraph : callGraph'[e] = callGraph[e]
             /\ callGraph'[Len(callGraph) + 1].call = i
             /\ callGraph'[Len(callGraph) + 1].seen = at
             /\ callGraph'[Len(callGraph) + 1].assigned = assignStmt
  <2>1. /\ DOMAIN callGraph' = 1..(Len(callGraph) + 1)
        /\ \A e \in DOMAIN callGraph : callGraph'[e] = callGraph[e]
        /\ callGraph'[Len(callGraph) + 1] =
              [call |-> i, seen |-> at, assigned |-> assignStmt,
               calleeVarName |-> v, chainParent |-> parent,
               chainRoot |-> root, chainDepth |-> depth]
    BY <1>1, <1>2, RecordFacts
  <2> QED
    BY <2>1
<1>3. CASE RecordCall
  <2> DEFINE i == entering
  <2>1. /\ i # 0 /\ IsCall(i) /\ calleeMap[Key(i)] = 0 /\ ~HasReceiver(i)
        /\ entering' = 0 /\ pending' = pending /\ UNCHANGED <<ast, at, open, linked>>
    BY <1>3 DEF RecordCall, Returned
  <2>2. i \in NodesOf /\ i \in Int /\ at \in NodesOf /\ at <= i /\ i = at + Len(pending)
        /\ OnSpine(at, i)
    BY <1>1, <2>1, StackFacts, EnteringFacts DEF Stacked
  <2>3. PICK v \in 0..Len(ast) : Record(i, v, 0, v, 0)
    <3>1. (IF ast[i].sel = "var" THEN i ELSE 0) \in 0..Len(ast)
      BY <1>1, <2>2
    <3> QED
      BY <1>3, <3>1 DEF RecordCall
  <2>4. /\ DOMAIN callGraph' = 1..(Len(callGraph) + 1)
        /\ \A e \in DOMAIN callGraph : callGraph'[e] = callGraph[e]
        /\ callGraph'[Len(callGraph) + 1].call = i
        /\ callGraph'[Len(callGraph) + 1].seen = at
        /\ callGraph'[Len(callGraph) + 1].assigned = assignStmt
    <3>1. 0 \in Nat /\ UNCHANGED ast
      BY <2>1
    <3> QED
      BY <1>2, <2>2, <2>3, <3>1
  <2>5. calleeMap' = [calleeMap EXCEPT ![Key(i)] = Len(callGraph) + 1]
    BY <2>3 DEF Record
  <2>6. /\ i # at => 1 \in DOMAIN pending
        /\ i = at => DOMAIN pending = {}
        /\ 1 \in DOMAIN pending => pending[1] = i - 1
    BY <1>1, <2>2
  <2>7. Adds(i)
    BY <1>3, <2>1, <2>2, <2>4, <2>5, <2>6 DEF Adds
  <2> QED
    BY <2>2, <2>7
<1>4. CASE ResumeChained
  <2> DEFINE i == Head(pending)
  <2>1. /\ entering = 0 /\ pending # <<>>
        /\ entering' = 0 /\ pending' = Tail(pending) /\ UNCHANGED <<ast, at, open, linked>>
    BY <1>4 DEF ResumeChained, Returned
  <2>2. /\ Len(pending) \in Nat \ {0} /\ i = pending[1] /\ i \in NodesOf
        /\ Tail(pending) \in Seq(NodesOf)
        /\ Len(Tail(pending)) = Len(pending) - 1
        /\ \A m \in 1..(Len(pending) - 1) : Tail(pending)[m] = pending[m + 1]
    BY <1>1, <2>1, PendingFacts
  <2>3. /\ 1 \in DOMAIN pending /\ i = at + Len(pending) - 1 /\ at <= i /\ i \in Int
        /\ OnSpine(at, i) /\ IsCall(i) /\ HasReceiver(i)
    BY <1>1, <2>2 DEF Stacked
  <2>4. at \in NodesOf
    BY <1>1, <2>1 DEF Typed, Started, TypeOK
  <2>5. PICK v \in 0..Len(ast), root \in 0..Len(ast), depth \in Nat :
          Record(i, v, Len(callGraph), root, depth)
    BY <1>1, <1>4, ResumeRecords
  <2>6. /\ DOMAIN callGraph' = 1..(Len(callGraph) + 1)
        /\ \A e \in DOMAIN callGraph : callGraph'[e] = callGraph[e]
        /\ callGraph'[Len(callGraph) + 1].call = i
        /\ callGraph'[Len(callGraph) + 1].seen = at
        /\ callGraph'[Len(callGraph) + 1].assigned = assignStmt
    BY <1>1, <1>2, <2>1, <2>2, <2>4, <2>5
  <2>7. calleeMap' = [calleeMap EXCEPT ![Key(i)] = Len(callGraph) + 1]
    BY <2>5 DEF Record
  <2>8. DOMAIN pending' = 1..(Len(pending) - 1)
    BY <2>1, <2>2, LenProperties
  <2>9. \A m \in DOMAIN pending' : m + 1 \in DOMAIN pending /\ pending'[m] = pending[m + 1]
    BY <1>1, <2>1, <2>2, <2>8
  <2>10. ASSUME NEW n \in DOMAIN pending
         PROVE  pending[n] = i \/ \E m \in DOMAIN pending' : pending'[m] = pending[n]
    <3>1. CASE n = 1
      BY <2>2, <3>1
    <3>2. CASE n # 1
      <4>1. n - 1 \in DOMAIN pending' /\ (n - 1) + 1 = n
        BY <1>1, <2>8, <3>2
      <4> QED
        BY <2>9, <4>1
    <3> QED
      BY <3>1, <3>2
  <2>11. 1 \in DOMAIN pending' => pending'[1] = i - 1
    <3>1. SUFFICES ASSUME 1 \in DOMAIN pending'
                   PROVE  pending'[1] = i - 1
      OBVIOUS
    <3>2. pending'[1] = pending[2] /\ 2 \in DOMAIN pending
      BY <2>9, <3>1
    <3>3. pending[2] = at + Len(pending) - 2
      BY <1>1, <3>2
    <3> QED
      BY <1>1, <2>3, <3>2, <3>3
  <2>12. (i # at => 1 \in DOMAIN pending') /\ (i = at => DOMAIN pending' = {})
    BY <1>1, <2>2, <2>3, <2>8
  <2>13. \A m \in DOMAIN pending' : \E n \in DOMAIN pending : pending'[m] = pending[n]
    BY <2>9
  <2>14. Adds(i)
    BY <1>4, <2>1, <2>2, <2>3, <2>4, <2>6, <2>7, <2>10, <2>11, <2>12, <2>13 DEF Adds
  <2> QED
    BY <2>2, <2>14
<1> QED
  BY <1>3, <1>4

LEMMA RecordedStays ==
  ASSUME NEW i, Recorded(i), DOMAIN callGraph \subseteq DOMAIN callGraph',
         \A e \in DOMAIN callGraph : callGraph'[e] = callGraph[e]
  PROVE  Recorded(i)'
BY DEF Recorded

LEMMA OwnStays ==
  ASSUME UNCHANGED ast
  PROVE  \A i : OwnCall(i)' = OwnCall(i)
BY ShadowedStays, SameSource DEF OwnCall

(* Steps of the walk. *)
LEMMA OnceAdvances ==
  ASSUME ChainInv, OnceInv, entering = 0, pending = <<>>,
         UNCHANGED <<ast, callGraph, pending>>, at' = at + 1, at' \in NodesOf,
         entering' = at' \/ (entering' = 0 /\ ~IsCall(at')),
         UNCHANGED calleeMap \/ (ast[at'].kind = "file" /\ calleeMap' = [k \in Keys |-> 0])
  PROVE  OnceInv'
<1>1. Typed /\ at \in Int /\ at' \in Int /\ at <= at' /\ at' # 0 /\ NodesOf \subseteq Int
  BY StackFacts, AstFacts DEF ChainInv, Typed
<1>2. DOMAIN pending = {} /\ ~Processing
  BY EmptySeq DEF Processing
<1>3. \A i : Recorded(i)' = Recorded(i)
  BY DEF Recorded
<1>4. MapHolds'
  <2>1. CASE UNCHANGED calleeMap
    BY <2>1, SameSource DEF OnceInv, MapHolds
  <2>2. CASE calleeMap' = [k \in Keys |-> 0]
    BY <2>2, SameSource DEF MapHolds
  <2> QED
    BY <2>1, <2>2
<1>5. ASSUME NEW i \in NodesOf, IsCall(i), Looked(i)'
      PROVE  Looked(i) /\ Taken(i)' /\ (i \in Shadowed \/ Recorded(i))
  <2>1. i # at'
    <3>1. SUFFICES ASSUME i = at'
                   PROVE  FALSE
      OBVIOUS
    <3>2. entering' # 0
      BY <1>1, <1>5, <3>1
    <3>3. Processing'
      BY <3>2 DEF Processing
    <3> QED
      BY <1>1, <1>5, <3>1, <3>3 DEF Looked
  <2>2. i < at'
    BY <1>5, <2>1 DEF Looked
  <2>3. i <= at /\ i \in Int
    BY <1>1, <2>2
  <2>4. Looked(i)
    BY <1>1, <1>2, <2>3 DEF Looked
  <2>5. Taken(i)
    BY <1>5, <2>4 DEF OnceInv, LookedTaken
  <2>6. CASE UNCHANGED calleeMap
    BY <1>1, <1>5, <2>4, <2>5, <2>6, TakenStays DEF OnceInv, LookedRecorded
  <2>7. CASE ast[at'].kind = "file"
    <3>1. at' \in (i + 1)..at'
      BY <1>1, <2>2, <2>3
    <3>2. FilePassed(i)'
      BY <2>7, <3>1 DEF FilePassed
    <3> QED
      BY <1>5, <2>4, <3>2 DEF Taken, OnceInv, LookedRecorded
  <2> QED
    BY <2>6, <2>7
<1>6. LookedTaken' /\ LookedRecorded'
  BY <1>3, <1>5, SameSource, ShadowedStays DEF LookedTaken, LookedRecorded
<1>7. EdgesOwn' /\ WaitingOwn'
  BY <1>2, OwnStays DEF OnceInv, EdgesOwn, WaitingOwn
<1>8. InsideOut'
  <2>1. ASSUME NEW e \in DOMAIN callGraph
        PROVE  /\ HasReceiver(callGraph[e].call)' => ReceiverRecorded(callGraph[e].call)'
               /\ CallerRecorded(callGraph[e])'
    <3>1. /\ HasReceiver(callGraph[e].call) => ReceiverRecorded(callGraph[e].call)
          /\ CallerRecorded(callGraph[e])
      BY DEF OnceInv, InsideOut
    <3> QED
      BY <1>2, <1>3, <3>1, OwnStays, SameSource DEF ReceiverRecorded, CallerRecorded
  <2> QED
    BY <1>2, <2>1 DEF InsideOut
<1> QED
  BY <1>4, <1>6, <1>7, <1>8 DEF OnceInv

(* The processing of a call returns without an edge. *)
LEMMA OnceReturns ==
  ASSUME ChainInv, OnceInv, entering # 0, entering' = 0,
         UNCHANGED <<ast, at, calleeMap, callGraph, pending>>,
         ~IsCall(entering) \/ (Taken(entering) /\ (entering \in Shadowed \/ Recorded(entering)))
  PROVE  OnceInv'
<1>1. /\ Typed /\ at \in Int /\ at' \in Int /\ at <= at' /\ NodesOf \subseteq Int
      /\ Len(pending) \in Nat /\ DOMAIN pending = 1..Len(pending) /\ entering \in Int
      /\ \A m \in DOMAIN pending : pending[m] = at + Len(pending) - m
      /\ entering = at + Len(pending)
  BY StackFacts, AstFacts DEF ChainInv, Typed, Stacked
<1>2. \A i : Recorded(i)' = Recorded(i) /\ Taken(i)' = Taken(i)
  BY SameSource DEF Recorded, Taken, FilePassed
<1>3. MapHolds'
  BY SameSource DEF OnceInv, MapHolds
<1>4. ASSUME NEW i \in NodesOf, IsCall(i), Looked(i)'
      PROVE  Taken(i) /\ (i \in Shadowed \/ Recorded(i))
  <2>1. CASE Looked(i)
    BY <1>4, <2>1 DEF OnceInv, LookedTaken, LookedRecorded
  <2>2. CASE ~Looked(i)
    <3>1. i = at /\ pending = <<>>
      BY <1>4, <2>2 DEF Looked, Processing
    <3>2. i = entering
      BY <1>1, <3>1, EmptySeq
    <3> QED
      BY <1>4, <3>2
  <2> QED
    BY <2>1, <2>2
<1>5. LookedTaken' /\ LookedRecorded'
  BY <1>2, <1>4, SameSource, ShadowedStays DEF LookedTaken, LookedRecorded
<1>6. EdgesOwn' /\ WaitingOwn'
  BY OwnStays DEF OnceInv, EdgesOwn, WaitingOwn
<1>7. InsideOut'
  <2>1. ASSUME NEW e \in DOMAIN callGraph
        PROVE  /\ HasReceiver(callGraph[e].call)' => ReceiverRecorded(callGraph[e].call)'
               /\ CallerRecorded(callGraph[e])'
    <3>1. /\ HasReceiver(callGraph[e].call) => ReceiverRecorded(callGraph[e].call)
          /\ CallerRecorded(callGraph[e])
      BY DEF OnceInv, InsideOut
    <3> QED
      BY <1>2, <3>1, OwnStays, SameSource DEF ReceiverRecorded, CallerRecorded
  <2>2. ASSUME 1 \in DOMAIN pending
        PROVE  ReceiverRecorded(pending[1])'
    <3>1. pending[1] + 1 = entering
      BY <1>1, <2>2
    <3> QED
      BY <1>2, <3>1, OwnStays DEF ReceiverRecorded, OwnCall
  <2> QED
    BY <2>1, <2>2 DEF InsideOut
<1> QED
  BY <1>3, <1>5, <1>6, <1>7 DEF OnceInv

LEMMA OnceEnters ==
  ASSUME ChainInv, OnceInv, EnterReceiver
  PROVE  OnceInv'
<1> DEFINE i == entering
<1>1. /\ i # 0 /\ IsCall(i) /\ calleeMap[Key(i)] = 0
      /\ pending' = <<i>> \o pending /\ entering' = i + 1
      /\ UNCHANGED <<ast, at, calleeMap, callGraph>>
  BY DEF EnterReceiver, Waiting
<1>2. /\ Typed /\ at \in Int /\ i \in NodesOf /\ i \in Nat /\ i + 1 # 0
      /\ Len(pending) \in Nat /\ DOMAIN pending = 1..Len(pending)
  BY <1>1, StackFacts, AstFacts DEF ChainInv, Typed
<1>3. /\ DOMAIN pending' = 1..(Len(pending) + 1)
      /\ pending'[1] = i
      /\ \A m \in 2..(Len(pending) + 1) : pending'[m] = pending[m - 1]
      /\ \A m \in 1..Len(pending) : pending'[m + 1] = pending[m]
  <2>1. pending \in Seq(NodesOf)
    BY <1>2, PendingFacts
  <2> QED
    BY <1>1, <1>2, <2>1, PushFacts
<1>4. OwnCall(i)
  BY <1>1, EnteredIsOwn
<1>5. \A j : Recorded(j)' = Recorded(j) /\ Taken(j)' = Taken(j)
  BY <1>1, SameSource DEF Recorded, Taken, FilePassed
<1>6. MapHolds' /\ EdgesOwn'
  BY <1>1, SameSource, OwnStays DEF OnceInv, MapHolds, EdgesOwn
<1>7. LookedTaken' /\ LookedRecorded'
  <2>1. Processing /\ Processing'
    BY <1>1, <1>2 DEF Processing
  <2>2. \A j : Looked(j)' = Looked(j)
    BY <1>1, <2>1 DEF Looked
  <2> QED
    BY <1>1, <1>5, <2>2, SameSource, ShadowedStays DEF OnceInv, LookedTaken, LookedRecorded
<1>8. WaitingOwn'
  <2>1. ASSUME NEW m \in DOMAIN pending'
        PROVE  OwnCall(pending'[m])
    <3>1. CASE m = 1
      BY <1>3, <1>4, <3>1
    <3>2. CASE m # 1
      <4>1. m \in 2..(Len(pending) + 1) /\ m - 1 \in DOMAIN pending
        BY <1>2, <1>3, <3>2
      <4> QED
        BY <1>3, <4>1 DEF OnceInv, WaitingOwn
    <3> QED
      BY <3>1, <3>2
  <2> QED
    BY <1>1, <2>1, OwnStays DEF WaitingOwn
<1>9. InsideOut'
  <2>1. ASSUME NEW e \in DOMAIN callGraph
        PROVE  /\ HasReceiver(callGraph[e].call)' => ReceiverRecorded(callGraph[e].call)'
               /\ CallerRecorded(callGraph[e])'
    <3>1. /\ HasReceiver(callGraph[e].call) => ReceiverRecorded(callGraph[e].call)
          /\ CallerRecorded(callGraph[e])
      BY DEF OnceInv, InsideOut
    <3>2. ASSUME NEW m \in DOMAIN pending
          PROVE  \E n \in DOMAIN pending' : pending'[n] = pending[m]
      <4>1. m + 1 \in DOMAIN pending' /\ pending'[m + 1] = pending[m]
        BY <1>2, <1>3
      <4> QED
        BY <4>1
    <3>3. CallerRecorded(callGraph[e])'
      BY <1>1, <1>5, <3>1, <3>2 DEF CallerRecorded
    <3> QED
      BY <1>1, <1>5, <3>1, <3>3, OwnStays, SameSource DEF ReceiverRecorded
  <2> QED
    BY <1>1, <1>2, <2>1 DEF InsideOut
<1> QED
  BY <1>6, <1>7, <1>8, <1>9 DEF OnceInv

LEMMA OnceAdds ==
  ASSUME ChainInv, OnceInv, NEW i \in NodesOf, Adds(i)
  PROVE  OnceInv'
<1> DEFINE new == Len(callGraph) + 1
<1>1. /\ Typed /\ Len(callGraph) \in Nat /\ DOMAIN callGraph = 1..Len(callGraph)
      /\ UNCHANGED ast /\ at \in Int /\ at' = at /\ at <= at' /\ NodesOf \subseteq Int
  BY GraphFacts, StackFacts, AstFacts DEF ChainInv, Typed, Adds
<1>2. /\ DOMAIN callGraph' = 1..new /\ new \in DOMAIN callGraph'
      /\ DOMAIN callGraph \subseteq DOMAIN callGraph'
      /\ \A e \in DOMAIN callGraph : callGraph'[e] = callGraph[e]
      /\ \A e \in DOMAIN callGraph' : e = new \/ e \in DOMAIN callGraph
      /\ callGraph'[new].call = i /\ callGraph'[new].seen = at
  BY <1>1 DEF Adds
<1>3. OwnCall(i)
  <2>1. CASE RecordCall
    BY <2>1, EnteredIsOwn DEF RecordCall, Adds
  <2>2. CASE ResumeChained
    BY <2>2 DEF ResumeChained, Adds, RecordCall, OnceInv, WaitingOwn
  <2> QED
    BY <2>1, <2>2 DEF Adds
<1>4. Recorded(i)' /\ \A j : Recorded(j) => Recorded(j)'
  BY <1>2, RecordedStays DEF Recorded
<1>5. Key(i) \in Keys /\ calleeMap \in [Keys -> 0..Len(callGraph)]
      /\ calleeMap' = [calleeMap EXCEPT ![Key(i)] = new]
  BY KeyIsKey DEF ChainInv, Typed, TypeOK, Adds
<1>6. /\ calleeMap'[Key(i)] = new /\ new # 0
      /\ \A k \in Keys : k # Key(i) => calleeMap'[k] = calleeMap[k]
      /\ \A k \in Keys : calleeMap[k] # 0 => calleeMap'[k] # 0
  BY <1>1, <1>5
<1>7. MapHolds'
  <2>1. ASSUME NEW k \in Keys, calleeMap'[k] # 0
        PROVE  calleeMap'[k] \in DOMAIN callGraph' /\ Key(callGraph'[calleeMap'[k]].call) = k
    <3>1. CASE k = Key(i)
      BY <1>2, <1>6, <3>1
    <3>2. CASE k # Key(i)
      <4>1. calleeMap'[k] = calleeMap[k]
        BY <1>6, <3>2
      <4>2. calleeMap[k] \in DOMAIN callGraph /\ Key(callGraph[calleeMap[k]].call) = k
        BY <2>1, <4>1 DEF OnceInv, MapHolds
      <4> QED
        BY <1>2, <4>1, <4>2
    <3> QED
      BY <3>1, <3>2
  <2> QED
    BY <1>1, <2>1, SameSource DEF MapHolds
<1>8. Taken(i)' /\ \A j \in NodesOf : Taken(j) => Taken(j)'
  <2>1. Taken(i)'
    BY <1>1, <1>6, SameSource DEF Taken
  <2>2. ASSUME NEW j \in NodesOf, Taken(j)
        PROVE  Taken(j)'
    BY <1>1, <1>6, <2>2, TakenStays
  <2> QED
    BY <2>1, <2>2
<1>9. ASSUME NEW j \in NodesOf, IsCall(j), Looked(j)'
      PROVE  Taken(j)' /\ (j \in Shadowed \/ Recorded(j)')
  <2>1. CASE Looked(j)
    BY <1>4, <1>8, <1>9, <2>1 DEF OnceInv, LookedTaken, LookedRecorded
  <2>2. CASE ~Looked(j)
    <3>1. j = at /\ pending' = <<>>
      BY <1>1, <1>9, <2>2 DEF Looked, Processing
    <3>2. DOMAIN pending' = {}
      BY <3>1, EmptySeq
    <3>3. j = i
      BY <3>1, <3>2 DEF Adds
    <3> QED
      BY <1>4, <1>8, <3>3
  <2> QED
    BY <2>1, <2>2
<1>10. LookedTaken' /\ LookedRecorded'
  BY <1>1, <1>9, SameSource, ShadowedStays DEF LookedTaken, LookedRecorded
<1>11. EdgesOwn'
  <2>1. ASSUME NEW e \in DOMAIN callGraph'
        PROVE  OwnCall(callGraph'[e].call)
    <3>1. CASE e = new
      BY <1>2, <1>3, <3>1
    <3>2. CASE e \in DOMAIN callGraph
      BY <1>2, <3>2 DEF OnceInv, EdgesOwn
    <3> QED
      BY <1>2, <3>1, <3>2
  <2> QED
    BY <1>1, <2>1, OwnStays DEF EdgesOwn
<1>12. WaitingOwn'
  <2>1. \A m \in DOMAIN pending' : OwnCall(pending'[m])
    BY DEF OnceInv, WaitingOwn, Adds
  <2> QED
    BY <1>1, <2>1, OwnStays DEF WaitingOwn
<1>13. InsideOut'
  <2>1. ASSUME NEW e \in DOMAIN callGraph'
        PROVE  /\ HasReceiver(callGraph'[e].call) => ReceiverRecorded(callGraph[e].call)'
               /\ CallerRecorded(callGraph[e])'
    <3>1. CASE e = new
      <4>1. ASSUME HasReceiver(i)
            PROVE  OwnCall(i + 1) => Recorded(i + 1)'
        <5>1. entering = 0 /\ 1 \in DOMAIN pending /\ pending[1] = i
          BY <4>1 DEF Adds
        <5>2. ReceiverRecorded(i)
          BY <5>1 DEF OnceInv, InsideOut
        <5> QED
          BY <1>4, <5>2 DEF ReceiverRecorded
      <4>2. i # at => 1 \in DOMAIN pending' /\ pending'[1] = i - 1
        BY DEF Adds
      <4>3. CallerRecorded(callGraph[e])'
        BY <1>1, <1>2, <3>1, <4>2 DEF CallerRecorded
      <4>4. OwnCall(i + 1)' = OwnCall(i + 1)
        BY <1>1, OwnStays
      <4> QED
        BY <1>2, <3>1, <4>1, <4>3, <4>4 DEF ReceiverRecorded
    <3>2. CASE e \in DOMAIN callGraph
      <4>1. PICK c : c = callGraph[e]
        OBVIOUS
      <4>2. callGraph'[e] = c
        BY <1>2, <3>2, <4>1
      <4>3. HasReceiver(c.call) => ReceiverRecorded(c.call)
        BY <3>2, <4>1 DEF OnceInv, InsideOut
      <4>4. CallerRecorded(c)
        BY <3>2, <4>1 DEF OnceInv, InsideOut
      <4>5. \A n \in DOMAIN pending : pending[n] = i \/ \E m \in DOMAIN pending' : pending'[m] = pending[n]
        BY DEF Adds
      <4>6. c.call # c.seen => \/ Recorded(c.call - 1)'
                               \/ c.seen = at /\ \E m \in DOMAIN pending' : pending'[m] = c.call - 1
        BY <1>4, <4>4, <4>5 DEF CallerRecorded
      <4>7. CallerRecorded(callGraph[e])'
        BY <1>1, <4>2, <4>6 DEF CallerRecorded
      <4>8. HasReceiver(c.call) => (OwnCall(c.call + 1) => Recorded(c.call + 1)')
        BY <1>4, <4>3 DEF ReceiverRecorded
      <4>9. OwnCall(c.call + 1)' = OwnCall(c.call + 1) /\ c' = c
        BY <1>1, <4>1, OwnStays
      <4> QED
        BY <4>2, <4>7, <4>8, <4>9 DEF ReceiverRecorded
    <3> QED
      BY <1>2, <3>1, <3>2
  <2>2. ASSUME 1 \in DOMAIN pending'
        PROVE  ReceiverRecorded(pending[1])'
    <3>1. pending'[1] = i - 1 /\ (i - 1) + 1 = i
      BY <1>1, <2>2 DEF Adds
    <3> QED
      BY <1>4, <3>1 DEF ReceiverRecorded
  <2> QED
    BY <1>1, <2>1, <2>2, SameSource DEF InsideOut
<1> QED
  BY <1>7, <1>10, <1>11, <1>12, <1>13 DEF OnceInv
LEMMA InitOnce ==
  ASSUME Init
  PROVE  OnceInv
<1>1. Typed
  BY InitTyped
<1>2. DOMAIN callGraph = {} /\ DOMAIN pending = {} /\ at = 0
  BY EmptySeq DEF Init
<1>3. \A k \in Keys : calleeMap[k] = 0
  BY Zenon DEF Init
<1>4. NodesOf \subseteq Nat \ {0}
  BY <1>1, AstFacts DEF Typed
<1>5. ASSUME NEW i \in NodesOf
      PROVE  ~Looked(i)
  BY <1>2, <1>4 DEF Looked
<1> QED
  BY <1>2, <1>3, <1>5
  DEF OnceInv, MapHolds, LookedTaken, LookedRecorded, EdgesOwn, WaitingOwn, InsideOut

LEMMA NextOnce ==
  ASSUME ChainInv, OnceInv, [Next]_vars
  PROVE  OnceInv'
<1>1. /\ Typed /\ at \in Nat /\ Len(ast) \in Nat /\ NodesOf = 1..Len(ast)
      /\ at < Len(ast) => at + 1 \in NodesOf
  <2>1. Len(ast) \in Nat /\ at \in 0..Len(ast) /\ NodesOf = 1..Len(ast)
    BY AstFacts DEF ChainInv, Typed, TypeOK
  <2> QED
    BY <2>1 DEF ChainInv
<1>2. CASE OpenFile
  <2>1. /\ pending = <<>> /\ entering = 0 /\ UNCHANGED <<ast, callGraph, pending>>
        /\ at' = at + 1 /\ entering' = 0 /\ at < Len(ast) /\ ast[at'].kind = "file"
        /\ calleeMap' = [k \in Keys |-> 0]
    BY <1>2 DEF OpenFile, Inspecting, Coming
  <2>2. at' \in NodesOf /\ ~IsCall(at')
    BY <1>1, <2>1 DEF IsCall
  <2> QED
    BY <2>1, <2>2, OnceAdvances
<1>3. CASE InspectAssign
  <2>1. /\ pending = <<>> /\ entering = 0 /\ UNCHANGED <<ast, callGraph, pending, calleeMap>>
        /\ at' = at + 1 /\ entering' = 0 /\ at < Len(ast) /\ ast[at'].kind = "assign"
    BY <1>3 DEF InspectAssign, Inspecting, Coming
  <2>2. at' \in NodesOf /\ ~IsCall(at')
    BY <1>1, <2>1 DEF IsCall
  <2> QED
    BY <2>1, <2>2, OnceAdvances
<1>4. CASE InspectCall
  <2>1. /\ pending = <<>> /\ entering = 0 /\ UNCHANGED <<ast, callGraph, pending, calleeMap>>
        /\ at' = at + 1 /\ entering' = at' /\ at < Len(ast)
    BY <1>4 DEF InspectCall, Inspecting, Coming
  <2>2. at' \in NodesOf
    BY <1>1, <2>1
  <2> QED
    BY <2>1, <2>2, OnceAdvances
<1>5. CASE SkipCall
  <2>1. /\ entering # 0 /\ ~IsCall(entering) /\ entering' = 0
        /\ UNCHANGED <<ast, at, calleeMap, callGraph, pending>>
    BY <1>5 DEF SkipCall, Returned, IsCall
  <2> QED
    BY <2>1, OnceReturns
<1>6. CASE SeenBefore
  <2>1. /\ entering # 0 /\ IsCall(entering) /\ calleeMap[Key(entering)] # 0 /\ entering' = 0
        /\ UNCHANGED <<ast, at, calleeMap, callGraph, pending>>
    BY <1>6 DEF SeenBefore, Returned
  <2>2. entering \in Shadowed \/ Recorded(entering)
    BY <2>1, FoundIsRecorded
  <2>3. Taken(entering)
    BY <2>1 DEF Taken
  <2> QED
    BY <2>1, <2>2, <2>3, OnceReturns
<1>7. CASE EnterReceiver
  BY <1>7, OnceEnters
<1>8. CASE RecordCall \/ ResumeChained
  BY <1>8, RecordsAdd, OnceAdds
<1>9. CASE IndexOutOfRange \/ LinkArguments \/ UNCHANGED vars
  <2>1. UNCHANGED <<ast, at, entering, pending, calleeMap, callGraph>>
    BY <1>9 DEF IndexOutOfRange, LinkArguments, vars
  <2>2. \A i : /\ Taken(i)' = Taken(i) /\ Recorded(i)' = Recorded(i)
               /\ Looked(i)' = Looked(i)
    BY <2>1, SameSource DEF Taken, FilePassed, Recorded, Looked, Processing
  <2>3. MapHolds' /\ EdgesOwn' /\ WaitingOwn'
    BY <2>1, SameSource, OwnStays DEF OnceInv, MapHolds, EdgesOwn, WaitingOwn
  <2>4. LookedTaken' /\ LookedRecorded'
    BY <2>1, <2>2, SameSource, ShadowedStays DEF OnceInv, LookedTaken, LookedRecorded
  <2>5. InsideOut'
    BY <2>1, <2>2, SameSource, OwnStays DEF OnceInv, InsideOut, ReceiverRecorded, CallerRecorded
  <2> QED
    BY <2>3, <2>4, <2>5 DEF OnceInv
<1> QED
  BY <1>2, <1>3, <1>4, <1>5, <1>6, <1>7, <1>8, <1>9 DEF Next, Ended
-----------------------------------------------------------------------------
(* The walk remembers an assignment just until it has been through the     *)
(* call that follows, and processes calls only inside a file.              *)
AssignHeld == assignStmt # 0 => at = IF Processing THEN assignStmt + 1 ELSE assignStmt
AssignsPlaced ==
  \A e \in DOMAIN callGraph :
    callGraph[e].assigned # 0 => callGraph[e].seen = callGraph[e].assigned + 1
AssignInv == (Processing => open) /\ AssignHeld /\ AssignsPlaced

LEMMA InitAssign ==
  ASSUME Init
  PROVE  AssignInv
<1>1. DOMAIN callGraph = {}
  BY EmptySeq DEF Init
<1> QED
  BY <1>1 DEF Init, AssignInv, Processing, AssignHeld, AssignsPlaced

LEMMA NextAssign ==
  ASSUME ChainInv, AssignInv, [Next]_vars
  PROVE  AssignInv'
<1>1. CASE RecordCall \/ ResumeChained
  <2>1. PICK i \in NodesOf : Adds(i)
    BY <1>1, RecordsAdd
  <2>2. Processing /\ open /\ open' = open /\ entering' = 0 /\ at' = at
    BY <1>1, <2>1 DEF AssignInv, Processing, Adds, RecordCall, ResumeChained
  <2>3. \/ pending' = <<>> /\ assignStmt' = 0
        \/ pending' # <<>> /\ assignStmt' = assignStmt
    <3>1. PICK waiting : Returned(waiting)
      BY <1>1, Zenon DEF RecordCall, ResumeChained
    <3> QED
      BY <3>1 DEF Returned
  <2>4. AssignHeld'
    BY <2>2, <2>3 DEF AssignInv, AssignHeld, Processing
  <2>5. ASSUME NEW e \in DOMAIN callGraph', callGraph'[e].assigned # 0
        PROVE  callGraph'[e].seen = callGraph'[e].assigned + 1
    <3>1. e = Len(callGraph) + 1 \/ e \in DOMAIN callGraph
      BY <2>1, GraphFacts DEF ChainInv, Adds
    <3>2. CASE e = Len(callGraph) + 1
      BY <2>1, <2>2, <2>5, <3>2 DEF Adds, AssignInv, AssignHeld
    <3>3. CASE e \in DOMAIN callGraph
      BY <2>1, <2>5, <3>3 DEF Adds, AssignInv, AssignsPlaced
    <3> QED
      BY <3>1, <3>2, <3>3
  <2> QED
    BY <2>2, <2>4, <2>5 DEF AssignInv, AssignsPlaced
<1>2. CASE OpenFile \/ InspectAssign \/ InspectCall
  <2>1. UNCHANGED callGraph /\ ~Processing /\ at' = at + 1 /\ pending' = <<>> /\ open'
    BY <1>2 DEF OpenFile, InspectAssign, InspectCall, Inspecting, Processing, AssignInv
  <2>2. at \in Nat
    BY AstFacts DEF ChainInv, Typed, TypeOK
  <2>3. AssignHeld'
    <3>1. CASE OpenFile
      BY <3>1 DEF OpenFile, AssignHeld
    <3>2. CASE InspectAssign
      BY <2>1, <3>2 DEF InspectAssign, Inspecting, AssignHeld, Processing
    <3>3. CASE InspectCall
      BY <2>1, <2>2, <3>3 DEF InspectCall, AssignHeld, Processing, AssignInv
    <3> QED
      BY <1>2, <3>1, <3>2, <3>3
  <2> QED
    BY <2>1, <2>3 DEF AssignInv, AssignsPlaced
<1>3. CASE SkipCall \/ SeenBefore
  <2>1. /\ UNCHANGED <<callGraph, at, open>> /\ entering' = 0 /\ Processing
        /\ \/ pending' = <<>> /\ assignStmt' = 0
           \/ pending' # <<>> /\ assignStmt' = assignStmt
    BY <1>3 DEF SkipCall, SeenBefore, Returned, Processing
  <2> QED
    BY <2>1 DEF AssignInv, AssignHeld, AssignsPlaced, Processing
<1>4. CASE EnterReceiver
  <2>1. UNCHANGED <<callGraph, at, open, assignStmt>> /\ Processing /\ entering' = entering + 1
    BY <1>4 DEF EnterReceiver, Processing
  <2>2. entering \in NodesOf /\ NodesOf \subseteq Nat \ {0}
    BY <1>4, EnteringFacts, AstFacts DEF EnterReceiver, ChainInv, Typed
  <2>3. Processing'
    BY <2>1, <2>2 DEF Processing
  <2> QED
    BY <2>1, <2>3 DEF AssignInv, AssignHeld, AssignsPlaced
<1>5. CASE IndexOutOfRange \/ LinkArguments \/ UNCHANGED vars
  <2>1. UNCHANGED <<callGraph, at, assignStmt, entering, pending>>
        /\ (UNCHANGED open \/ ~Processing)
    BY <1>5 DEF IndexOutOfRange, LinkArguments, vars, Inspecting, Processing
  <2> QED
    BY <2>1 DEF AssignInv, AssignHeld, AssignsPlaced, Processing
<1> QED
  BY <1>1, <1>2, <1>3, <1>4, <1>5 DEF Next, Ended

(* The other way round: the walk has not forgotten the assignment that it  *)
(* has just met when it comes to the call behind it.                       *)
AssignKept ==
  /\ Processing => ast[at].kind # "assign"
  /\ open => \A a \in NodesOf :
       ast[a].kind = "assign" /\ at = (IF Processing THEN a + 1 ELSE a) => assignStmt = a
AssignsReach ==
  \A e \in DOMAIN callGraph : \A a \in NodesOf :
    ast[a].kind = "assign" /\ callGraph[e].seen = a + 1 => callGraph[e].assigned = a
ReachInv == AssignKept /\ AssignsReach

LEMMA InitReach ==
  ASSUME Init
  PROVE  ReachInv
<1>1. DOMAIN callGraph = {}
  BY EmptySeq DEF Init
<1> QED
  BY <1>1 DEF Init, ReachInv, Processing, AssignKept, AssignsReach

LEMMA NextReach ==
  ASSUME ChainInv, AssignInv, ReachInv, [Next]_vars
  PROVE  ReachInv'
<1>1. NodesOf \subseteq Int /\ at \in Int
  BY AstFacts, StackFacts DEF ChainInv, Typed
<1>2. ast' = ast => NodesOf' = NodesOf
  BY DEF NodesOf
<1>3. CASE RecordCall \/ ResumeChained
  <2>1. PICK i \in NodesOf : Adds(i)
    BY <1>3, RecordsAdd
  <2>2. Processing /\ open /\ entering' = 0 /\ UNCHANGED <<ast, at, open>>
    BY <1>3, <2>1 DEF AssignInv, Processing, Adds, RecordCall, ResumeChained
  <2>3. \/ pending' = <<>> /\ assignStmt' = 0
        \/ pending' # <<>> /\ assignStmt' = assignStmt
    <3>1. PICK waiting : Returned(waiting)
      BY <1>3, Zenon DEF RecordCall, ResumeChained
    <3> QED
      BY <3>1 DEF Returned
  <2>4. AssignKept'
    BY <1>2, <2>2, <2>3 DEF ReachInv, AssignKept, Processing
  <2>5. ASSUME NEW e \in DOMAIN callGraph', NEW a \in NodesOf,
               ast[a].kind = "assign", callGraph'[e].seen = a + 1
        PROVE  callGraph'[e].assigned = a
    <3>1. e = Len(callGraph) + 1 \/ e \in DOMAIN callGraph
      BY <2>1, GraphFacts DEF ChainInv, Adds
    <3>2. CASE e = Len(callGraph) + 1
      BY <2>1, <2>2, <2>5, <3>2 DEF Adds, ReachInv, AssignKept
    <3>3. CASE e \in DOMAIN callGraph
      BY <2>1, <2>5, <3>3 DEF Adds, ReachInv, AssignsReach
    <3> QED
      BY <3>1, <3>2, <3>3
  <2> QED
    BY <1>2, <2>2, <2>4, <2>5 DEF ReachInv, AssignsReach
<1>4. CASE OpenFile \/ InspectAssign \/ InspectCall
  <2>1. UNCHANGED <<ast, callGraph>> /\ ~Processing /\ at' = at + 1 /\ pending' = <<>> /\ open'
    BY <1>4 DEF OpenFile, InspectAssign, InspectCall, Inspecting, Processing, AssignInv
  <2>2. AssignKept'
    <3>1. CASE OpenFile
      <4>1. ast[at'].kind = "file" /\ ~Processing'
        BY <2>1, <3>1 DEF OpenFile, Coming, Processing, Inspecting
      <4> QED
        BY <2>1, <4>1 DEF AssignKept
    <3>2. CASE InspectAssign
      <4>1. assignStmt' = at' /\ ~Processing'
        BY <2>1, <3>2 DEF InspectAssign, Processing, Inspecting
      <4> QED
        BY <2>1, <4>1 DEF AssignKept
    <3>3. CASE InspectCall
      <4>1. at \in Nat
        BY AstFacts DEF ChainInv, Typed, TypeOK
      <4>2. /\ assignStmt' = assignStmt /\ open /\ open' = open /\ ast' = ast
            /\ entering' = at + 1 /\ at' = at + 1
            /\ ast[at + 1].kind \in {"call", "skip"}
        BY <3>3 DEF InspectCall, Coming
      <4>3. Processing' /\ ast'[at'].kind # "assign"
        BY <4>1, <4>2 DEF Processing
      <4>4. ASSUME NEW a \in NodesOf, ast[a].kind = "assign", at' = a + 1
            PROVE  assignStmt' = a
        <5>1. a = at
          BY <1>1, <4>1, <4>2, <4>4
        <5> QED
          BY <2>1, <4>2, <4>4, <5>1 DEF ReachInv, AssignKept
      <4> QED
        BY <1>2, <4>2, <4>3, <4>4 DEF AssignKept
    <3> QED
      BY <1>4, <3>1, <3>2, <3>3
  <2> QED
    BY <1>2, <2>1, <2>2 DEF ReachInv, AssignsReach
<1>5. CASE SkipCall \/ SeenBefore
  <2>1. /\ UNCHANGED <<ast, callGraph, at, open>> /\ entering' = 0 /\ Processing
        /\ \/ pending' = <<>> /\ assignStmt' = 0
           \/ pending' # <<>> /\ assignStmt' = assignStmt
    BY <1>5 DEF SkipCall, SeenBefore, Returned, Processing
  <2> QED
    BY <1>2, <2>1 DEF ReachInv, AssignKept, AssignsReach, Processing
<1>6. CASE EnterReceiver
  <2>1. UNCHANGED <<ast, callGraph, at, open, assignStmt>> /\ Processing
        /\ entering' = entering + 1
    BY <1>6 DEF EnterReceiver, Processing
  <2>2. entering \in NodesOf /\ NodesOf \subseteq Nat \ {0}
    BY <1>6, EnteringFacts, AstFacts DEF EnterReceiver, ChainInv, Typed
  <2>3. Processing'
    BY <2>1, <2>2 DEF Processing
  <2> QED
    BY <1>2, <2>1, <2>3 DEF ReachInv, AssignKept, AssignsReach
<1>7. CASE IndexOutOfRange \/ LinkArguments \/ UNCHANGED vars
  <2>1. UNCHANGED <<ast, callGraph, at, assignStmt, entering, pending>>
        /\ (UNCHANGED open \/ ~open')
    BY <1>7 DEF IndexOutOfRange, LinkArguments, vars
  <2> QED
    BY <1>2, <2>1 DEF ReachInv, AssignKept, AssignsReach, Processing
<1> QED
  BY <1>3, <1>4, <1>5, <1>6, <1>7 DEF Next, Ended

(* A call right behind an assignment begins a spine, so its edge is from   *)
(* the visit that found the assignment.                                    *)
LEMMA AssignmentsReachCalls ==
  ASSUME ChainInv, OnceInv, ReachInv
  PROVE  AssignmentReachesCall
<1> SUFFICES ASSUME NEW e \in DOMAIN callGraph, NEW c, c = callGraph[e],
                    NEW i \in {c.call, c.seen}, ast[i - 1].kind = "assign"
             PROVE  c.assigned = i - 1
  BY DEF AssignmentReachesCall
<1>1. /\ SourceOK /\ c.call \in NodesOf /\ c.seen \in NodesOf /\ c.seen <= c.call
      /\ OnSpine(c.seen, c.call) /\ NodesOf = 1..Len(ast) /\ Len(ast) \in Nat
  BY AroundEdge, AstFacts DEF ChainInv, Typed
<1>2. i # 1
  <2>1. c.seen # 1
    <3>1. IsCall(c.call) /\ ast[1].kind = "file"
      BY <1>1 DEF OnceInv, EdgesOwn, OwnCall, SourceOK, WellFormed
    <3>2. c.call # 1
      BY <3>1 DEF IsCall
    <3>3. c.seen = 1 => 2 \in (c.seen + 1)..c.call
      BY <1>1, <3>2
    <3>4. c.seen = 1 => ast[2].role \in Spine /\ 2 \in NodesOf /\ 2 - 1 = 1
      BY <1>1, <3>3 DEF OnSpine
    <3>5. c.seen = 1 => ast[1].kind \in {"call", "skip"}
      BY <1>1, <3>4, AstFacts DEF Placed, SpineLink
    <3> QED
      BY <3>1, <3>5
  <2> QED
    BY <1>1, <2>1
<1>3. i - 1 \in NodesOf /\ i - 1 \in Int /\ (i - 1) + 1 = i
  BY <1>1, <1>2
<1>4. c.seen = i
  <2>1. SUFFICES ASSUME i = c.call, c.seen # c.call
                 PROVE  FALSE
    OBVIOUS
  <2>2. i \in (c.seen + 1)..c.call
    BY <1>1, <2>1
  <2>3. ast[i].role \in Spine
    BY <1>1, <2>2 DEF OnSpine
  <2>4. ast[i - 1].kind \in {"call", "skip"}
    BY <1>1, <2>1, <2>3, AstFacts DEF Placed, SpineLink
  <2> QED
    BY <2>4
<1> QED
  BY <1>3, <1>4 DEF ReachInv, AssignsReach

(* Of a recorded call with an assignment, the walk came to the chain right *)
(* behind the assignment.                                                  *)
LEMMA AssignmentsAreTakenOnce ==
  ASSUME ChainInv, AssignInv
  PROVE  AssignmentTakenOnce
<1> SUFFICES ASSUME NEW e \in DOMAIN callGraph, NEW a, a = callGraph[e].assigned, a # 0
             PROVE  /\ HasCall(a) => Inside(callGraph[e].call, a)
                    /\ \A d \in DOMAIN callGraph :
                         callGraph[d].assigned = a => callGraph[d].seen = callGraph[e].seen
  BY DEF AssignmentTakenOnce
<1>1. PICK c : c = callGraph[e]
  OBVIOUS
<1>2. /\ SourceOK /\ c \in Edge /\ c.call \in NodesOf /\ a \in Nat
      /\ c.seen = a + 1 /\ OnSpine(c.seen, c.call)
      /\ NodesOf = 1..Len(ast) /\ Len(ast) \in Nat
  <2>1. c \in Edge /\ SourceOK
    BY <1>1, GraphFacts DEF ChainInv, Typed
  <2>2. a \in Nat
    BY <1>1, <2>1, AstFacts DEF Edge
  <2> QED
    BY <1>1, <2>1, <2>2, AroundEdge, AstFacts DEF ChainInv, AssignInv, AssignsPlaced
<1>3. ASSUME HasCall(a), NEW k \in (a + 1)..c.call
      PROVE  ast[k].up >= a
  <2>1. k \in NodesOf /\ k \in Int
    BY <1>2
  <2>2. CASE k = a + 1
    <3>1. PICK i \in (a + 1)..Len(ast) : Inside(i, a)
      BY <1>3 DEF HasCall
    <3>2. k \in (a + 1)..i
      BY <1>2, <2>2
    <3> QED
      BY <3>1, <3>2 DEF Inside
  <2>3. CASE k # a + 1
    <3>1. k \in (c.seen + 1)..c.call
      BY <1>2, <2>1, <2>3
    <3>2. ast[k].role \in Spine
      BY <1>2, <3>1 DEF OnSpine
    <3>3. ast[k].up = k - 1
      BY <1>2, <2>1, <3>2, AstFacts DEF Placed, SpineLink
    <3> QED
      BY <1>2, <2>1, <2>3, <3>3
  <2> QED
    BY <2>2, <2>3
<1>4. ASSUME NEW d \in DOMAIN callGraph, callGraph[d].assigned = a
      PROVE  callGraph[d].seen = c.seen
  BY <1>2, <1>4 DEF AssignInv, AssignsPlaced
<1> QED
  BY <1>1, <1>3, <1>4 DEF Inside

(* At the end the walk has looked at every node. *)
LEMMA EveryCallHasOne ==
  ASSUME ChainInv, RecordedOnce, OnceInv, AssignInv
  PROVE  EachCallOnce
<1> SUFFICES ASSUME Done, NEW i \in NodesOf
             PROVE  /\ Cardinality(EdgesOf(i)) <= IF IsCall(i) THEN 1 ELSE 0
                    /\ IsCall(i) /\ i \notin Shadowed => Cardinality(EdgesOf(i)) = 1
  BY DEF EachCallOnce
<1>1. NodesOf = 1..Len(ast) /\ Len(ast) \in Nat
  BY AstFacts DEF ChainInv, Typed
<1>2. Looked(i)
  <2>1. i \in Int /\ (i < at \/ i = at) /\ ~Processing
    BY <1>1 DEF Done, AssignInv
  <2> QED
    BY <2>1 DEF Looked
<1>3. CASE OwnCall(i)
  <2>1. PICK e \in DOMAIN callGraph : callGraph[e].call = i
    BY <1>2, <1>3 DEF OwnCall, OnceInv, LookedRecorded, Recorded
  <2>2. EdgesOf(i) = {e}
    BY <2>1 DEF EdgesOf, RecordedOnce
  <2>3. Cardinality({e}) = 1
    BY FS_Singleton
  <2> QED
    BY <1>3, <2>2, <2>3 DEF OwnCall
<1>4. CASE ~OwnCall(i)
  <2>1. EdgesOf(i) = {}
    BY <1>4 DEF EdgesOf, OnceInv, EdgesOwn
  <2> QED
    BY <1>4, <2>1, FS_EmptySet DEF OwnCall
<1> QED
  BY <1>3, <1>4

LEMMA OnceHolds == Spec => [](ChainInv /\ OnceInv /\ AssignInv /\ ReachInv)
<1>1. Init => ChainInv /\ OnceInv /\ AssignInv /\ ReachInv
  BY InitChain, InitOnce, InitAssign, InitReach
<1>2. ChainInv /\ OnceInv /\ AssignInv /\ ReachInv /\ [Next]_vars
        => (ChainInv /\ OnceInv /\ AssignInv /\ ReachInv)'
  BY NextChain, NextOnce, NextAssign, NextReach
<1> QED
  BY <1>1, <1>2, PTL DEF Spec

(* CallsAreRecorded: in the end, however its chains interleave with the    *)
(* walk, no call has two edges, every call that is not shadowed has one,   *)
(* and no other node has any.  An assignment is with the call that follows *)
(* on it and with that call's chain, with nothing outside if there is a    *)
(* call in it.                                                             *)
THEOREM EveryCallRecorded == Spec => []CallsAreRecorded
<1>1. ChainInv /\ OnceInv /\ AssignInv /\ ReachInv /\ RecordedOnce => CallsAreRecorded
  BY AssignmentsAreTakenOnce, AssignmentsReachCalls, EveryCallHasOne DEF CallsAreRecorded
<1> QED
  BY <1>1, OnceHolds, NoCallTwice, PTL
-----------------------------------------------------------------------------
(* An argument begins a spine, so no two arguments have one ID. *)
LEMMA ArgumentFacts ==
  ASSUME SourceOK, NEW i \in NodesOf, NEW j \in ArgsOf(i)
  PROVE  /\ j \in NodesOf /\ i \in Nat \ {0} /\ j \in Nat /\ i < j
         /\ ast[j].up = i /\ ast[j].role \notin Spine /\ ast[j].kind # "file"
         /\ ArgID(j) = Key(j) /\ ArgID(j) \in Keys
         /\ \A k \in (i + 1)..j : ast[k].kind # "file"
<1>1. /\ j \in NodesOf /\ ast[j].up = i /\ ast[j].role = "arg" /\ Placed(ast, j)
      /\ NodesOf = 1..Len(ast) /\ Len(ast) \in Nat
  BY AstFacts DEF ArgsOf
<1>2. i < j /\ i \in Nat \ {0} /\ j \in Nat /\ ast[j].kind # "file"
  BY <1>1 DEF Placed
<1>3. ASSUME NEW k \in (i + 1)..j
      PROVE  ast[k].kind # "file"
  <2>1. CASE k = j
    BY <1>2, <2>1
  <2>2. CASE k # j
    <3>1. k \in (i + 1)..(j - 1) /\ k \in NodesOf
      BY <1>1, <1>2, <2>2
    <3>2. ast[k].up >= i
      BY <1>1, <1>2, <3>1 DEF Placed
    <3>3. ast[k].up # 0
      BY <1>2, <3>2
    <3> QED
      BY <3>1, <3>3, AstFacts DEF Placed
  <2> QED
    BY <2>1, <2>2
<1>4. ArgID(j) = Key(j) /\ ArgID(j) \in Keys
  BY <1>1, KeyIsKey DEF ArgID, Key
<1> QED
  BY <1>1, <1>2, <1>3, <1>4 DEF Spine

LEMMA NoSpineEndsIn ==
  ASSUME SourceOK, NEW j \in NodesOf, ast[j].role \notin Spine, NEW i \in NodesOf, i <= j,
         OnSpine(i, j)
  PROVE  i = j
<1>1. NodesOf = 1..Len(ast) /\ Len(ast) \in Nat
  BY AstFacts
<1>2. i # j => j \in (i + 1)..j
  BY <1>1
<1> QED
  BY <1>2 DEF OnSpine

LEMMA ArgumentsDiffer ==
  ASSUME SourceOK, NEW i \in NodesOf, NEW n \in NodesOf,
         NEW j \in ArgsOf(i), NEW k \in ArgsOf(n), ArgID(j) = ArgID(k)
  PROVE  i = n
<1>1. /\ j \in NodesOf /\ k \in NodesOf /\ j \in Nat /\ k \in Nat /\ Key(j) = Key(k)
      /\ ast[j].role \notin Spine /\ ast[k].role \notin Spine
      /\ ast[j].up = i /\ ast[k].up = n
  BY ArgumentFacts
<1>2. CASE j <= k
  BY <1>1, <1>2, SpineKeys, NoSpineEndsIn
<1>3. CASE k <= j
  BY <1>1, <1>3, SpineKeys, NoSpineEndsIn
<1> QED
  BY <1>1, <1>2, <1>3

(* A visit changes the argument objects of its own call only. *)
LEMMA MakeEdgeArgs ==
  ASSUME SourceOK, NEW i \in NodesOf, MakeEdge(i)
  PROVE  /\ \A j \in ArgsOf(i) : argMap'[ArgID(j)] = ThisVisit(i)
         /\ \A n \in NodesOf : n # i =>
              \A j \in ArgsOf(n) : argMap'[ArgID(j)] = argMap[ArgID(j)]
<1>1. \A k \in Keys : argMap'[k] = IF \E j \in ArgsOf(i) : ArgID(j) = k
                                   THEN ThisVisit(i) ELSE argMap[k]
  BY Zenon DEF MakeEdge
<1>2. ASSUME NEW j \in ArgsOf(i)
      PROVE  argMap'[ArgID(j)] = ThisVisit(i)
  BY <1>1, ArgumentFacts
<1>3. ASSUME NEW n \in NodesOf, n # i, NEW j \in ArgsOf(n)
      PROVE  argMap'[ArgID(j)] = argMap[ArgID(j)]
  <2>1. ArgID(j) \in Keys
    BY ArgumentFacts
  <2>2. ~\E k \in ArgsOf(i) : ArgID(k) = ArgID(j)
    BY <1>3, ArgumentsDiffer
  <2> QED
    BY <1>1, <2>1, <2>2
<1> QED
  BY <1>2, <1>3

LEMMA SameArguments ==
  ASSUME UNCHANGED ast
  PROVE  \A i : ArgsOf(i)' = ArgsOf(i) /\ ArgID(i)' = ArgID(i)
<1>1. \A i : ArgsOf(i)' = ArgsOf(i)
  BY DEF ArgsOf, NodesOf
<1>2. \A i : Base(i)' = Base(i)
  BY DEF Base, OnSpine
<1>3. \A i : ArgID(i)' = ArgID(i)
  BY <1>2 DEF ArgID
<1> QED
  BY <1>1, <1>3

VisitOf(c) == [call |-> c.call, seen |-> c.seen]

(* The objects of the arguments of a call that the walk reached first are  *)
(* those of that visit, until the next file; those of a call the walk is   *)
(* at and that waits are those of this visit.                              *)
ArgsHeld ==
  /\ \A e \in DOMAIN callGraph : callGraph[e].seen = callGraph[e].call =>
       \A j \in ArgsOf(callGraph[e].call) :
         FilePassed(callGraph[e].call) \/ argMap[ArgID(j)] = VisitOf(callGraph[e])
  /\ \A m \in DOMAIN pending : pending[m] = at =>
       \A j \in ArgsOf(at) : argMap[ArgID(j)] = ThisVisit(at)

(* The key of a call that waits is taken, if at all, since the walk came *)
(* to its chain.                                                         *)
WaitingFree ==
  \A m \in DOMAIN pending : \A e \in DOMAIN callGraph :
    Key(callGraph[e].call) = Key(pending[m]) => callGraph[e].seen = at

(* The argument and the edge are linked, or will be at the end of the file. *)
LinkHeld(c, j, d) ==
  \/ [arg |-> VisitOf(c), key |-> ArgID(j), edge |-> d] \in linked
  \/ open /\ argMap[ArgID(j)] = VisitOf(c) /\ calleeMap[Key(j)] = d

LinksHeld ==
  \A e \in DOMAIN callGraph : callGraph[e].seen = callGraph[e].call =>
    \A j \in ArgsOf(callGraph[e].call) : \A d \in DOMAIN callGraph :
      callGraph[d].call = j => LinkHeld(callGraph[e], j, d)

LinkInv == ArgsHeld /\ WaitingFree /\ LinksHeld

(* The edge of an argument is recorded when the walk comes to it. *)
LEMMA ArgumentSeen ==
  ASSUME ChainInv, NEW i \in NodesOf, NEW j \in ArgsOf(i), NEW d \in DOMAIN callGraph,
         callGraph[d].call = j
  PROVE  callGraph[d].seen = j
<1>1. PICK c : c = callGraph[d]
  OBVIOUS
<1>2. SourceOK /\ c.seen \in NodesOf /\ c.seen <= j /\ OnSpine(c.seen, j)
  BY <1>1, AroundEdge DEF ChainInv, Typed
<1>3. j \in NodesOf /\ ast[j].role \notin Spine
  BY <1>2, ArgumentFacts
<1> QED
  BY <1>1, <1>2, <1>3, NoSpineEndsIn

(* A free key has no edge: its call would be of this file. *)
LEMMA FreeKeyHasNoEdge ==
  ASSUME ChainInv, entering # 0, calleeMap[Key(entering)] = 0, NEW e \in DOMAIN callGraph
  PROVE  Key(callGraph[e].call) # Key(entering)
<1> DEFINE i == entering
<1>1. SUFFICES ASSUME Key(callGraph[e].call) = Key(i)
               PROVE  FALSE
  OBVIOUS
<1>2. PICK c : c = callGraph[e]
  OBVIOUS
<1>3. /\ SourceOK /\ c.call \in NodesOf /\ c.call \in Int /\ i \in NodesOf /\ i \in Int
      /\ at \in Int /\ at <= i /\ Taken(c.call)
  BY <1>2, AroundEdge, StackFacts DEF ChainInv, Typed, EdgesPlaced, EdgePlaced
<1>4. FilePassed(c.call)
  BY <1>1, <1>2, <1>3 DEF Taken
<1>5. PICK k \in (c.call + 1)..at : ast[k].kind = "file"
  BY <1>4 DEF FilePassed
<1>6. c.call <= i /\ k \in (c.call + 1)..i
  BY <1>3
<1>7. OnSpine(c.call, i)
  BY <1>1, <1>2, <1>3, <1>6, SpineKeys
<1> QED
  BY <1>3, <1>5, <1>6, <1>7, NoFileOnSpine

(* No call is being processed that the walk reached first and recorded. *)
LEMMA EnteredIsAnother ==
  ASSUME ChainInv, entering # 0, NEW e \in DOMAIN callGraph,
         callGraph[e].seen = callGraph[e].call
  PROVE  callGraph[e].call # entering
<1>1. PICK c : c = callGraph[e]
  OBVIOUS
<1>2. c.call \in Int /\ at \in Int /\ c.seen <= at /\ entering \in Int /\ at <= entering
  BY <1>1, AroundEdge, StackFacts DEF ChainInv
<1>3. c.seen # at
  BY <1>1 DEF ChainInv, EdgesPlaced, EdgePlaced
<1> QED
  BY <1>1, <1>2, <1>3

(* Steps that leave the maps and the graph as they are. *)
LEMMA LinksRest ==
  ASSUME ChainInv, LinkInv,
         UNCHANGED <<ast, open, pending, argMap, calleeMap, callGraph, linked>>,
         at' \in Int, at <= at', at' = at \/ pending = <<>>
  PROVE  LinkInv'
<1>1. NodesOf \subseteq Int /\ at \in Int /\ (pending = <<>> => DOMAIN pending = {})
  BY AstFacts, StackFacts, EmptySeq DEF ChainInv, Typed
<1>2. ASSUME NEW i \in NodesOf, FilePassed(i)
      PROVE  FilePassed(i)'
  <2>1. PICK k \in (i + 1)..at : ast[k].kind = "file"
    BY <1>2 DEF FilePassed
  <2>2. k \in (i + 1)..at'
    BY <1>1
  <2> QED
    BY <2>1, <2>2 DEF FilePassed
<1>3. ArgsHeld'
  <2>1. ASSUME NEW e \in DOMAIN callGraph, callGraph[e].seen = callGraph[e].call,
               NEW j \in ArgsOf(callGraph[e].call)
        PROVE  FilePassed(callGraph[e].call)' \/ argMap[ArgID(j)] = VisitOf(callGraph[e])
    <3>1. callGraph[e].call \in NodesOf
      BY GraphFacts DEF ChainInv
    <3> QED
      BY <1>2, <2>1, <3>1 DEF LinkInv, ArgsHeld
  <2>2. ASSUME NEW m \in DOMAIN pending, pending[m] = at'
        PROVE  at' = at /\ \A j \in ArgsOf(at) : argMap[ArgID(j)] = ThisVisit(at)
    BY <1>1, <2>2 DEF LinkInv, ArgsHeld
  <2> QED
    BY <2>1, <2>2, SameArguments DEF ArgsHeld, VisitOf, ThisVisit
<1>4. WaitingFree' /\ LinksHeld'
  BY <1>1, SameArguments, SameSource
  DEF LinkInv, WaitingFree, LinksHeld, LinkHeld, VisitOf
<1> QED
  BY <1>3, <1>4 DEF LinkInv
(* The walk comes to another file, when all links of the last are made. *)
LEMMA LinksOpen ==
  ASSUME ChainInv, LinkInv, OpenFile
  PROVE  LinkInv'
<1>1. /\ ~open /\ pending = <<>> /\ at' = at + 1 /\ ast[at'].kind = "file"
      /\ UNCHANGED <<ast, pending, callGraph, linked>>
  BY DEF OpenFile, Inspecting, Coming
<1>2. NodesOf \subseteq Int /\ at \in Int /\ DOMAIN pending = {}
  BY <1>1, AstFacts, StackFacts, EmptySeq DEF ChainInv, Typed
<1>3. ArgsHeld'
  <2>1. ASSUME NEW e \in DOMAIN callGraph
        PROVE  FilePassed(callGraph[e].call)' \/ callGraph[e].seen # callGraph[e].call
    <3>1. PICK c : c = callGraph[e]
      OBVIOUS
    <3>2. c.call \in Int /\ c.seen <= at /\ c' = c
      BY <3>1, AroundEdge, <1>1 DEF ChainInv
    <3>3. SUFFICES ASSUME c.seen = c.call
                   PROVE  FilePassed(c.call)'
      BY <1>1, <3>1
    <3>4. at' \in (c.call + 1)..at'
      BY <1>1, <1>2, <3>2, <3>3
    <3> QED
      BY <1>1, <3>2, <3>4 DEF FilePassed
  <2> QED
    BY <1>1, <1>2, <2>1 DEF ArgsHeld
<1>4. WaitingFree'
  BY <1>1, <1>2 DEF WaitingFree
<1>5. LinksHeld'
  BY <1>1, SameArguments DEF LinkInv, LinksHeld, LinkHeld, VisitOf
<1> QED
  BY <1>3, <1>4, <1>5 DEF LinkInv

(* A visit that records nothing, or not yet. *)
LEMMA LinksVisit ==
  ASSUME ChainInv, LinkInv, SeenBefore \/ EnterReceiver
  PROVE  LinkInv'
<1> DEFINE i == entering
<1>1. /\ i # 0 /\ MakeEdge(i) /\ UNCHANGED <<ast, at, open, calleeMap, callGraph, linked>>
      /\ \/ pending' = pending
         \/ pending' = <<i>> \o pending /\ calleeMap[Key(i)] = 0
  BY DEF SeenBefore, EnterReceiver, Returned, Waiting
<1>2. /\ Typed /\ SourceOK /\ i \in NodesOf /\ i \in Int /\ at \in Int /\ at \in NodesOf
      /\ i = at + Len(pending)
      /\ Len(pending) \in Nat /\ DOMAIN pending = 1..Len(pending)
      /\ pending \in Seq(NodesOf)
  BY <1>1, StackFacts, EnteringFacts, PendingFacts DEF ChainInv, Stacked, Typed
<1>3. \A n \in NodesOf : n # i =>
        \A j \in ArgsOf(n) : argMap'[ArgID(j)] = argMap[ArgID(j)]
  BY <1>1, <1>2, MakeEdgeArgs
<1>4. \A n : FilePassed(n)' = FilePassed(n)
  BY <1>1 DEF FilePassed
<1>5. ASSUME NEW e \in DOMAIN callGraph, callGraph[e].seen = callGraph[e].call,
             NEW j \in ArgsOf(callGraph[e].call)
      PROVE  argMap'[ArgID(j)] = argMap[ArgID(j)]
  <2>1. callGraph[e].call \in NodesOf
    BY <1>2, GraphFacts
  <2> QED
    BY <1>1, <1>3, <1>5, <2>1, EnteredIsAnother
<1>6. ASSUME NEW m \in DOMAIN pending', m # 1 \/ pending' = pending
      PROVE  \E n \in DOMAIN pending : pending'[m] = pending[n]
  <2>1. CASE pending' = pending
    BY <2>1
  <2>2. CASE pending' = <<i>> \o pending /\ m # 1
    <3>1. /\ DOMAIN pending' = 1..(Len(pending) + 1)
          /\ \A k \in 2..(Len(pending) + 1) : pending'[k] = pending[k - 1]
      BY <1>2, <2>2, PushFacts
    <3>2. m \in 2..(Len(pending) + 1) /\ m - 1 \in DOMAIN pending
      BY <1>2, <2>2, <3>1
    <3> QED
      BY <3>1, <3>2
  <2> QED
    BY <1>1, <1>6, <2>1, <2>2
<1>7. ASSUME 1 \in DOMAIN pending', pending' # pending
      PROVE  pending'[1] = i /\ calleeMap[Key(i)] = 0
  BY <1>1, <1>2, <1>7, PushFacts
<1>8. ASSUME NEW n \in DOMAIN pending, pending[n] = at
      PROVE  at # i
  BY <1>2, <1>8
<1>9. ArgsHeld'
  <2>1. ASSUME NEW e \in DOMAIN callGraph, callGraph[e].seen = callGraph[e].call,
               NEW j \in ArgsOf(callGraph[e].call)
        PROVE  FilePassed(callGraph[e].call) \/ argMap'[ArgID(j)] = VisitOf(callGraph[e])
    BY <1>5, <2>1 DEF LinkInv, ArgsHeld
  <2>2. ASSUME NEW m \in DOMAIN pending', pending'[m] = at, NEW j \in ArgsOf(at)
        PROVE  argMap'[ArgID(j)] = ThisVisit(at)
    <3>1. CASE m # 1 \/ pending' = pending
      <4>1. PICK n \in DOMAIN pending : pending'[m] = pending[n]
        BY <1>6, <3>1
      <4>2. at # i /\ argMap[ArgID(j)] = ThisVisit(at)
        BY <1>8, <2>2, <4>1 DEF LinkInv, ArgsHeld
      <4> QED
        BY <1>2, <1>3, <4>2
    <3>2. CASE m = 1 /\ pending' # pending
      <4>1. at = i
        BY <1>7, <2>2, <3>2
      <4> QED
        BY <1>1, <1>2, <4>1, MakeEdgeArgs
    <3> QED
      BY <3>1, <3>2
  <2> QED
    BY <1>1, <1>4, <2>1, <2>2, SameArguments DEF ArgsHeld, VisitOf, ThisVisit
<1>10. WaitingFree'
  <2>1. ASSUME NEW m \in DOMAIN pending', NEW e \in DOMAIN callGraph,
               Key(callGraph[e].call) = Key(pending'[m])
        PROVE  callGraph[e].seen = at
    <3>1. CASE m # 1 \/ pending' = pending
      BY <1>6, <2>1, <3>1 DEF LinkInv, WaitingFree
    <3>2. CASE m = 1 /\ pending' # pending
      BY <1>1, <1>7, <2>1, <3>2, FreeKeyHasNoEdge
    <3> QED
      BY <3>1, <3>2
  <2> QED
    BY <1>1, <2>1, SameSource DEF WaitingFree
<1>11. LinksHeld'
  <2>1. ASSUME NEW e \in DOMAIN callGraph, callGraph[e].seen = callGraph[e].call,
               NEW j \in ArgsOf(callGraph[e].call), NEW d \in DOMAIN callGraph,
               callGraph[d].call = j
        PROVE  \/ [arg |-> VisitOf(callGraph[e]), key |-> ArgID(j), edge |-> d] \in linked
               \/ open /\ argMap'[ArgID(j)] = VisitOf(callGraph[e]) /\ calleeMap[Key(j)] = d
    BY <1>5, <2>1 DEF LinkInv, LinksHeld, LinkHeld
  <2> QED
    BY <1>1, <2>1, SameArguments, SameSource DEF LinksHeld, LinkHeld, VisitOf
<1> QED
  BY <1>9, <1>10, <1>11 DEF LinkInv

(* An edge is recorded. *)
LEMMA LinksAdd ==
  ASSUME ChainInv, LinkInv, AssignInv, [Next]_vars, RecordCall \/ ResumeChained
  PROVE  LinkInv'
<1>1. PICK i \in NodesOf : Adds(i)
  BY RecordsAdd
<1> DEFINE new == Len(callGraph) + 1
<1>2. /\ Typed /\ SourceOK /\ UNCHANGED <<ast, at, open, linked>> /\ open
      /\ at \in NodesOf /\ at \in Int /\ i \in Int /\ at <= i
      /\ Len(callGraph) \in Nat /\ DOMAIN callGraph = 1..Len(callGraph)
      /\ DOMAIN callGraph' = 1..new /\ new \in DOMAIN callGraph'
      /\ \A e \in DOMAIN callGraph : callGraph'[e] = callGraph[e]
      /\ \A e \in DOMAIN callGraph' : e = new \/ e \in DOMAIN callGraph
      /\ callGraph'[new].call = i /\ callGraph'[new].seen = at
  <2>1. Typed /\ SourceOK /\ Len(callGraph) \in Nat /\ DOMAIN callGraph = 1..Len(callGraph)
        /\ NodesOf \subseteq Int
    BY GraphFacts, AstFacts DEF ChainInv, Typed
  <2>2. open
    BY DEF RecordCall, ResumeChained, AssignInv, Processing
  <2> QED
    BY <1>1, <2>1, <2>2 DEF Adds
<1>3. \A e \in DOMAIN callGraph : callGraph[e].call # i
  BY <1>1, <1>2, AddsOne DEF Adds, RecordCall, ResumeChained
<1>4. /\ \A n \in NodesOf : n # i =>
           \A j \in ArgsOf(n) : argMap'[ArgID(j)] = argMap[ArgID(j)]
      /\ i = at => \A j \in ArgsOf(at) : argMap'[ArgID(j)] = ThisVisit(at)
  <2>1. CASE RecordCall
    <3>1. MakeEdge(i)
      BY <1>1, <2>1 DEF Adds, RecordCall, ResumeChained
    <3> QED
      BY <1>2, <3>1, MakeEdgeArgs
  <2>2. CASE ResumeChained
    <3>1. 1 \in DOMAIN pending /\ pending[1] = i /\ argMap' = argMap
      BY <1>1, <2>2 DEF Adds, RecordCall, ResumeChained
    <3> QED
      BY <3>1 DEF LinkInv, ArgsHeld
  <2> QED
    BY <2>1, <2>2
<1>5. \A n : FilePassed(n)' = FilePassed(n)
  BY <1>2 DEF FilePassed
<1>6. ArgsHeld'
  <2>1. ASSUME NEW e \in DOMAIN callGraph', callGraph'[e].seen = callGraph'[e].call,
               NEW j \in ArgsOf(callGraph'[e].call)
        PROVE  FilePassed(callGraph'[e].call) \/ argMap'[ArgID(j)] = VisitOf(callGraph'[e])
    <3>1. CASE e = new
      BY <1>2, <1>4, <2>1, <3>1 DEF VisitOf, ThisVisit
    <3>2. CASE e \in DOMAIN callGraph
      <4>1. callGraph'[e] = callGraph[e] /\ callGraph[e].call \in NodesOf
            /\ callGraph[e].call # i
        BY <1>2, <1>3, <3>2, GraphFacts
      <4> QED
        BY <1>4, <2>1, <3>2, <4>1 DEF LinkInv, ArgsHeld
    <3> QED
      BY <1>2, <3>1, <3>2
  <2>2. ASSUME NEW m \in DOMAIN pending', pending'[m] = at, NEW j \in ArgsOf(at)
        PROVE  argMap'[ArgID(j)] = ThisVisit(at)
    <3>1. at # i /\ \E n \in DOMAIN pending : pending'[m] = pending[n]
      BY <1>1 DEF Adds
    <3>2. argMap[ArgID(j)] = ThisVisit(at)
      BY <2>2, <3>1 DEF LinkInv, ArgsHeld
    <3> QED
      BY <1>2, <1>4, <3>1, <3>2
  <2>3. \A n : VisitOf(n) = [call |-> n.call, seen |-> n.seen]
    BY DEF VisitOf
  <2> QED
    BY <1>2, <1>5, <2>1, <2>2, SameArguments DEF ArgsHeld, VisitOf, ThisVisit
<1>7. WaitingFree'
  <2>1. ASSUME NEW m \in DOMAIN pending', NEW e \in DOMAIN callGraph',
               Key(callGraph'[e].call) = Key(pending'[m])
        PROVE  callGraph'[e].seen = at
    <3>1. \E n \in DOMAIN pending : pending'[m] = pending[n]
      BY <1>1 DEF Adds
    <3> QED
      BY <1>2, <2>1, <3>1 DEF LinkInv, WaitingFree
  <2> QED
    BY <1>2, <2>1, SameSource DEF WaitingFree
<1>8. ASSUME NEW n \in NodesOf, NEW j \in ArgsOf(n), NEW d \in DOMAIN callGraph,
             callGraph[d].call = j, calleeMap[Key(j)] = d
      PROVE  calleeMap'[Key(j)] = d
  <2>1. j \in NodesOf /\ Key(j) \in Keys /\ d # 0
    BY <1>2, <1>8, ArgumentFacts, KeyIsKey
  <2>2. calleeMap' = [calleeMap EXCEPT ![Key(i)] = new] /\ calleeMap \in [Keys -> 0..Len(callGraph)]
    BY <1>1, <1>2 DEF Adds, Typed, TypeOK
  <2>3. Key(j) # Key(i)
    <3>1. CASE RecordCall
      BY <1>1, <1>8, <2>1, <3>1 DEF Adds, RecordCall, ResumeChained
    <3>2. CASE ResumeChained
      <4>1. 1 \in DOMAIN pending /\ pending[1] = i
        BY <1>1, <3>2 DEF Adds, RecordCall, ResumeChained
      <4>2. SUFFICES ASSUME Key(j) = Key(i)
                     PROVE  FALSE
        OBVIOUS
      <4>3. callGraph[d].seen = at
        BY <1>8, <4>1, <4>2 DEF LinkInv, WaitingFree
      <4>4. j = at
        BY <1>8, <4>3, ArgumentSeen
      <4>5. Len(pending) \in DOMAIN pending /\ pending[Len(pending)] = at
        <5>1. /\ Len(pending) \in Nat /\ DOMAIN pending = 1..Len(pending)
              /\ \A m \in DOMAIN pending : pending[m] = at + Len(pending) - m
          BY <1>2, StackFacts DEF ChainInv
        <5>2. Len(pending) \in DOMAIN pending
          BY <4>1, <5>1
        <5>3. pending[Len(pending)] = at + Len(pending) - Len(pending)
          BY <5>1, <5>2
        <5> QED
          BY <1>2, <5>1, <5>2, <5>3
      <4> QED
        BY <1>8, <4>4, <4>5 DEF ChainInv, WaitingClean
    <3> QED
      BY <3>1, <3>2
  <2> QED
    BY <1>8, <2>1, <2>2, <2>3
<1>9. LinksHeld'
  <2>1. ASSUME NEW e \in DOMAIN callGraph', callGraph'[e].seen = callGraph'[e].call,
               NEW j \in ArgsOf(callGraph'[e].call), NEW d \in DOMAIN callGraph',
               callGraph'[d].call = j
        PROVE  \/ [arg |-> VisitOf(callGraph'[e]), key |-> ArgID(j), edge |-> d] \in linked
               \/ open /\ argMap'[ArgID(j)] = VisitOf(callGraph'[e]) /\ calleeMap'[Key(j)] = d
    <3>1. PICK c : c = callGraph'[e]
      OBVIOUS
    <3>2. c.call \in NodesOf
      <4>1. CASE e = new
        BY <1>2, <3>1, <4>1
      <4>2. CASE e \in DOMAIN callGraph
        BY <1>2, <3>1, <4>2, GraphFacts
      <4> QED
        BY <1>2, <4>1, <4>2
    <3>3. /\ j \in NodesOf /\ j \in Nat /\ c.call \in Nat /\ c.call < j
          /\ ast[j].role \notin Spine
          /\ \A k \in (c.call + 1)..j : ast[k].kind # "file"
      <4>1. PICK n \in NodesOf : n = c.call
        BY <3>2
      <4>2. j \in ArgsOf(n) /\ SourceOK
        BY <1>2, <2>1, <3>1, <4>1
      <4>3. /\ j \in NodesOf /\ j \in Nat /\ n \in Nat /\ n < j
            /\ ast[j].role \notin Spine
            /\ \A k \in (n + 1)..j : ast[k].kind # "file"
        BY <4>2, ArgumentFacts
      <4> QED
        BY <4>1, <4>3
    <3>4. CASE e \in DOMAIN callGraph /\ d \in DOMAIN callGraph
      <4>1. callGraph'[e] = callGraph[e] /\ callGraph'[d] = callGraph[d] /\ c = callGraph[e]
            /\ c.call # i
        BY <1>2, <1>3, <3>1, <3>4
      <4>2. LinkHeld(c, j, d)
        BY <2>1, <3>1, <3>4, <4>1 DEF LinkInv, LinksHeld
      <4>3. argMap'[ArgID(j)] = argMap[ArgID(j)]
        BY <1>4, <2>1, <3>1, <3>2, <4>1
      <4>4. calleeMap[Key(j)] = d => calleeMap'[Key(j)] = d
        BY <1>8, <2>1, <3>1, <3>2, <3>4, <4>1
      <4> QED
        BY <3>1, <4>2, <4>3, <4>4 DEF LinkHeld
    <3>5. CASE e \in DOMAIN callGraph /\ d = new
      <4>1. j = i /\ c = callGraph[e] /\ c.call # i
        BY <1>2, <1>3, <2>1, <3>1, <3>5
      <4>2. at = i
        BY <1>1, <1>2, <3>3, <4>1, NoSpineEndsIn DEF Adds
      <4>3. ~FilePassed(c.call)
        BY <3>3, <4>1, <4>2 DEF FilePassed
      <4>4. argMap[ArgID(j)] = VisitOf(c)
        BY <2>1, <3>1, <3>5, <4>1, <4>3, <1>2 DEF LinkInv, ArgsHeld
      <4>5. argMap'[ArgID(j)] = argMap[ArgID(j)]
        BY <1>4, <2>1, <3>1, <3>2, <4>1
      <4>6. calleeMap'[Key(j)] = new
        <5>1. calleeMap' = [calleeMap EXCEPT ![Key(i)] = new]
              /\ calleeMap \in [Keys -> 0..Len(callGraph)] /\ Key(i) \in Keys
          BY <1>1, <1>2, KeyIsKey DEF Adds, Typed, TypeOK
        <5> QED
          BY <4>1, <5>1
      <4> QED
        BY <1>2, <3>1, <3>5, <4>4, <4>5, <4>6
    <3>6. CASE e = new
      <4>1. c.call = i /\ i = at /\ d # new
        BY <1>2, <2>1, <3>1, <3>3, <3>6
      <4>2. d \in DOMAIN callGraph /\ callGraph[d].call = j
        BY <1>2, <2>1, <4>1
      <4>3. callGraph[d].seen = j
        BY <2>1, <3>1, <3>2, <4>2, ArgumentSeen
      <4>4. callGraph[d].seen <= at
        BY <4>2, AroundEdge DEF ChainInv
      <4> QED
        BY <1>2, <3>3, <4>1, <4>3, <4>4
    <3> QED
      BY <1>2, <3>4, <3>5, <3>6
  <2> QED
    BY <1>2, <2>1, SameArguments, SameSource DEF LinksHeld, LinkHeld, VisitOf
<1> QED
  BY <1>6, <1>7, <1>9 DEF LinkInv

(* The end of a file. *)
LEMMA LinksAreMade ==
  ASSUME ChainInv, LinkInv, LinkArguments
  PROVE  LinkInv'
<1>1. /\ pending = <<>> /\ UNCHANGED <<ast, at, pending, argMap, calleeMap, callGraph>>
      /\ linked' = linked \union
           {[arg |-> argMap[k], key |-> k, edge |-> calleeMap[k]] : k \in Linkable}
  BY DEF LinkArguments, Inspecting
<1>2. ArgsHeld' /\ WaitingFree'
  BY <1>1, SameArguments, SameSource DEF LinkInv, ArgsHeld, WaitingFree, FilePassed, VisitOf, ThisVisit
<1>3. LinksHeld'
  <2>1. ASSUME NEW e \in DOMAIN callGraph, callGraph[e].seen = callGraph[e].call,
               NEW j \in ArgsOf(callGraph[e].call), NEW d \in DOMAIN callGraph,
               callGraph[d].call = j
        PROVE  [arg |-> VisitOf(callGraph[e]), key |-> ArgID(j), edge |-> d] \in linked'
    <3>1. PICK c : c = callGraph[e]
      OBVIOUS
    <3>2. SourceOK /\ c.call \in NodesOf /\ d # 0
      BY <3>1, GraphFacts DEF ChainInv, Typed
    <3>3. /\ ArgID(j) = Key(j) /\ ArgID(j) \in Keys /\ c.call \in Nat \ {0}
      BY <2>1, <3>1, <3>2, ArgumentFacts
    <3>4. LinkHeld(c, j, d)
      BY <2>1, <3>1 DEF LinkInv, LinksHeld
    <3>5. CASE argMap[ArgID(j)] = VisitOf(c) /\ calleeMap[Key(j)] = d
      <4>1. VisitOf(c) # Nil
        BY <3>3 DEF VisitOf, Nil
      <4>2. ArgID(j) \in Linkable
        BY <3>2, <3>3, <3>5, <4>1 DEF Linkable
      <4> QED
        BY <1>1, <3>1, <3>3, <3>5, <4>2
    <3> QED
      BY <1>1, <3>1, <3>4, <3>5 DEF LinkHeld
  <2> QED
    BY <1>1, <2>1, SameArguments DEF LinksHeld, LinkHeld, VisitOf
<1> QED
  BY <1>2, <1>3 DEF LinkInv

LEMMA InitLinks ==
  ASSUME Init
  PROVE  LinkInv
<1>1. DOMAIN callGraph = {} /\ DOMAIN pending = {}
  BY EmptySeq DEF Init
<1> QED
  BY <1>1 DEF LinkInv, ArgsHeld, WaitingFree, LinksHeld

LEMMA NextLinks ==
  ASSUME ChainInv, AssignInv, LinkInv, [Next]_vars
  PROVE  LinkInv'
<1>1. at \in Int /\ at <= at + 1 /\ at + 1 \in Int /\ at <= at
  BY StackFacts DEF ChainInv
<1>2. CASE InspectAssign \/ InspectCall
  <2>1. UNCHANGED <<ast, open, pending, argMap, calleeMap, callGraph, linked>>
        /\ at' = at + 1 /\ pending = <<>>
    BY <1>2 DEF InspectAssign, InspectCall, Inspecting
  <2> QED
    BY <1>1, <2>1, LinksRest
<1>3. CASE SkipCall \/ IndexOutOfRange \/ UNCHANGED vars
  <2>1. UNCHANGED <<ast, at, open, pending, argMap, calleeMap, callGraph, linked>>
    BY <1>3 DEF SkipCall, Returned, IndexOutOfRange, vars
  <2> QED
    BY <1>1, <2>1, LinksRest
<1> QED
  BY <1>2, <1>3, LinksOpen, LinksVisit, LinksAdd, LinksAreMade DEF Next, Ended
-----------------------------------------------------------------------------
(* The edge of a call that begins a spine keeps its key until the next     *)
(* file: another call of that spine with its name is recorded before it.   *)
BeginsHeld ==
  \A d \in DOMAIN callGraph : ast[callGraph[d].call].role \notin Spine =>
    \/ FilePassed(callGraph[d].call)
    \/ calleeMap[Key(callGraph[d].call)] = d

(* The map knows calls of this file only. *)
KeysCurrent ==
  \A k \in Keys : calleeMap[k] # 0 => ~FilePassed(callGraph[calleeMap[k]].call)

RightInv == BeginsHeld /\ KeysCurrent /\ LinksAreRight

LEMMA BeginSeen ==
  ASSUME ChainInv, NEW d \in DOMAIN callGraph, ast[callGraph[d].call].role \notin Spine
  PROVE  callGraph[d].seen = callGraph[d].call
<1>1. PICK c : c = callGraph[d]
  OBVIOUS
<1>2. /\ SourceOK /\ c.seen \in NodesOf /\ c.call \in NodesOf
      /\ c.seen <= c.call /\ OnSpine(c.seen, c.call)
  BY <1>1, AroundEdge DEF ChainInv, Typed
<1> QED
  BY <1>1, <1>2, NoSpineEndsIn

(* What the end of a file links is right: an argument begins a spine and   *)
(* has an edge, so the edge that the map has for its key is its own.       *)
LEMMA LinksMadeRight ==
  ASSUME ChainInv, OnceInv, AssignInv, RightInv, Inspecting, NEW k \in Linkable,
         NEW j \in ArgsOf(argMap[k].call), IsCall(j), ArgID(j) = k
  PROVE  callGraph[calleeMap[k]].call = j
<1>1. /\ Typed /\ SourceOK /\ NodesOf = 1..Len(ast) /\ Len(ast) \in Nat /\ at \in Int
      /\ ~Processing
  BY AstFacts, StackFacts DEF ChainInv, Typed, Inspecting, Processing
<1>2. k \in Keys /\ argMap[k] \in Visit /\ calleeMap[k] # 0
  BY <1>1 DEF Linkable, Typed, TypeOK
<1>3. /\ j \in NodesOf /\ j \in Nat /\ ast[j].role \notin Spine /\ Key(j) = k
  <2>1. argMap[k].call \in NodesOf
    BY <1>2 DEF Visit
  <2> QED
    BY <1>1, <2>1, ArgumentFacts
<1>4. PICK d \in DOMAIN callGraph : d = calleeMap[k]
  BY <1>2 DEF OnceInv, MapHolds
<1>5. PICK c : c = callGraph[d]
  OBVIOUS
<1>6. /\ c.call \in NodesOf /\ c.call \in Int /\ c.seen \in Int /\ c.seen <= at
      /\ c.seen <= c.call /\ c.seen \in NodesOf /\ OnSpine(c.seen, c.call)
  BY <1>5, AroundEdge DEF ChainInv
<1>7. Key(c.call) = k /\ ~FilePassed(c.call)
  BY <1>2, <1>4, <1>5 DEF OnceInv, MapHolds, RightInv, KeysCurrent
<1>8. j <= c.call /\ OnSpine(j, c.call)
  <2>1. CASE j <= c.call
    BY <1>1, <1>3, <1>6, <1>7, <2>1, SpineKeys
  <2>2. CASE ~(j <= c.call)
    <3>1. c.call <= j /\ c.call # j
      BY <1>3, <1>6, <2>2
    <3>2. OnSpine(c.call, j)
      BY <1>1, <1>3, <1>6, <1>7, <3>1, SpineKeys
    <3> QED
      BY <1>1, <1>3, <1>6, <3>1, <3>2, NoSpineEndsIn
  <2> QED
    BY <2>1, <2>2
<1>9. j <= c.seen
  <2>1. ~(j <= c.seen) => j \in (c.seen + 1)..c.call
    BY <1>3, <1>6, <1>8
  <2> QED
    BY <1>3, <1>6, <2>1 DEF OnSpine
<1>10. Looked(j)
  BY <1>1, <1>3, <1>6, <1>9 DEF Looked
<1>11. j \notin Shadowed
  <2>1. SUFFICES ASSUME ShadowedBy(Shadowed, j)
                 PROVE  FALSE
    BY <1>1, <1>3, ShadowedFacts
  <2>2. PICK i \in 1..(j - 1) : OnSpine(i, j)
    BY <2>1 DEF ShadowedBy
  <2>3. i \in NodesOf /\ i <= j /\ i # j
    BY <1>1, <1>3
  <2> QED
    BY <1>1, <1>3, <2>2, <2>3, NoSpineEndsIn
<1>12. PICK e \in DOMAIN callGraph : callGraph[e].call = j
  BY <1>3, <1>10, <1>11 DEF OnceInv, LookedRecorded, Recorded
<1>13. ~FilePassed(j)
  <2>1. SUFFICES ASSUME NEW n \in (j + 1)..at, ast[n].kind = "file"
                 PROVE  FALSE
    BY DEF FilePassed
  <2>2. CASE n <= c.call
    <3>1. n \in (j + 1)..c.call
      BY <1>1, <1>3, <1>6, <2>2
    <3> QED
      BY <1>1, <1>3, <1>6, <1>8, <2>1, <3>1, NoFileOnSpine
  <2>3. CASE ~(n <= c.call)
    <3>1. n \in (c.call + 1)..at
      BY <1>1, <1>3, <1>6, <2>3
    <3> QED
      BY <1>7, <2>1, <3>1 DEF FilePassed
  <2> QED
    BY <2>2, <2>3
<1>14. calleeMap[Key(j)] = e
  BY <1>3, <1>12, <1>13 DEF RightInv, BeginsHeld
<1> QED
  BY <1>3, <1>4, <1>12, <1>14

LEMMA RightStays ==
  ASSUME ChainInv, RightInv, UNCHANGED <<ast, calleeMap, callGraph, linked>>,
         \A i \in Int : FilePassed(i)' = FilePassed(i)
  PROVE  RightInv'
<1>1. NodesOf \subseteq Int /\ \A e \in DOMAIN callGraph : callGraph[e].call \in NodesOf
  BY AstFacts, GraphFacts DEF ChainInv, Typed
<1>2. BeginsHeld'
  BY <1>1, SameSource DEF RightInv, BeginsHeld
<1>3. KeysCurrent'
  <2>1. ASSUME NEW k \in Keys, calleeMap[k] # 0
        PROVE  calleeMap[k] \in DOMAIN callGraph
    BY <2>1, GraphFacts DEF ChainInv, Typed
  <2> QED
    BY <1>1, <2>1, SameSource DEF RightInv, KeysCurrent
<1>4. LinksAreRight'
  BY SameArguments, SameSource DEF RightInv, LinksAreRight
<1> QED
  BY <1>2, <1>3, <1>4 DEF RightInv

LEMMA InitRight ==
  ASSUME Init
  PROVE  RightInv
<1>1. DOMAIN callGraph = {} /\ linked = {} /\ \A k \in Keys : calleeMap[k] = 0
  BY EmptySeq DEF Init
<1> QED
  BY <1>1 DEF RightInv, BeginsHeld, KeysCurrent, LinksAreRight

LEMMA NextRight ==
  ASSUME ChainInv, OnceInv, AssignInv, LinkInv, RightInv, [Next]_vars
  PROVE  RightInv'
<1>1. /\ Typed /\ SourceOK /\ NodesOf \subseteq Int /\ at \in Int
      /\ Len(callGraph) \in Nat /\ DOMAIN callGraph = 1..Len(callGraph)
      /\ \A e \in DOMAIN callGraph : callGraph[e].call \in NodesOf
      /\ \A k \in Keys : calleeMap[k] \in 0..Len(callGraph)
      /\ linked \subseteq [arg : Visit, key : Keys, edge : DOMAIN callGraph]
  BY AstFacts, GraphFacts, StackFacts DEF ChainInv, Typed, TypeOK
<1>2. CASE OpenFile
  <2>1. /\ UNCHANGED <<ast, callGraph, linked>> /\ at' = at + 1 /\ ast[at'].kind = "file"
        /\ \A k \in Keys : calleeMap'[k] = 0
    BY <1>2 DEF OpenFile, Coming
  <2>2. ASSUME NEW e \in DOMAIN callGraph, ast[callGraph[e].call].role \notin Spine
        PROVE  FilePassed(callGraph[e].call)'
    <3>1. PICK c : c = callGraph[e]
      OBVIOUS
    <3>2. c.call \in Int /\ c.call <= at /\ c' = c
      BY <2>1, <2>2, <3>1, BeginSeen, AroundEdge DEF ChainInv
    <3>3. at' \in (c.call + 1)..at'
      BY <1>1, <2>1, <3>2
    <3> QED
      BY <2>1, <3>1, <3>2, <3>3 DEF FilePassed
  <2>3. BeginsHeld' /\ KeysCurrent'
    BY <2>1, <2>2, SameSource DEF BeginsHeld, KeysCurrent
  <2>4. LinksAreRight'
    BY <2>1, SameArguments, SameSource DEF RightInv, LinksAreRight
  <2> QED
    BY <2>3, <2>4 DEF RightInv
<1>3. CASE InspectAssign \/ InspectCall
  <2>1. UNCHANGED <<ast, calleeMap, callGraph, linked>> /\ at' = at + 1
        /\ ast[at'].kind # "file"
    BY <1>3 DEF InspectAssign, InspectCall, Coming
  <2>2. ASSUME NEW i \in Int
        PROVE  FilePassed(i)' = FilePassed(i)
    <3>1. \A k \in (i + 1)..at : k \in (i + 1)..at'
      BY <1>1, <2>1
    <3>2. \A k \in (i + 1)..at' : k \in (i + 1)..at \/ k = at'
      BY <1>1, <2>1
    <3> QED
      BY <2>1, <3>1, <3>2 DEF FilePassed
  <2> QED
    BY <2>1, <2>2, RightStays
<1>4. CASE SkipCall \/ SeenBefore \/ EnterReceiver \/ IndexOutOfRange \/ UNCHANGED vars
  <2>1. UNCHANGED <<ast, at, calleeMap, callGraph, linked>>
    BY <1>4 DEF SkipCall, SeenBefore, EnterReceiver, IndexOutOfRange, vars
  <2> QED
    BY <2>1, RightStays DEF FilePassed
<1>5. CASE RecordCall \/ ResumeChained
  <2>1. PICK i \in NodesOf : Adds(i)
    BY <1>5, RecordsAdd
  <2> DEFINE new == Len(callGraph) + 1
  <2>2. /\ UNCHANGED <<ast, at, linked>> /\ at <= i /\ i \in Int
        /\ new \in DOMAIN callGraph' /\ new # 0
        /\ \A e \in DOMAIN callGraph : callGraph'[e] = callGraph[e]
        /\ \A e \in DOMAIN callGraph' : e = new \/ e \in DOMAIN callGraph
        /\ callGraph'[new].call = i
        /\ calleeMap' = [calleeMap EXCEPT ![Key(i)] = new]
        /\ calleeMap \in [Keys -> 0..Len(callGraph)] /\ Key(i) \in Keys
    BY <1>1, <2>1, KeyIsKey DEF Adds, Typed, TypeOK
  <2>3. \A n : FilePassed(n)' = FilePassed(n)
    BY <2>2 DEF FilePassed
  <2>4. ~FilePassed(i)
    BY <1>1, <2>2, NotPassed
  <2>5. ASSUME NEW d \in DOMAIN callGraph, ast[callGraph[d].call].role \notin Spine,
               calleeMap[Key(callGraph[d].call)] = d
        PROVE  calleeMap'[Key(callGraph[d].call)] = d
    <3>1. PICK j \in NodesOf : j = callGraph[d].call
      BY <1>1
    <3>2. Key(j) \in Keys /\ d # 0
      BY <1>1, KeyIsKey
    <3>3. Key(j) # Key(i)
      <4>1. CASE RecordCall
        BY <2>1, <2>5, <3>1, <3>2, <4>1 DEF Adds, RecordCall, ResumeChained
      <4>2. CASE ResumeChained
        <5>1. 1 \in DOMAIN pending /\ pending[1] = i
          BY <2>1, <4>2 DEF Adds, RecordCall, ResumeChained
        <5>2. SUFFICES ASSUME Key(j) = Key(i)
                       PROVE  FALSE
          OBVIOUS
        <5>3. callGraph[d].seen = at
          BY <3>1, <5>1, <5>2 DEF LinkInv, WaitingFree
        <5>4. j = at
          BY <2>5, <3>1, <5>3, BeginSeen
        <5>5. Len(pending) \in DOMAIN pending /\ pending[Len(pending)] = at
          <6>1. /\ Len(pending) \in Nat /\ DOMAIN pending = 1..Len(pending)
                /\ \A m \in DOMAIN pending : pending[m] = at + Len(pending) - m
            BY StackFacts DEF ChainInv
          <6>2. Len(pending) \in DOMAIN pending
            BY <5>1, <6>1
          <6>3. pending[Len(pending)] = at + Len(pending) - Len(pending)
            BY <6>1, <6>2
          <6> QED
            BY <1>1, <6>1, <6>2, <6>3
        <5> QED
          BY <3>1, <5>4, <5>5 DEF ChainInv, WaitingClean
      <4> QED
        BY <1>5, <4>1, <4>2
    <3> QED
      BY <2>2, <2>5, <3>1, <3>2, <3>3
  <2>6. BeginsHeld'
    <3>1. ASSUME NEW d \in DOMAIN callGraph', ast[callGraph'[d].call].role \notin Spine
          PROVE  FilePassed(callGraph'[d].call) \/ calleeMap'[Key(callGraph'[d].call)] = d
      <4>1. CASE d = new
        BY <2>2, <4>1
      <4>2. CASE d \in DOMAIN callGraph
        BY <2>2, <2>5, <3>1, <4>2 DEF RightInv, BeginsHeld
      <4> QED
        BY <2>2, <4>1, <4>2
    <3> QED
      BY <2>2, <2>3, <3>1, SameSource DEF BeginsHeld
  <2>7. KeysCurrent'
    <3>1. ASSUME NEW k \in Keys, calleeMap'[k] # 0
          PROVE  ~FilePassed(callGraph'[calleeMap'[k]].call)
      <4>1. CASE k = Key(i)
        BY <2>2, <2>4, <4>1
      <4>2. CASE k # Key(i)
        <5>1. calleeMap'[k] = calleeMap[k] /\ calleeMap[k] \in DOMAIN callGraph
          BY <1>1, <2>2, <3>1, <4>2
        <5> QED
          BY <2>2, <3>1, <5>1 DEF RightInv, KeysCurrent
      <4> QED
        BY <4>1, <4>2
    <3> QED
      BY <2>2, <2>3, <3>1, SameSource DEF KeysCurrent
  <2>8. LinksAreRight'
    <3>1. \A l \in linked : callGraph'[l.edge] = callGraph[l.edge]
      BY <1>1, <2>2
    <3> QED
      BY <2>2, <3>1, SameArguments, SameSource DEF RightInv, LinksAreRight
  <2> QED
    BY <2>6, <2>7, <2>8 DEF RightInv
<1>6. CASE LinkArguments
  <2>1. /\ Inspecting /\ UNCHANGED <<ast, at, calleeMap, callGraph>>
        /\ linked' = linked \union
             {[arg |-> argMap[k], key |-> k, edge |-> calleeMap[k]] : k \in Linkable}
    BY <1>6 DEF LinkArguments
  <2>2. ASSUME NEW l \in linked', NEW j \in ArgsOf(l.arg.call), IsCall(j), ArgID(j) = l.key
        PROVE  callGraph[l.edge].call = j
    <3>1. CASE l \in linked
      BY <2>2, <3>1 DEF RightInv, LinksAreRight
    <3>2. CASE l \notin linked
      <4>1. PICK k \in Linkable : l = [arg |-> argMap[k], key |-> k, edge |-> calleeMap[k]]
        BY <2>1, <3>2
      <4>2. l.arg = argMap[k] /\ l.key = k /\ l.edge = calleeMap[k]
        BY <4>1
      <4> QED
        BY <2>1, <2>2, <4>2, LinksMadeRight
    <3> QED
      BY <3>1, <3>2
  <2>3. LinksAreRight'
    BY <2>1, <2>2, SameArguments, SameSource DEF LinksAreRight
  <2>4. BeginsHeld' /\ KeysCurrent'
    BY <2>1, SameSource DEF RightInv, BeginsHeld, KeysCurrent, FilePassed
  <2> QED
    BY <2>3, <2>4 DEF RightInv
<1> QED
  BY <1>2, <1>3, <1>4, <1>5, <1>6 DEF Next, Ended
-----------------------------------------------------------------------------
(* The calls of a spine have one caller, a literal or not. *)
LEMMA SpineInOneLiteral ==
  ASSUME SourceOK, NEW j \in NodesOf, NEW i \in NodesOf, Key(j) = Key(i)
  PROVE  ast[j].lit = ast[i].lit
<1>1. NodesOf = 1..Len(ast) /\ Len(ast) \in Nat
  BY AstFacts
<1>2. ASSUME NEW n \in NodesOf, NEW m \in NodesOf, n <= m, OnSpine(n, m)
      PROVE  ast[n].lit = ast[m].lit
  <2> DEFINE F == {k \in NodesOf : ast[k].lit = ast[n].lit}
  <2>1. ASSUME NEW k \in n..(m - 1), k \in F
        PROVE  k + 1 \in F
    <3>1. k + 1 \in (n + 1)..m /\ k + 1 \in NodesOf /\ (k + 1) - 1 = k
      BY <1>1
    <3>2. ast[k + 1].role \in Spine
      BY <1>2, <3>1 DEF OnSpine
    <3>3. ast[k + 1].lit = ast[k].lit
      BY <3>1, <3>2, AstFacts DEF Placed, SpineLink
    <3> QED
      BY <2>1, <3>1, <3>3
  <2>2. n \in F /\ n \in Nat /\ m \in Nat
    BY <1>1
  <2> HIDE DEF F
  <2>3. m \in F
    BY <1>2, <2>1, <2>2, UpTheChain
  <2> QED
    BY <2>3 DEF F
<1>3. CASE j <= i
  BY <1>2, <1>3, SpineKeys
<1>4. CASE i <= j
  BY <1>2, <1>4, SpineKeys
<1> QED
  BY <1>1, <1>3, <1>4

(* The first of the visits filed for an instance is the one that records   *)
(* it or waits to.                                                         *)
FirstFiled(m) == \A n \in 1..(m - 1) : Key(parents[n].call) # Key(parents[m].call)
VisitRecorded(p) ==
  \/ \E e \in DOMAIN callGraph : callGraph[e].call = p.call /\ callGraph[e].seen = p.seen
  \/ p.seen = at /\ \E k \in DOMAIN pending : pending[k] = p.call
FirstRecorded == \A m \in DOMAIN parents : FirstFiled(m) => VisitRecorded(parents[m])

(* A literal's calls are filed before they are recorded. *)
IsFiled(i) == \E m \in DOMAIN parents : parents[m].call = i
LiteralsFiled ==
  /\ \A e \in DOMAIN callGraph : ast[callGraph[e].call].lit => IsFiled(callGraph[e].call)
  /\ \A m \in DOMAIN pending : ast[pending[m]].lit => IsFiled(pending[m])

FiledInv == FirstRecorded /\ LiteralsFiled

(* What a visit files. *)
LEMMA VisitFiles ==
  ASSUME Typed, at \in NodesOf, NEW i \in NodesOf, MakeEdge(i)
  PROVE  /\ Len(parents) \in Nat /\ DOMAIN parents = 1..Len(parents)
         /\ DOMAIN parents \subseteq DOMAIN parents'
         /\ \A m \in DOMAIN parents : parents'[m] = parents[m]
         /\ \A m \in DOMAIN parents' : m \in DOMAIN parents \/
              (m = Len(parents) + 1 /\ ast[i].lit /\ parents'[m] = ThisVisit(i))
         /\ ast[i].lit => \E m \in DOMAIN parents' : parents'[m] = ThisVisit(i)
<1>1. parents \in Seq(Visit) /\ ThisVisit(i) \in Visit
  BY DEF Typed, TypeOK, ThisVisit, Visit
<1>2. Len(parents) \in Nat /\ DOMAIN parents = 1..Len(parents)
  BY <1>1, LenProperties
<1>3. CASE ast[i].lit
  <2>1. parents' = Append(parents, ThisVisit(i))
    BY <1>3 DEF MakeEdge, Filed
  <2>2. /\ DOMAIN parents' = 1..(Len(parents) + 1)
        /\ \A m \in 1..Len(parents) : parents'[m] = parents[m]
        /\ parents'[Len(parents) + 1] = ThisVisit(i)
    BY <1>1, <2>1, AppendFacts
  <2>3. Len(parents) + 1 \in DOMAIN parents'
    BY <1>2, <2>2
  <2> QED
    BY <1>2, <1>3, <2>2, <2>3
<1>4. CASE ~ast[i].lit
  <2>1. parents' = parents
    BY <1>4 DEF MakeEdge, Filed
  <2> QED
    BY <1>2, <1>4, <2>1
<1> QED
  BY <1>3, <1>4

(* Whether a visit is the first of its instance is settled when it is filed. *)
LEMMA FirstStaysFirst ==
  ASSUME UNCHANGED ast, DOMAIN parents \subseteq DOMAIN parents',
         Len(parents) \in Nat, DOMAIN parents = 1..Len(parents),
         \A m \in DOMAIN parents : parents'[m] = parents[m],
         NEW m \in DOMAIN parents, FirstFiled(m)'
  PROVE  FirstFiled(m)
<1>1. \A n \in 1..(m - 1) : n \in DOMAIN parents
  OBVIOUS
<1> QED
  BY <1>1, SameSource DEF FirstFiled

(* A call that finds its key taken is not the first of its instance. *)
LEMMA FoundIsFiled ==
  ASSUME ChainInv, OnceInv, FiledInv, SeenBefore, ast[entering].lit
  PROVE  \E m \in DOMAIN parents : Key(parents[m].call) = Key(entering)
<1>1. Typed /\ SourceOK /\ entering # 0 /\ entering \in NodesOf /\ calleeMap[Key(entering)] # 0
  BY EnteringFacts DEF ChainInv, Typed, SeenBefore
<1>2. PICK e \in DOMAIN callGraph : Key(callGraph[e].call) = Key(entering)
  BY <1>1, KeyIsKey DEF OnceInv, MapHolds
<1>3. PICK j \in NodesOf : j = callGraph[e].call
  BY <1>1, GraphFacts
<1>4. ast[j].lit
  BY <1>1, <1>2, <1>3, SpineInOneLiteral
<1> QED
  BY <1>2, <1>3, <1>4 DEF FiledInv, LiteralsFiled, IsFiled

LEMMA FiledVisits ==
  ASSUME ChainInv, OnceInv, FiledInv, SeenBefore \/ EnterReceiver
  PROVE  FiledInv'
<1> DEFINE i == entering
<1>1. /\ i # 0 /\ MakeEdge(i) /\ UNCHANGED <<ast, at, callGraph>>
      /\ \/ SeenBefore /\ pending' = pending
         \/ EnterReceiver /\ pending' = <<i>> \o pending
  BY DEF SeenBefore, EnterReceiver, Returned, Waiting
<1>2. /\ Typed /\ i \in NodesOf /\ at \in NodesOf
      /\ Len(pending) \in Nat /\ DOMAIN pending = 1..Len(pending)
      /\ pending \in Seq(NodesOf)
  BY <1>1, EnteringFacts, PendingFacts DEF ChainInv
<1>3. /\ Len(parents) \in Nat /\ DOMAIN parents = 1..Len(parents)
      /\ DOMAIN parents \subseteq DOMAIN parents'
      /\ \A m \in DOMAIN parents : parents'[m] = parents[m]
      /\ \A m \in DOMAIN parents' : m \in DOMAIN parents \/
           (m = Len(parents) + 1 /\ ast[i].lit /\ parents'[m] = ThisVisit(i))
      /\ ast[i].lit => \E m \in DOMAIN parents' : parents'[m] = ThisVisit(i)
  BY <1>1, <1>2, VisitFiles
<1>4. /\ \A n \in DOMAIN pending : \E k \in DOMAIN pending' : pending'[k] = pending[n]
      /\ EnterReceiver => \E k \in DOMAIN pending' : pending'[k] = i
      /\ \A k \in DOMAIN pending' : \/ EnterReceiver /\ pending'[k] = i
                                    \/ \E n \in DOMAIN pending : pending'[k] = pending[n]
  <2>1. CASE SeenBefore /\ pending' = pending
    <3>1. ~EnterReceiver
      BY <2>1 DEF SeenBefore, EnterReceiver
    <3> QED
      BY <2>1, <3>1
  <2>2. CASE EnterReceiver /\ pending' = <<i>> \o pending
    <3>1. /\ DOMAIN pending' = 1..(Len(pending) + 1)
          /\ pending'[1] = i
          /\ \A k \in 2..(Len(pending) + 1) : pending'[k] = pending[k - 1]
          /\ \A k \in 1..Len(pending) : pending'[k + 1] = pending[k]
      BY <1>2, <2>2, PushFacts
    <3>2. 1 \in DOMAIN pending' /\ \A k \in DOMAIN pending : k + 1 \in DOMAIN pending'
      BY <1>2, <3>1
    <3>3. \A k \in DOMAIN pending' : k = 1 \/ (k \in 2..(Len(pending) + 1) /\ k - 1 \in DOMAIN pending)
      BY <1>2, <3>1
    <3> QED
      BY <1>2, <2>2, <3>1, <3>2, <3>3
  <2> QED
    BY <1>1, <2>1, <2>2
<1>5. FirstRecorded'
  <2>1. ASSUME NEW m \in DOMAIN parents', FirstFiled(m)'
        PROVE  VisitRecorded(parents[m])'
    <3>1. CASE m \in DOMAIN parents
      <4>1. FirstFiled(m) /\ parents'[m] = parents[m]
        BY <1>1, <1>3, <2>1, <3>1, FirstStaysFirst
      <4>2. VisitRecorded(parents[m])
        BY <3>1, <4>1 DEF FiledInv, FirstRecorded
      <4> QED
        BY <1>1, <1>4, <4>1, <4>2 DEF VisitRecorded
    <3>2. CASE m = Len(parents) + 1 /\ ast[i].lit /\ parents'[m] = ThisVisit(i)
      <4>1. parents'[m].call = i /\ parents'[m].seen = at
        BY <3>2 DEF ThisVisit
      <4>2. CASE EnterReceiver
        BY <1>1, <1>4, <4>1, <4>2 DEF VisitRecorded
      <4>3. CASE SeenBefore
        <5>1. PICK n \in DOMAIN parents : Key(parents[n].call) = Key(i)
          BY <3>2, <4>3, FoundIsFiled
        <5>2. n \in 1..(m - 1) /\ parents'[n] = parents[n]
          BY <1>3, <3>2
        <5>3. Key(parents'[n].call) # Key(parents'[m].call)
          BY <1>1, <2>1, <5>2, SameSource DEF FirstFiled
        <5> QED
          BY <4>1, <5>1, <5>2, <5>3
      <4> QED
        BY <1>1, <4>2, <4>3
    <3> QED
      BY <1>3, <3>1, <3>2
  <2> QED
    BY <2>1 DEF FirstRecorded
<1>6. \A n : IsFiled(n) => IsFiled(n)'
  BY <1>3 DEF IsFiled
<1>7. ast[i].lit => \E m \in DOMAIN parents' : parents'[m].call = i
  <2>1. ThisVisit(i).call = i
    BY DEF ThisVisit
  <2> QED
    BY <1>3, <2>1
<1>8. LiteralsFiled'
  <2>1. ASSUME NEW e \in DOMAIN callGraph, ast[callGraph[e].call].lit
        PROVE  IsFiled(callGraph[e].call)'
    BY <1>1, <1>6, <2>1 DEF FiledInv, LiteralsFiled, IsFiled
  <2>2. ASSUME NEW k \in DOMAIN pending', ast[pending'[k]].lit
        PROVE  \E m \in DOMAIN parents' : parents'[m].call = pending'[k]
    <3>1. CASE pending'[k] = i
      BY <1>7, <2>2, <3>1
    <3>2. CASE \E n \in DOMAIN pending : pending'[k] = pending[n]
      <4>1. PICK n \in DOMAIN pending : pending'[k] = pending[n]
        BY <3>2
      <4>2. IsFiled(pending[n])
        BY <2>2, <4>1 DEF FiledInv, LiteralsFiled
      <4> QED
        BY <1>3, <4>1, <4>2 DEF IsFiled
    <3> QED
      BY <1>4, <2>2, <3>1, <3>2
  <2> QED
    BY <1>1, <2>1, <2>2 DEF LiteralsFiled, IsFiled
<1> QED
  BY <1>5, <1>8 DEF FiledInv

LEMMA FiledAdds ==
  ASSUME ChainInv, FiledInv, RecordCall \/ ResumeChained
  PROVE  FiledInv'
<1>1. PICK i \in NodesOf : Adds(i)
  BY RecordsAdd
<1> DEFINE new == Len(callGraph) + 1
<1>2. /\ Typed /\ UNCHANGED <<ast, at>> /\ at \in NodesOf
      /\ Len(callGraph) \in Nat /\ DOMAIN callGraph = 1..Len(callGraph)
      /\ DOMAIN callGraph' = 1..new /\ new \in DOMAIN callGraph'
      /\ DOMAIN callGraph \subseteq DOMAIN callGraph'
      /\ \A e \in DOMAIN callGraph : callGraph'[e] = callGraph[e]
      /\ \A e \in DOMAIN callGraph' : e = new \/ e \in DOMAIN callGraph
      /\ callGraph'[new].call = i /\ callGraph'[new].seen = at
  <2>1. Typed /\ Len(callGraph) \in Nat /\ DOMAIN callGraph = 1..Len(callGraph)
    BY GraphFacts DEF ChainInv
  <2> QED
    BY <1>1, <2>1 DEF Adds
<1>3. /\ Len(parents) \in Nat /\ DOMAIN parents = 1..Len(parents)
      /\ DOMAIN parents \subseteq DOMAIN parents'
      /\ \A m \in DOMAIN parents : parents'[m] = parents[m]
      /\ \A m \in DOMAIN parents' : m \in DOMAIN parents \/ parents'[m] = ThisVisit(i)
      /\ ast[i].lit => IsFiled(i)'
  <2>1. CASE RecordCall
    <3>1. MakeEdge(i)
      BY <1>1, <2>1 DEF Adds, RecordCall, ResumeChained
    <3>2. /\ Len(parents) \in Nat /\ DOMAIN parents = 1..Len(parents)
          /\ DOMAIN parents \subseteq DOMAIN parents'
          /\ \A m \in DOMAIN parents : parents'[m] = parents[m]
          /\ \A m \in DOMAIN parents' : m \in DOMAIN parents \/
               (m = Len(parents) + 1 /\ ast[i].lit /\ parents'[m] = ThisVisit(i))
          /\ ast[i].lit => \E m \in DOMAIN parents' : parents'[m] = ThisVisit(i)
      BY <1>2, <3>1, VisitFiles
    <3>3. ThisVisit(i).call = i
      BY DEF ThisVisit
    <3> QED
      BY <3>2, <3>3 DEF IsFiled
  <2>2. CASE ResumeChained
    <3>1. parents' = parents /\ 1 \in DOMAIN pending /\ pending[1] = i
      BY <1>1, <2>2 DEF Adds, RecordCall, ResumeChained
    <3>2. Len(parents) \in Nat /\ DOMAIN parents = 1..Len(parents)
      BY <1>2, LenProperties DEF Typed, TypeOK
    <3> QED
      BY <3>1, <3>2 DEF FiledInv, LiteralsFiled, IsFiled
  <2> QED
    BY <2>1, <2>2
<1>4. ASSUME NEW p, p.call = i, p.seen = at
      PROVE  \E e \in DOMAIN callGraph' : callGraph'[e].call = p.call /\ callGraph'[e].seen = p.seen
  BY <1>2, <1>4
<1>5. FirstRecorded'
  <2>1. ASSUME NEW m \in DOMAIN parents', FirstFiled(m)'
        PROVE  VisitRecorded(parents[m])'
    <3>1. CASE m \in DOMAIN parents
      <4>1. FirstFiled(m) /\ parents'[m] = parents[m]
        BY <1>2, <1>3, <2>1, <3>1, FirstStaysFirst
      <4>2. VisitRecorded(parents[m])
        BY <3>1, <4>1 DEF FiledInv, FirstRecorded
      <4>3. PICK p : p = parents[m]
        OBVIOUS
      <4>4. CASE \E e \in DOMAIN callGraph : callGraph[e].call = p.call /\ callGraph[e].seen = p.seen
        BY <1>2, <4>1, <4>3, <4>4 DEF VisitRecorded
      <4>5. CASE p.seen = at /\ \E k \in DOMAIN pending : pending[k] = p.call
        <5>1. PICK k \in DOMAIN pending : pending[k] = p.call
          BY <4>5
        <5>2. pending[k] = i \/ \E n \in DOMAIN pending' : pending'[n] = pending[k]
          BY <1>1 DEF Adds
        <5> QED
          BY <1>2, <1>4, <4>1, <4>3, <4>5, <5>1, <5>2 DEF VisitRecorded
      <4> QED
        BY <4>2, <4>3, <4>4, <4>5 DEF VisitRecorded
    <3>2. CASE parents'[m] = ThisVisit(i)
      <4>1. parents'[m].call = i /\ parents'[m].seen = at
        BY <3>2 DEF ThisVisit
      <4> QED
        BY <1>4, <4>1 DEF VisitRecorded
    <3> QED
      BY <1>3, <3>1, <3>2
  <2> QED
    BY <2>1 DEF FirstRecorded
<1>6. LiteralsFiled'
  <2>1. \A n : IsFiled(n) => IsFiled(n)'
    BY <1>3 DEF IsFiled
  <2>2. ASSUME NEW e \in DOMAIN callGraph', ast[callGraph'[e].call].lit
        PROVE  \E m \in DOMAIN parents' : parents'[m].call = callGraph'[e].call
    <3>1. CASE e = new
      BY <1>2, <1>3, <2>2, <3>1 DEF IsFiled
    <3>2. CASE e \in DOMAIN callGraph
      BY <1>2, <1>3, <2>2, <3>2 DEF FiledInv, LiteralsFiled, IsFiled
    <3> QED
      BY <1>2, <3>1, <3>2
  <2>3. ASSUME NEW k \in DOMAIN pending', ast[pending'[k]].lit
        PROVE  \E m \in DOMAIN parents' : parents'[m].call = pending'[k]
    <3>1. PICK n \in DOMAIN pending : pending'[k] = pending[n]
      BY <1>1 DEF Adds
    <3> QED
      BY <1>3, <2>3, <3>1 DEF FiledInv, LiteralsFiled, IsFiled
  <2> QED
    BY <1>2, <2>2, <2>3 DEF LiteralsFiled, IsFiled
<1> QED
  BY <1>5, <1>6 DEF FiledInv

LEMMA InitFiled ==
  ASSUME Init
  PROVE  FiledInv
<1>1. DOMAIN callGraph = {} /\ DOMAIN pending = {} /\ DOMAIN parents = {}
  BY EmptySeq DEF Init
<1> QED
  BY <1>1 DEF FiledInv, FirstRecorded, LiteralsFiled

LEMMA NextFiled ==
  ASSUME ChainInv, OnceInv, FiledInv, [Next]_vars
  PROVE  FiledInv'
<1>1. CASE \/ OpenFile \/ InspectAssign \/ InspectCall \/ SkipCall
           \/ IndexOutOfRange \/ LinkArguments \/ UNCHANGED vars
  <2>1. /\ UNCHANGED <<ast, pending, callGraph, parents>>
        /\ at' = at \/ pending = <<>>
    BY <1>1 DEF OpenFile, InspectAssign, InspectCall, SkipCall, Returned, IndexOutOfRange,
                LinkArguments, vars, Inspecting
  <2>2. \A m : FirstFiled(m)' = FirstFiled(m)
    BY <2>1, SameSource DEF FirstFiled
  <2>3. pending = <<>> => DOMAIN pending = {}
    BY EmptySeq
  <2>4. FirstRecorded'
    BY <2>1, <2>2, <2>3 DEF FiledInv, FirstRecorded, VisitRecorded
  <2>5. LiteralsFiled'
    BY <2>1 DEF FiledInv, LiteralsFiled, IsFiled
  <2> QED
    BY <2>4, <2>5 DEF FiledInv
<1> QED
  BY <1>1, FiledVisits, FiledAdds DEF Next, Ended

LEMMA LinksHold == Spec => [](ChainInv /\ AssignInv /\ LinkInv /\ RightInv /\ FiledInv)
<1>1. Init => ChainInv /\ OnceInv /\ AssignInv /\ LinkInv /\ RightInv /\ FiledInv
  BY InitChain, InitOnce, InitAssign, InitLinks, InitRight, InitFiled
<1>2. ChainInv /\ OnceInv /\ AssignInv /\ LinkInv /\ RightInv /\ FiledInv /\ [Next]_vars
        => (ChainInv /\ OnceInv /\ AssignInv /\ LinkInv /\ RightInv /\ FiledInv)'
  BY NextChain, NextOnce, NextAssign, NextLinks, NextRight, NextFiled
<1> QED
  BY <1>1, <1>2, PTL DEF Spec

(* LinksLeadToEdges: for every program, a link from an argument that is a  *)
(* call leads to the edge of that very call; in the end every such         *)
(* argument has its link, if its call was reached by the walk before it    *)
(* was by a chain and both have edges; and the first visit that is filed   *)
(* for an instance of a literal's call is the one that was recorded.       *)
THEOREM LinksLead == Spec => []LinksLeadToEdges
<1>1. ASSUME ChainInv, AssignInv, LinkInv, FiledInv, Done
      PROVE  /\ \A e \in DOMAIN callGraph :
                  callGraph[e].seen = callGraph[e].call =>
                    \A j \in ArgsOf(callGraph[e].call) : \A d \in EdgesOf(j) :
                      [arg |-> [call |-> callGraph[e].call, seen |-> callGraph[e].seen],
                       key |-> ArgID(j), edge |-> d] \in linked
             /\ \A m \in DOMAIN parents :
                  FirstFiled(m) =>
                    \E e \in DOMAIN callGraph : /\ callGraph[e].call = parents[m].call
                                                /\ callGraph[e].seen = parents[m].seen
  <2>1. ~open /\ pending = <<>> /\ DOMAIN pending = {}
    BY <1>1, EmptySeq DEF Done, AssignInv, Processing
  <2>2. ASSUME NEW e \in DOMAIN callGraph, callGraph[e].seen = callGraph[e].call,
               NEW j \in ArgsOf(callGraph[e].call), NEW d \in EdgesOf(j)
        PROVE  [arg |-> [call |-> callGraph[e].call, seen |-> callGraph[e].seen],
                key |-> ArgID(j), edge |-> d] \in linked
    <3>1. d \in DOMAIN callGraph /\ callGraph[d].call = j
      BY DEF EdgesOf
    <3>2. LinkHeld(callGraph[e], j, d)
      BY <1>1, <2>2, <3>1 DEF LinkInv, LinksHeld
    <3> QED
      BY <2>1, <3>2 DEF LinkHeld, VisitOf
  <2>3. ASSUME NEW m \in DOMAIN parents, FirstFiled(m)
        PROVE  \E e \in DOMAIN callGraph : /\ callGraph[e].call = parents[m].call
                                           /\ callGraph[e].seen = parents[m].seen
    BY <1>1, <2>1, <2>3 DEF FiledInv, FirstRecorded, VisitRecorded
  <2> QED
    BY <2>2, <2>3
<1>2. ChainInv /\ AssignInv /\ LinkInv /\ RightInv /\ FiledInv => LinksLeadToEdges
  BY <1>1 DEF LinksLeadToEdges, RightInv, ArgumentsLinked, ClosureEdgesFirst, FirstFiled
<1> QED
  BY <1>2, LinksHold, PTL
=============================================================================
