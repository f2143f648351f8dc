----------------------------- MODULE Pages_proofs -----------------------------
(***************************************************************************)
(* Theorems about what the pages of the web interface show: DiagServer for *)
(* any set of requests, projects, page keys and edits; DiagView for any    *)
(* graph; the trace of an endpoint (CallTrace, ResolvedTrace, TrackerTrace)*)
(* and its call paths (TracePaths) for any program and any limits.         *)
(***************************************************************************)
EXTENDS DiagServer, DiagView, ResolvedTrace, TrackerTrace, TracePaths,
        FiniteSetTheorems, SequenceTheorems, WellFoundedInduction, TLAPS

(* The steps of Next one by one, which every proof below splits on. *)
Step ==
  \/ \E r \in Requests : Arrive(r)
  \/ \E r \in Requests : EnsureMetadata(r)
  \/ \E r \in Requests : ReadDir(r)
  \/ \E r \in Requests : Analyse(r)
  \/ \E r \in Requests : StoreMetadata(r)
  \/ \E r \in Requests : SwitchTo(r)
  \/ \E r \in Requests : ReadMetadata(r)
  \/ \E r \in Requests : LookUpPage(r)
  \/ \E r \in Requests : LookUpData(r)
  \/ \E r \in Requests : Draw(r)
  \/ \E r \in Requests : KeepData(r)
  \/ \E r \in Requests : KeepPage(r)
  \/ \E r \in Requests : Deliver(r)
  \/ \E r \in Requests : TimeOut(r)
  \/ \E d \in Dirs : Edit(d)
  \/ UNCHANGED vars

LEMMA StepOfNext == [Next]_vars => Step
  BY Zenon DEF Next, Handler, Load, Drawing, Step, Quiet

(* Every variable keeps its type. *)
THEOREM TypeCorrect == Spec => []TypeOK
<1>1. Init => TypeOK
  <2> SUFFICES ASSUME Init PROVE TypeOK
    OBVIOUS
  <2>1. InitDir \in Dirs /\ 0 \in Versions
    BY InitDirAssumption, EditsAssumption DEF Versions
  <2>2. /\ inputDir \in Dirs
        /\ meta \in Metadata \union {None}
        /\ draft \in [Requests -> Metadata]
    BY <2>1 DEF Init, Metadata
  <2>3. /\ dataCache \in [{"normal", "full"} -> Diagrams \union {None}]
        /\ pageCache \in [Pages -> Diagrams \union {None}]
        /\ view \in [Requests -> Diagrams \union {None}]
    BY DEF Init, EmptyDataCache, EmptyPageCache
  <2>4. sources \in [Dirs -> Versions] /\ newest \in [Dirs -> Versions]
    BY <2>1 DEF Init
  <2> QED
    BY <2>2, <2>3, <2>4 DEF Init, TypeOK, Kinds
<1>2. TypeOK /\ [Next]_vars => TypeOK'
  <2> SUFFICES ASSUME TypeOK, Step PROVE TypeOK'
    BY StepOfNext
  <2> USE EditsAssumption
      DEF TypeOK, Metadata, Versions, Diagrams, Kinds, EmptyDataCache,
          EmptyPageCache, Goto, WorkGoto, Depth, Overtake, ReadsAnew,
          Larger, LateWith, Drawn, server, request, history
  <2>1. ASSUME NEW r \in Requests, Arrive(r) PROVE TypeOK'
    BY <2>1 DEF Arrive
  <2>2. ASSUME NEW r \in Requests, EnsureMetadata(r) PROVE TypeOK'
    BY <2>2 DEF EnsureMetadata, Proceed
  <2>3. ASSUME NEW r \in Requests, ReadDir(r) PROVE TypeOK'
    BY <2>3 DEF ReadDir
  <2>4. ASSUME NEW r \in Requests, Analyse(r) PROVE TypeOK'
    <3>1. CASE Fails(r) /\ UNCHANGED draft
      BY <2>4, <3>1 DEF Analyse, Fails
    <3>2. CASE draft' = [draft EXCEPT ![r].ver = sources[draft[r].dir]]
      <4>1. draft'[r] = [dir |-> draft[r].dir, ver |-> sources[draft[r].dir]]
        BY <3>2
      <4>2. \A q \in Requests \ {r} : draft'[q] = draft[q]
        BY <3>2
      <4>3. draft' \in [Requests -> [dir : Dirs, ver : 0..MaxEdits]]
        BY <3>2
      <4> QED
        BY <2>4, <4>3 DEF Analyse, Fails
    <3> QED
      BY <2>4, <3>1, <3>2 DEF Analyse
  <2>5. ASSUME NEW r \in Requests, StoreMetadata(r) PROVE TypeOK'
    <3>1. newest' \in [Dirs -> Versions]
      BY <2>5 DEF StoreMetadata
    <3>2. /\ overtaken' \in SUBSET Requests
          /\ lateMeta' \in BOOLEAN
          /\ lateData' = {} /\ latePages' = {}
      BY <2>5 DEF StoreMetadata
    <3>3. /\ meta' \in Metadata
          /\ dataCache' \in [{"normal", "full"} -> Diagrams \union {None}]
          /\ pageCache' \in [Pages -> Diagrams \union {None}]
      BY <2>5 DEF StoreMetadata, DropCaches
    <3>4. /\ pc' \in [Requests -> {"idle", "ensure", "load", "analyse", "store",
                                  "read", "wait", "switch", "end"}]
          /\ work' \in [Requests -> {"none", "page", "data", "draw", "keep",
                                    "keepPage", "sent"}]
      BY <2>5 DEF StoreMetadata, Proceed
    <3> QED
      BY <2>5, <3>1, <3>2, <3>3, <3>4 DEF StoreMetadata
  <2>6. ASSUME NEW r \in Requests, SwitchTo(r) PROVE TypeOK'
    BY <2>6 DEF SwitchTo, DropOnSwitch, DropCaches
  <2>7. ASSUME NEW r \in Requests, ReadMetadata(r) PROVE TypeOK'
    BY <2>7 DEF ReadMetadata
  <2>8. ASSUME NEW r \in Requests, LookUpPage(r) PROVE TypeOK'
    BY <2>8 DEF LookUpPage
  <2>9. ASSUME NEW r \in Requests, LookUpData(r) PROVE TypeOK'
    BY <2>9 DEF LookUpData, DrawnThen
  <2>10. ASSUME NEW r \in Requests, Draw(r) PROVE TypeOK'
    BY <2>10 DEF Draw
  <2>11. ASSUME NEW r \in Requests, KeepData(r) PROVE TypeOK'
    BY <2>11 DEF KeepData, DrawnThen
  <2>12. ASSUME NEW r \in Requests, KeepPage(r) PROVE TypeOK'
    BY <2>12 DEF KeepPage
  <2>13. ASSUME NEW r \in Requests, Deliver(r) PROVE TypeOK'
    BY <2>13 DEF Deliver
  <2>14. ASSUME NEW r \in Requests, TimeOut(r) PROVE TypeOK'
    BY <2>14 DEF TimeOut, TimesOut
  <2>15. ASSUME NEW d \in Dirs, Edit(d) PROVE TypeOK'
    BY <2>15 DEF Edit
  <2>16. CASE UNCHANGED vars
    BY <2>16 DEF vars
  <2> QED
    BY <2>1, <2>2, <2>3, <2>4, <2>5, <2>6, <2>7, <2>8, <2>9,
       <2>10, <2>11, <2>12, <2>13, <2>14, <2>15, <2>16 DEF Step
<1> QED
  BY <1>1, <1>2, PTL DEF Spec

-----------------------------------------------------------------------------
(* What a request that was not overtaken goes by is still so: the project  *)
(* it is analysing is the current one and what it has read of it no older  *)
(* than any that was stored, the diagram it is about to keep is drawn from *)
(* the metadata of now, and the metadata it was promised is there.  That   *)
(* is what makes what it stores current, which is all the invariant says   *)
(* of the server's own state.                                              *)

NotDrawing ==
  \A r \in Requests :
    pc[r] \in {"idle", "ensure", "load", "analyse", "store", "read", "switch"}
      => work[r] = "none"

DraftsAreCurrent ==
  \A r \in Requests \ overtaken :
    /\ pc[r] \in {"analyse", "store"} => draft[r].dir = inputDir
    /\ pc[r] = "store" => draft[r].ver >= newest[draft[r].dir]

ViewsAreCurrent ==
  \A r \in Requests \ overtaken :
    work[r] \in {"keep", "keepPage"} => view[r] = Drawn

PromisesHold ==
  \A r \in Requests \ overtaken :
    pc[r] = "read" \/ work[r] \in {"page", "data", "draw"} => meta # None

StoredWereThere ==
  /\ \A d \in Dirs : newest[d] <= sources[d]
  /\ \A r \in Requests : pc[r] = "store" => draft[r].ver <= sources[draft[r].dir]

CurrentInv ==
  /\ NotDrawing
  /\ StoredWereThere
  /\ DraftsAreCurrent
  /\ MetadataIsCurrent
  /\ ViewsAreCurrent
  /\ DiagramsAreCurrent
  /\ PromisesHold

LEMMA CurrentInductive == Spec => [](TypeOK /\ CurrentInv)
<1>1. Init => CurrentInv
  BY InitDirAssumption, EditsAssumption
     DEF Init, CurrentInv, NotDrawing, StoredWereThere, DraftsAreCurrent,
         MetadataIsCurrent, ViewsAreCurrent, DiagramsAreCurrent, PromisesHold,
         EmptyDataCache, EmptyPageCache, Versions
<1>2. TypeOK /\ CurrentInv /\ [Next]_vars => CurrentInv'
  <2> SUFFICES ASSUME TypeOK, CurrentInv, Step PROVE CurrentInv'
    BY StepOfNext
  <2> USE NoneAssumption, EditsAssumption
      DEF TypeOK, CurrentInv, NotDrawing, StoredWereThere, DraftsAreCurrent,
          MetadataIsCurrent, ViewsAreCurrent, DiagramsAreCurrent, PromisesHold,
          Metadata, Versions, Drawn, Goto, WorkGoto, Depth, HasRead, ReadsAnew,
          server, request, history
  <2>1. ASSUME NEW r \in Requests, Arrive(r) PROVE CurrentInv'
    BY <2>1 DEF Arrive
  <2>2. ASSUME NEW r \in Requests, EnsureMetadata(r) PROVE CurrentInv'
    <3>1. /\ UNCHANGED <<server, sources, kind, page, draft, view, history>>
          /\ \A q \in Requests \ {r} : pc'[q] = pc[q] /\ work'[q] = work[q]
      BY <2>2 DEF EnsureMetadata, Proceed
    <3>2. \/ pc'[r] = "load" /\ work'[r] = "none"
          \/ /\ meta # None
             /\ pc'[r] \in {"read", "wait", "end"}
             /\ work'[r] \in {"none", "page", "data"}
             /\ pc'[r] = "read" => work'[r] = "none"
      BY <2>2 DEF EnsureMetadata, Proceed
    <3>3. NotDrawing' /\ ViewsAreCurrent' /\ PromisesHold'
      BY <3>1, <3>2
    <3>4. StoredWereThere' /\ DraftsAreCurrent'
      BY <3>1, <3>2
    <3>5. MetadataIsCurrent'
      BY <3>1
    <3>6. DiagramsAreCurrent'
      BY <3>1
    <3> QED
      BY <3>3, <3>4, <3>5, <3>6
  <2>3. ASSUME NEW r \in Requests, ReadDir(r) PROVE CurrentInv'
    BY <2>3 DEF ReadDir
  <2>4. ASSUME NEW r \in Requests, Analyse(r) PROVE CurrentInv'
    <3>1. CASE Fails(r) /\ UNCHANGED draft
      BY <2>4, <3>1 DEF Analyse, Fails
    <3>2. CASE draft' = [draft EXCEPT ![r].ver = sources[draft[r].dir]]
      <4>1. draft'[r] = [dir |-> draft[r].dir, ver |-> sources[draft[r].dir]]
        BY <3>2 DEF Metadata
      <4>2. \A q \in Requests \ {r} : draft'[q] = draft[q]
        BY <3>2 DEF Metadata
      <4>3. CASE Fails(r)
        BY <2>4, <4>1, <4>2, <4>3 DEF Analyse, Fails
      <4>4. CASE ~Fails(r)
        <5>1. /\ pc' = [pc EXCEPT ![r] = "store"]
              /\ UNCHANGED <<server, sources, work, kind, page, view, history>>
          BY <2>4, <4>4 DEF Analyse, Fails
        <5>2. NotDrawing'
          BY <5>1, <2>4 DEF Analyse
        <5>7. ViewsAreCurrent'
          BY <5>1
        <5>8. PromisesHold'
          BY <5>1
        <5>6. MetadataIsCurrent'
          BY <5>1 DEF MetadataIsCurrent
        <5>3. StoredWereThere'
          BY <5>1, <4>1, <4>2
        <5>4. DraftsAreCurrent'
          <6>1. draft'[r].dir = draft[r].dir /\ draft'[r].ver = sources[draft[r].dir]
            BY <4>1
          <6>2. draft[r].dir \in Dirs
            OBVIOUS
          <6>3. draft'[r].dir = inputDir' \/ r \in overtaken'
            BY <5>1, <6>1, <2>4 DEF Analyse
          <6>4. draft'[r].ver >= newest'[draft'[r].dir]
            BY <5>1, <6>1, <6>2
          <6>5. \A q \in Requests \ {r} : pc'[q] = pc[q] /\ draft'[q] = draft[q]
            BY <5>1, <4>2
          <6>6. inputDir' = inputDir /\ newest' = newest /\ overtaken' = overtaken
            BY <5>1
          <6> QED
            BY <6>3, <6>4, <6>5, <6>6
        <5>5. DiagramsAreCurrent'
          BY <5>1
        <5> QED
          BY <5>2, <5>3, <5>4, <5>5, <5>6, <5>7, <5>8
      <4> QED
        BY <4>3, <4>4
    <3> QED
      BY <2>4, <3>1, <3>2 DEF Analyse
  <2>5. ASSUME NEW r \in Requests, StoreMetadata(r) PROVE CurrentInv'
    <3>1. /\ meta' = draft[r] /\ draft' = draft /\ sources' = sources
          /\ inputDir' = inputDir /\ view' = view
      BY <2>5 DEF StoreMetadata
    <3>2. lateMeta' <=> r \in overtaken
      BY <2>5 DEF StoreMetadata
    <3>3. newest' = [newest EXCEPT ![draft[r].dir] = Larger(@, draft[r].ver)]
      BY <2>5 DEF StoreMetadata
    <3>4. \A q \in Requests \ overtaken' : q = r \/ ~HasRead(q)
      BY <2>5 DEF StoreMetadata, Overtake
    <3>5. \A q \in Requests \ {r} : pc'[q] = pc[q] /\ work'[q] = work[q]
      BY <2>5 DEF StoreMetadata, Proceed
    <3>6. /\ pc'[r] \in {"read", "wait", "end"}
          /\ work'[r] \in {"none", "page", "data"}
          /\ pc'[r] = "read" => work'[r] = "none"
      BY <2>5 DEF StoreMetadata, Proceed
    <3>7. NotDrawing'
      BY <3>5, <3>6, <2>5 DEF StoreMetadata
    <3>8. StoredWereThere'
      BY <3>1, <3>3, <3>5, <3>6, <2>5 DEF StoreMetadata, Larger
    <3>9. DraftsAreCurrent'
      BY <3>4, <3>5, <3>6
    <3>12. ViewsAreCurrent'
      BY <3>4, <3>5, <3>6
    <3>13. PromisesHold'
      BY <3>1
    <3>10. MetadataIsCurrent'
      <4>1. CASE r \in overtaken
        BY <3>2, <4>1
      <4>2. CASE r \notin overtaken
        <5>1. draft[r].dir = inputDir /\ draft[r].ver >= newest[draft[r].dir]
          BY <4>2, <2>5 DEF StoreMetadata
        <5>2. newest'[draft[r].dir] = draft[r].ver
          <6>1. PICK d, v : d = draft[r].dir /\ v = draft[r].ver
            OBVIOUS
          <6>2. d \in Dirs /\ v \in Nat /\ DOMAIN newest = Dirs /\ newest[d] \in Nat
            BY <6>1
          <6>3. newest' = [newest EXCEPT ![d] = Larger(@, v)]
            BY <3>3, <6>1
          <6>4. newest'[d] = Larger(newest[d], v)
            BY ONLY <6>2, <6>3
          <6>5. v >= newest[d]
            BY <5>1, <6>1
          <6>6. Larger(newest[d], v) = v
            BY ONLY <6>2, <6>5 DEF Larger
          <6> QED
            BY <6>1, <6>4, <6>6
        <5> QED
          BY <5>1, <5>2, <3>1
      <4> QED
        BY <4>1, <4>2
    <3>11. DiagramsAreCurrent'
      BY <2>5 DEF StoreMetadata, DropCaches, EmptyDataCache, EmptyPageCache
    <3> QED
      BY <3>7, <3>8, <3>9, <3>10, <3>11, <3>12, <3>13
  <2>6. ASSUME NEW r \in Requests, SwitchTo(r) PROVE CurrentInv'
    <3>1. /\ meta' = None /\ draft' = draft /\ sources' = sources
          /\ newest' = newest /\ view' = view /\ work' = work
          /\ pc' = [pc EXCEPT ![r] = "end"]
      BY <2>6 DEF SwitchTo
    <3>2. \A q \in Requests \ overtaken' : q = r \/ ~HasRead(q)
      BY <2>6 DEF SwitchTo, Overtake
    <3>3. work[r] = "none"
      BY <2>6 DEF SwitchTo
    <3>4. NotDrawing' /\ StoredWereThere' /\ MetadataIsCurrent'
      BY <3>1
    <3>5. DraftsAreCurrent' /\ ViewsAreCurrent' /\ PromisesHold'
      BY <3>1, <3>2, <3>3
    <3>6. DiagramsAreCurrent'
      BY <2>6 DEF SwitchTo, DropOnSwitch, DropCaches, EmptyDataCache,
                  EmptyPageCache
    <3> QED
      BY <3>4, <3>5, <3>6
  <2>7. ASSUME NEW r \in Requests, ReadMetadata(r) PROVE CurrentInv'
    <3>1. /\ UNCHANGED <<server, sources, kind, page, draft, view, history>>
          /\ \A q \in Requests \ {r} : pc'[q] = pc[q] /\ work'[q] = work[q]
      BY <2>7 DEF ReadMetadata
    <3>2. \/ pc'[r] = "wait" /\ work'[r] = "data" /\ meta # None
          \/ pc'[r] = "end" /\ work'[r] = "none"
      BY <2>7 DEF ReadMetadata
    <3>3. NotDrawing' /\ StoredWereThere'
      BY <3>1, <3>2
    <3>4. DraftsAreCurrent'
      BY <3>1, <3>2
    <3>5. ViewsAreCurrent' /\ PromisesHold'
      BY <3>1, <3>2
    <3>6. MetadataIsCurrent'
      BY <3>1
    <3>7. DiagramsAreCurrent'
      BY <3>1
    <3> QED
      BY <3>3, <3>4, <3>5, <3>6, <3>7
  <2>8. ASSUME NEW r \in Requests, LookUpPage(r) PROVE CurrentInv'
    BY <2>8 DEF LookUpPage
  <2>9. ASSUME NEW r \in Requests, LookUpData(r) PROVE CurrentInv'
    BY <2>9 DEF LookUpData, DrawnThen
  <2>10. ASSUME NEW r \in Requests, Draw(r) PROVE CurrentInv'
    BY <2>10 DEF Draw
  <2>11. ASSUME NEW r \in Requests, KeepData(r) PROVE CurrentInv'
    BY <2>11 DEF KeepData, DrawnThen, LateWith
  <2>12. ASSUME NEW r \in Requests, KeepPage(r) PROVE CurrentInv'
    BY <2>12 DEF KeepPage, LateWith
  <2>13. ASSUME NEW r \in Requests, Deliver(r) PROVE CurrentInv'
    BY <2>13 DEF Deliver
  <2>14. ASSUME NEW r \in Requests, TimeOut(r) PROVE CurrentInv'
    BY <2>14 DEF TimeOut, TimesOut
  <2>15. ASSUME NEW d \in Dirs, Edit(d) PROVE CurrentInv'
    BY <2>15 DEF Edit
  <2>16. CASE UNCHANGED vars
    BY <2>16 DEF vars
  <2> QED
    BY <2>1, <2>2, <2>3, <2>4, <2>5, <2>6, <2>7, <2>8, <2>9,
       <2>10, <2>11, <2>12, <2>13, <2>14, <2>15, <2>16 DEF Step
<1> QED
  BY <1>1, <1>2, TypeCorrect, PTL DEF Spec

(* Old metadata, and a diagram drawn from other metadata than the current  *)
(* one, was stored by a request under which LoadMetadata or SetInputDir    *)
(* had replaced what it went by: loads, switches, timeouts, failures and   *)
(* abandoned drawings have no other way to leave any behind.               *)
THEOREM StaleOnlyWhenLate == Spec => []OnlyLateIsStale
<1>1. CurrentInv => OnlyLateIsStale
  BY DEF CurrentInv, OnlyLateIsStale
<1> QED
  BY <1>1, CurrentInductive, PTL

(* Nobody uses nil metadata unless a switch was made under the request     *)
(* (ensureMetadata and the unlocked reads of s.metadata after it).         *)
THEOREM NilOnlyAfterSwitch == Spec => []NoNilUnlessOvertaken
<1>1. CurrentInv => NoNilUnlessOvertaken
  BY DEF CurrentInv, PromisesHold, NoNilUnlessOvertaken
<1> QED
  BY <1>1, CurrentInductive, PTL

-----------------------------------------------------------------------------
(* The depths of functions.                                                *)

QueueEntries == [node : Nodes, depth : Nat]

DepthTypeOK ==
  /\ graph \in Graphs
  /\ queue \in Seq(QueueEntries)
  /\ DOMAIN depths \subseteq Nodes /\ depths \in [DOMAIN depths -> Nat]
  /\ visited \subseteq DOMAIN depths

RootNodes == {n \in Nodes : InDegree(n) = 0 \/ n \in graph.mains}

(* The entries of the queue have the depth of their node, a deeper one     *)
(* never before a shallower one, and no two of them are further apart than *)
(* one step.                                                               *)
QueueIsSorted ==
  \A k \in DOMAIN queue :
    /\ queue[k].node \in DOMAIN depths
    /\ depths[queue[k].node] = queue[k].depth
    /\ \A m \in 1..k : queue[m].depth <= queue[k].depth /\ queue[k].depth <= queue[m].depth + 1

(* What has been visited is no deeper than what waits, and whatever has a  *)
(* depth has been visited or waits.                                        *)
VisitedFirst ==
  /\ \A n \in visited : \A k \in DOMAIN queue : depths[n] <= queue[k].depth
  /\ \A n \in DOMAIN depths : n \in visited \/ \E k \in DOMAIN queue : queue[k].node = n

(* No call from a visited function leads further down than one step. *)
CallsAreShort ==
  \A i \in DOMAIN graph.edges :
    graph.edges[i][1] \in visited =>
      /\ graph.edges[i][2] \in DOMAIN depths
      /\ depths[graph.edges[i][2]] <= depths[graph.edges[i][1]] + 1

(* The roots are at depth 0, alone, and every other function with a depth  *)
(* has a caller one step above it.                                         *)
DepthsHaveReasons ==
  /\ RootNodes \subseteq DOMAIN depths /\ \A n \in RootNodes : depths[n] = 0
  /\ \A n \in DOMAIN depths :
       \/ n \in RootNodes
       \/ \E m \in DOMAIN depths : IsEdge(m, n) /\ depths[n] = depths[m] + 1

DepthInv ==
  /\ DepthTypeOK
  /\ QueueIsSorted
  /\ VisitedFirst
  /\ CallsAreShort
  /\ DepthsHaveReasons
(* Every set of naturals that is not empty has a least element. *)
LEMMA LeastOf ==
  ASSUME NEW S, S \subseteq Nat, S # {}
  PROVE  \E m \in S : \A n \in S : m <= n
<1>1. PICK m \in S : \A n \in S : ~(<<n, m>> \in OpToRel(<, Nat))
  BY NatLessThanWellFounded, WFMin
<1>2. ASSUME NEW n \in S
      PROVE  ~(n < m)
  <2>1. n < m => <<n, m>> \in OpToRel(<, Nat)
    BY Zenon DEF OpToRel
  <2> QED
    BY <1>1, <2>1
<1> QED
  BY <1>2

-----------------------------------------------------------------------------
(* InOrder lists each member of a finite set once, the smaller ones first. *)
LEMMA InOrderFacts ==
  ASSUME NEW S, S \subseteq Nat, IsFiniteSet(S)
  PROVE  /\ InOrder(S) \in Seq(S)
         /\ \A i \in S : \E k \in DOMAIN InOrder(S) : InOrder(S)[k] = i
         /\ \A k \in DOMAIN InOrder(S) : \A m \in 1..(k - 1) : InOrder(S)[m] < InOrder(S)[k]
<1> DEFINE upTo(i) == {j \in S : j <= i}
           rank(i) == Cardinality(upTo(i))
           n == Cardinality(S)
<1>1. n \in Nat
  BY FS_CardinalityType
<1>2. \A i \in S : rank(i) \in 1..n /\ IsFiniteSet(upTo(i))
  <2>1. SUFFICES ASSUME NEW i \in S PROVE rank(i) \in 1..n /\ IsFiniteSet(upTo(i))
    OBVIOUS
  <2>2. IsFiniteSet(upTo(i)) /\ rank(i) <= n /\ rank(i) \in Nat
    <3>1. upTo(i) \in SUBSET S
      OBVIOUS
    <3> HIDE DEF upTo
    <3> QED
      BY <3>1, FS_Subset, FS_CardinalityType
  <2>3. upTo(i) # {}
    OBVIOUS
  <2>4. rank(i) # 0
    <3> HIDE DEF upTo
    <3> QED
      BY <2>2, <2>3, FS_EmptySet
  <2> QED
    BY <1>1, <2>2, <2>4
<1>3. \A i, j \in S : i < j => rank(i) < rank(j)
  <2>1. SUFFICES ASSUME NEW i \in S, NEW j \in S, i < j PROVE rank(i) < rank(j)
    OBVIOUS
  <2>2. upTo(i) \in SUBSET upTo(j) /\ upTo(i) # upTo(j)
    <3>1. \A k \in S : k <= i => k <= j
      BY <2>1
    <3>2. j \in upTo(j) /\ j \notin upTo(i)
      BY <2>1
    <3> QED
      BY <3>1, <3>2
  <2>3. IsFiniteSet(upTo(j)) /\ rank(i) \in Nat /\ rank(j) \in Nat
    BY <1>1, <1>2
  <2> HIDE DEF upTo
  <2>4. rank(i) <= rank(j) /\ rank(i) # rank(j)
    BY <2>2, <2>3, FS_Subset
  <2> QED
    BY <2>3, <2>4
<1>4. \A k \in 1..n : \E i \in S : rank(i) = k
  <2>1. SUFFICES ASSUME NEW k \in 1..n, \A i \in S : rank(i) # k PROVE FALSE
    OBVIOUS
  <2> DEFINE T == (1..n) \ {k}
             f == [i \in S |-> rank(i)]
  <2>2. IsFiniteSet(1..n) /\ Cardinality(1..n) = n
    BY <1>1, FS_Interval
  <2>3. IsFiniteSet(T) /\ Cardinality(T) = n - 1
    BY <2>2, FS_RemoveElement
  <2>4. f \in [S -> T]
    BY <1>2, <2>1
  <2>5. \A x, y \in S : x # y => f[x] # f[y]
    <3>1. SUFFICES ASSUME NEW x \in S, NEW y \in S, x # y PROVE rank(x) # rank(y)
      OBVIOUS
    <3>2. x < y \/ y < x
      BY <3>1
    <3>3. rank(x) \in Nat /\ rank(y) \in Nat
      BY <1>1, <1>2
    <3> HIDE DEF rank
    <3> QED
      BY <1>3, <3>2, <3>3
  <2>6. Cardinality(T) < Cardinality(S)
    BY <1>1, <2>3
  <2> HIDE DEF T, f
  <2> QED
    BY <2>3, <2>4, <2>5, <2>6, FS_PigeonHole
<1>5. InOrder(S) = [k \in 1..n |-> CHOOSE i \in S : rank(i) = k]
  BY DEF InOrder
<1> HIDE DEF rank
<1>6. \A k \in 1..n : InOrder(S)[k] \in S /\ rank(InOrder(S)[k]) = k
  BY <1>4, <1>5
<1>7. DOMAIN InOrder(S) = 1..n
  BY <1>5
<1>8. InOrder(S) \in Seq(S)
  <2>1. InOrder(S) \in [1..n -> S]
    BY <1>5, <1>6
  <2> HIDE DEF n
  <2> QED
    BY <1>1, <2>1
<1>9. \A i \in S : \E k \in DOMAIN InOrder(S) : InOrder(S)[k] = i
  <2>1. SUFFICES ASSUME NEW i \in S
                 PROVE  rank(i) \in 1..n /\ InOrder(S)[rank(i)] = i
    BY <1>7
  <2>2. rank(i) \in 1..n
    BY <1>2
  <2>3. PICK j \in S : j = InOrder(S)[rank(i)] /\ rank(j) = rank(i)
    BY <1>6, <2>2
  <2>4. ~(i < j) /\ ~(j < i)
    BY <1>3, <2>2, <2>3
  <2> QED
    BY <2>2, <2>3, <2>4
<1>10. \A k \in DOMAIN InOrder(S) : \A m \in 1..(k - 1) : InOrder(S)[m] < InOrder(S)[k]
  <2>1. SUFFICES ASSUME NEW k \in 1..n, NEW m \in 1..(k - 1)
                 PROVE  InOrder(S)[m] < InOrder(S)[k]
    BY <1>7
  <2>2. m \in 1..n /\ m < k
    BY <1>1
  <2>3. PICK i \in S : i = InOrder(S)[k] /\ rank(i) = k
    BY <1>6
  <2>4. PICK j \in S : j = InOrder(S)[m] /\ rank(j) = m
    BY <1>6, <2>2
  <2>5. i # j /\ ~(i < j)
    BY <1>3, <2>2, <2>3, <2>4
  <2> QED
    BY <2>3, <2>4, <2>5
<1> QED
  BY <1>8, <1>9, <1>10

LEMMA ListsItsSet ==
  ASSUME NEW n \in Nat, NEW S \in SUBSET (1..n)
  PROVE  /\ InOrder(S) \in Seq(S) /\ Range(InOrder(S)) = S
         /\ DOMAIN InOrder(S) = 1..Len(InOrder(S)) /\ Len(InOrder(S)) \in Nat
         /\ \A k \in DOMAIN InOrder(S) : InOrder(S)[k] \in S
<1>1. S \subseteq Nat /\ IsFiniteSet(S)
  <2>1. IsFiniteSet(1..n)
    BY FS_Interval
  <2>2. IsFiniteSet(S)
    BY <2>1, FS_Subset
  <2>3. S \subseteq Nat
    OBVIOUS
  <2> QED
    BY <2>2, <2>3
<1>2. /\ InOrder(S) \in Seq(S)
      /\ \A i \in S : \E k \in DOMAIN InOrder(S) : InOrder(S)[k] = i
  BY <1>1, InOrderFacts
<1>3. \A k \in DOMAIN InOrder(S) : InOrder(S)[k] \in S
  BY <1>2, LenProperties, ElementOfSeq
<1> QED
  BY <1>2, <1>3, LenProperties DEF Range

LEMMA NaturalOrder ==
  /\ \A m, n \in Nat : m + 1 \in Nat /\ (m <= n => m <= n + 1)
  /\ \A l, m, n \in Nat : l <= m /\ m <= n => l <= n
  OBVIOUS

(* What a graph is made of. *)
LEMMA GraphFacts ==
  ASSUME graph \in Graphs
  PROVE  /\ graph.size \in Nat /\ graph.edges \in Seq(Nodes \X Nodes)
         /\ Len(graph.edges) \in Nat /\ DOMAIN graph.edges = 1..Len(graph.edges)
         /\ \A i \in DOMAIN graph.edges :
              /\ graph.edges[i][1] \in Nodes /\ graph.edges[i][2] \in Nodes
              /\ graph.edges[i] = <<graph.edges[i][1], graph.edges[i][2]>>
<1>1. graph.size \in Nat /\ graph.edges \in Seq(Nodes \X Nodes)
  BY GraphsAssumption DEF Nodes
<1>2. /\ Len(graph.edges) \in Nat /\ DOMAIN graph.edges = 1..Len(graph.edges)
      /\ \A i \in DOMAIN graph.edges : graph.edges[i] \in Nodes \X Nodes
  BY <1>1, LenProperties, ElementOfSeq
<1> QED
  BY <1>1, <1>2

LEMMA RootFacts ==
  ASSUME graph \in Graphs
  PROVE  /\ Roots \in Seq(RootNodes) /\ Range(Roots) = RootNodes
         /\ DOMAIN Roots = 1..Len(Roots) /\ Len(Roots) \in Nat
         /\ \A k \in DOMAIN Roots : Roots[k] \in RootNodes
<1>1. RootNodes \in SUBSET (1..graph.size) /\ graph.size \in Nat
  BY GraphFacts DEF RootNodes, Nodes
<1>2. Roots = InOrder(RootNodes)
  BY DEF Roots, RootNodes
<1> QED
  BY <1>1, <1>2, ListsItsSet

(* The neighbours that get the depth d: those without one as small. *)
LEMMA ImprovedFacts ==
  ASSUME graph \in Graphs, NEW n, NEW d
  PROVE  /\ Improved(n, d) \in Seq(Nodes) /\ Len(Improved(n, d)) \in Nat
         /\ DOMAIN Improved(n, d) = 1..Len(Improved(n, d))
         /\ Range(Improved(n, d)) = {m \in Nodes : IsEdge(n, m) /\ Lacks(m, d)}
<1> DEFINE Found == {i \in DOMAIN graph.edges :
                       /\ graph.edges[i][1] = n
                       /\ Lacks(graph.edges[i][2], d)
                       /\ \A j \in 1..(i - 1) : graph.edges[j] # graph.edges[i]}
<1>1. PICK found : found = InOrder(Found)
  OBVIOUS
<1>2. Improved(n, d) = [k \in DOMAIN found |-> graph.edges[found[k]][2]]
  BY <1>1 DEF Improved
<1>3. Found \in SUBSET (1..Len(graph.edges)) /\ Len(graph.edges) \in Nat
  BY GraphFacts
<1>4. /\ Range(found) = Found /\ DOMAIN found = 1..Len(found) /\ Len(found) \in Nat
      /\ \A k \in DOMAIN found : found[k] \in Found
  <2> HIDE DEF Found
  <2> QED
    BY <1>1, <1>3, ListsItsSet
<1>5. Improved(n, d) \in [1..Len(found) -> Nodes]
  BY <1>2, <1>4, GraphFacts
<1>6. /\ Improved(n, d) \in Seq(Nodes) /\ Len(Improved(n, d)) \in Nat
      /\ DOMAIN Improved(n, d) = 1..Len(Improved(n, d))
      /\ DOMAIN Improved(n, d) = DOMAIN found
  <2>1. Improved(n, d) \in Seq(Nodes)
    BY <1>4, <1>5
  <2> QED
    BY <1>2, <2>1, LenProperties
<1>7. ASSUME NEW m \in Nodes, IsEdge(n, m), Lacks(m, d)
      PROVE  m \in Range(Improved(n, d))
  <2>1. PICK i \in DOMAIN graph.edges : graph.edges[i] = <<n, m>>
    BY <1>7 DEF IsEdge
  <2>2. PICK same \in SUBSET DOMAIN graph.edges :
          same = {j \in DOMAIN graph.edges : graph.edges[j] = <<n, m>>}
    OBVIOUS
  <2>3. PICK j \in same : \A l \in same : j <= l
    <3>1. same \subseteq Nat /\ same # {}
      BY <2>1, <2>2, GraphFacts
    <3> QED
      BY <3>1, LeastOf
  <2>4. \A l \in 1..(j - 1) : l \in DOMAIN graph.edges /\ ~(j <= l)
    BY <2>2, GraphFacts
  <2>5. j \in Found
    BY <1>7, <2>2, <2>3, <2>4
  <2>6. PICK k \in DOMAIN found : found[k] = j
    BY <1>4, <2>5 DEF Range
  <2> QED
    BY <1>2, <2>2, <2>6 DEF Range
<1>8. ASSUME NEW m \in Range(Improved(n, d))
      PROVE  m \in Nodes /\ IsEdge(n, m) /\ Lacks(m, d)
  <2>1. PICK k \in DOMAIN found : m = graph.edges[found[k]][2]
    BY <1>2, <1>8 DEF Range
  <2>2. found[k] \in Found
    BY <1>4
  <2> QED
    BY <2>1, <2>2, GraphFacts DEF IsEdge
<1> QED
  BY <1>6, <1>7, <1>8
LEMMA DepthStart == ViewInit => DepthInv
<1> SUFFICES ASSUME ViewInit PROVE DepthInv
  OBVIOUS
<1>1. /\ graph \in Graphs /\ visited = {}
      /\ queue = [i \in DOMAIN Roots |-> [node |-> Roots[i], depth |-> 0]]
      /\ depths = [n \in RootNodes |-> 0]
  BY RootFacts DEF ViewInit
<1>2. /\ RootNodes \subseteq Nodes /\ Range(Roots) = RootNodes
      /\ DOMAIN Roots = 1..Len(Roots) /\ Len(Roots) \in Nat
      /\ \A k \in DOMAIN Roots : Roots[k] \in RootNodes
  BY <1>1, RootFacts DEF RootNodes
<1>3. queue \in Seq(QueueEntries) /\ DOMAIN queue = 1..Len(Roots)
  <2>1. queue \in [1..Len(Roots) -> QueueEntries]
    BY <1>1, <1>2 DEF QueueEntries
  <2> QED
    BY <1>2, <2>1
<1>4. DepthTypeOK
  BY <1>1, <1>2, <1>3 DEF DepthTypeOK
<1>5. QueueIsSorted
  <2>1. ASSUME NEW k \in DOMAIN queue
        PROVE  queue[k].node \in RootNodes /\ queue[k].depth = 0 /\ \A m \in 1..k : m \in DOMAIN queue
    BY <1>1, <1>2, <1>3
  <2> QED
    BY <1>1, <2>1 DEF QueueIsSorted
<1>6. VisitedFirst
  BY <1>1, <1>2, <1>3 DEF VisitedFirst, Range
<1>7. CallsAreShort /\ DepthsHaveReasons
  BY <1>1 DEF CallsAreShort, DepthsHaveReasons
<1> QED
  BY <1>4, <1>5, <1>6, <1>7 DEF DepthInv

(* A step of the search: the nodes in N get the depth d, and nothing that  *)
(* had a depth gets another.                                               *)
LEMMA DequeueFacts ==
  ASSUME DepthInv, Dequeue
  PROVE  \E n \in DOMAIN depths : \E N \in SUBSET Nodes : \E l \in Nat :
           /\ n = queue[1].node /\ depths[n] = queue[1].depth
           /\ N \intersect DOMAIN depths = {}
           /\ \A m \in N : IsEdge(n, m)
           /\ \A m \in Nodes : IsEdge(n, m) => \/ m \in N
                                               \/ m \in DOMAIN depths /\ depths[m] <= depths[n] + 1
           /\ DOMAIN depths' = DOMAIN depths \union N
           /\ depths' = [m \in DOMAIN depths' |-> depths'[m]]
           /\ \A m \in DOMAIN depths : depths'[m] = depths[m]
           /\ \A m \in N : depths'[m] = depths[n] + 1
           /\ visited' = visited \union {n} /\ graph' = graph
           /\ queue' \in Seq(QueueEntries)
           /\ DOMAIN queue' = 1..(Len(queue) - 1 + l) /\ DOMAIN queue = 1..Len(queue)
           /\ Len(queue) \in Nat \ {0}
           /\ \A k \in 1..(Len(queue) - 1) : queue'[k] = queue[k + 1]
           /\ \A k \in Len(queue)..(Len(queue) - 1 + l) :
                queue'[k].node \in N /\ queue'[k].depth = depths[n] + 1
           /\ \A m \in N : \E k \in DOMAIN queue' : queue'[k].node = m
<1>1. /\ graph \in Graphs /\ queue \in Seq(QueueEntries) /\ queue # <<>>
      /\ DOMAIN depths \subseteq Nodes /\ depths \in [DOMAIN depths -> Nat]
      /\ visited \subseteq DOMAIN depths
      /\ QueueIsSorted /\ VisitedFirst /\ CallsAreShort /\ DepthsHaveReasons
  BY DEF DepthInv, DepthTypeOK, Dequeue
<1>2. PICK L \in Nat \ {0} : L = Len(queue)
  BY <1>1, LenProperties, EmptySeq
<1>3. /\ DOMAIN queue = 1..L /\ 1 \in DOMAIN queue /\ Head(queue) = queue[1]
      /\ Tail(queue) \in Seq(QueueEntries) /\ Len(Tail(queue)) = L - 1
      /\ \A k \in 1..(L - 1) : Tail(queue)[k] = queue[k + 1]
      /\ \A k \in DOMAIN queue : queue[k] \in QueueEntries
  <2>1. DOMAIN queue = 1..L /\ \A k \in DOMAIN queue : queue[k] \in QueueEntries
    BY <1>1, <1>2, LenProperties, ElementOfSeq
  <2>2. /\ Tail(queue) \in Seq(QueueEntries) /\ Len(Tail(queue)) = L - 1
        /\ \A k \in 1..(L - 1) : Tail(queue)[k] = queue[k + 1]
    BY <1>1, <1>2, HeadTailProperties
  <2> QED
    BY <1>1, <2>1, <2>2
<1>4. PICK n \in DOMAIN depths : n = queue[1].node /\ depths[n] = queue[1].depth
  BY <1>1, <1>3 DEF QueueIsSorted
<1>5. PICK d \in Nat : d = depths[n] + 1
  BY <1>1
<1>6. PICK new : new = IF n \in visited THEN <<>> ELSE Improved(n, d)
  OBVIOUS
<1>7. PICK N : N = Range(new)
  OBVIOUS
<1>8. /\ queue' = Tail(queue) \o [i \in DOMAIN new |-> [node |-> new[i], depth |-> d]]
      /\ depths' = [m \in DOMAIN depths \union N |-> IF m \in N THEN d ELSE depths[m]]
      /\ visited' = visited \union {n} /\ graph' = graph
  BY <1>3, <1>4, <1>5, <1>6, <1>7 DEF Dequeue
(* Whatever has a depth is at most a step deeper than the first of the     *)
(* queue.                                                                  *)
<1>9. \A m \in DOMAIN depths : depths[m] <= d
  <2>1. SUFFICES ASSUME NEW m \in DOMAIN depths PROVE depths[m] <= d
    OBVIOUS
  <2>2. depths[m] \in Nat /\ depths[n] \in Nat
    BY <1>1
  <2>3. CASE m \in visited
    <3>1. depths[m] <= depths[n]
      BY <1>1, <1>3, <1>4, <2>3 DEF VisitedFirst
    <3> QED
      BY <1>5, <2>2, <3>1
  <2>4. CASE m \notin visited
    <3>1. PICK k \in DOMAIN queue : queue[k].node = m
      BY <1>1, <2>4 DEF VisitedFirst
    <3>2. 1 \in 1..k
      BY <1>3
    <3> QED
      BY <1>1, <1>4, <1>5, <3>1, <3>2 DEF QueueIsSorted
  <2> QED
    BY <2>3, <2>4
<1>10. /\ N \in SUBSET Nodes /\ new \in Seq(Nodes) /\ Len(new) \in Nat /\ DOMAIN new = 1..Len(new)
       /\ N \intersect DOMAIN depths = {} /\ \A m \in N : IsEdge(n, m)
       /\ \A m \in Nodes : IsEdge(n, m) => m \in N \/ (m \in DOMAIN depths /\ depths[m] <= d)
  <2>1. CASE n \in visited
    <3>1. new = <<>> /\ N = {}
      BY <1>6, <1>7, <2>1 DEF Range
    <3>2. new \in Seq(Nodes) /\ Len(new) = 0 /\ DOMAIN new = {}
      BY <3>1
    <3>3. DOMAIN new = 1..Len(new)
      BY <3>2
    <3>4. \A m \in Nodes : IsEdge(n, m) => m \in DOMAIN depths
      BY <1>1, <2>1 DEF CallsAreShort, IsEdge
    <3> QED
      BY <1>9, <3>1, <3>2, <3>3, <3>4
  <2>2. CASE n \notin visited
    <3>1. /\ new = Improved(n, d)
          /\ new \in Seq(Nodes) /\ Len(new) \in Nat /\ DOMAIN new = 1..Len(new)
          /\ N = {m \in Nodes : IsEdge(n, m) /\ Lacks(m, d)}
      BY <1>1, <1>6, <1>7, <2>2, ImprovedFacts
    <3>2. \A m \in Nodes : Lacks(m, d) <=> m \notin DOMAIN depths
      <4>1. \A m \in DOMAIN depths : depths[m] \in Nat /\ ~(d < depths[m])
        BY <1>1, <1>9
      <4> QED
        BY <4>1 DEF Lacks
    <3> QED
      BY <1>9, <3>1, <3>2
  <2> QED
    BY <2>1, <2>2
<1>11. PICK added : added = [i \in DOMAIN new |-> [node |-> new[i], depth |-> d]]
  OBVIOUS
<1>12. PICK l \in Nat : l = Len(new)
  BY <1>10
<1>13. /\ added \in Seq(QueueEntries) /\ Len(added) = l /\ DOMAIN added = 1..l
       /\ \A k \in 1..l : added[k].node = new[k] /\ added[k].depth = d
  <2>1. \A k \in 1..l : new[k] \in Nodes
    BY <1>10, <1>12, ElementOfSeq
  <2>2. added \in [1..l -> QueueEntries]
    BY <1>10, <1>11, <1>12, <2>1 DEF QueueEntries
  <2>3. added \in Seq(QueueEntries) /\ DOMAIN added = 1..l
    BY <2>2
  <2>4. Len(added) = l
    BY <2>3, LenProperties
  <2> QED
    BY <1>10, <1>11, <1>12, <2>3, <2>4
<1>14. /\ queue' \in Seq(QueueEntries) /\ DOMAIN queue' = 1..(L - 1 + l)
       /\ \A k \in 1..(L - 1) : queue'[k] = queue[k + 1]
       /\ \A k \in L..(L - 1 + l) : k - (L - 1) \in 1..l /\ queue'[k] = added[k - (L - 1)]
  <2>1. /\ queue' \in Seq(QueueEntries) /\ Len(queue') = L - 1 + l
        /\ \A k \in 1..(L - 1 + l) :
             queue'[k] = IF k <= L - 1 THEN Tail(queue)[k] ELSE added[k - (L - 1)]
    <3>1. PICK rest : rest = Tail(queue)
      OBVIOUS
    <3>2. /\ rest \in Seq(QueueEntries) /\ Len(rest) = L - 1
          /\ queue' = rest \o added
      BY <1>3, <1>8, <1>11, <3>1
    <3> QED
      BY <1>13, <3>1, <3>2, ConcatProperties
  <2>2. DOMAIN queue' = 1..(L - 1 + l)
    BY <2>1, LenProperties
  <2>3. \A k \in 1..(L - 1) : k \in 1..(L - 1 + l) /\ k <= L - 1
    OBVIOUS
  <2>4. \A k \in L..(L - 1 + l) : k \in 1..(L - 1 + l) /\ ~(k <= L - 1) /\ k - (L - 1) \in 1..l
    OBVIOUS
  <2> QED
    BY <1>3, <2>1, <2>2, <2>3, <2>4
<1>15. ASSUME NEW k \in L..(L - 1 + l)
       PROVE  queue'[k].node \in N /\ queue'[k].depth = d
  <2>1. k - (L - 1) \in 1..l /\ queue'[k] = added[k - (L - 1)]
    BY <1>14
  <2>2. \A i \in 1..l : new[i] \in N
    BY <1>7, <1>10, <1>12 DEF Range
  <2> QED
    BY <1>13, <2>1, <2>2
<1>16. ASSUME NEW m \in N
       PROVE  \E k \in DOMAIN queue' : queue'[k].node = m
  <2>1. PICK i \in 1..l : new[i] = m
    BY <1>7, <1>10, <1>12 DEF Range
  <2>2. PICK k \in L..(L - 1 + l) : k - (L - 1) = i /\ k \in 1..(L - 1 + l)
    <3>1. /\ i + (L - 1) \in L..(L - 1 + l) /\ i + (L - 1) \in 1..(L - 1 + l)
          /\ (i + (L - 1)) - (L - 1) = i
      OBVIOUS
    <3> QED
      BY <3>1
  <2>3. k \in DOMAIN queue' /\ queue'[k] = added[i]
    BY <1>14, <2>2
  <2> QED
    BY <1>13, <2>1, <2>3
<1>17. /\ DOMAIN depths' = DOMAIN depths \union N
       /\ depths' = [m \in DOMAIN depths' |-> depths'[m]]
       /\ \A m \in DOMAIN depths : depths'[m] = depths[m]
       /\ \A m \in N : depths'[m] = d
  BY <1>8, <1>10
<1> N \in SUBSET Nodes
  BY <1>10
<1> WITNESS n \in DOMAIN depths, N \in SUBSET Nodes, l \in Nat
<1> QED
  BY <1>2, <1>3, <1>4, <1>5, <1>8, <1>10, <1>14, <1>15, <1>16, <1>17

LEMMA DequeueKeeps ==
  ASSUME DepthInv, Dequeue
  PROVE  DepthInv'
<1>1. /\ graph \in Graphs /\ queue \in Seq(QueueEntries)
      /\ DOMAIN depths \subseteq Nodes /\ depths \in [DOMAIN depths -> Nat]
      /\ visited \subseteq DOMAIN depths
      /\ QueueIsSorted /\ VisitedFirst /\ CallsAreShort /\ DepthsHaveReasons
  BY DEF DepthInv, DepthTypeOK
<1>2. PICK n \in DOMAIN depths, N \in SUBSET Nodes, l \in Nat :
           /\ n = queue[1].node /\ depths[n] = queue[1].depth
           /\ N \intersect DOMAIN depths = {}
           /\ \A m \in N : IsEdge(n, m)
           /\ \A m \in Nodes : IsEdge(n, m) => \/ m \in N
                                               \/ m \in DOMAIN depths /\ depths[m] <= depths[n] + 1
           /\ DOMAIN depths' = DOMAIN depths \union N
           /\ depths' = [m \in DOMAIN depths' |-> depths'[m]]
           /\ \A m \in DOMAIN depths : depths'[m] = depths[m]
           /\ \A m \in N : depths'[m] = depths[n] + 1
           /\ visited' = visited \union {n} /\ graph' = graph
           /\ queue' \in Seq(QueueEntries)
           /\ DOMAIN queue' = 1..(Len(queue) - 1 + l) /\ DOMAIN queue = 1..Len(queue)
           /\ Len(queue) \in Nat \ {0}
           /\ \A k \in 1..(Len(queue) - 1) : queue'[k] = queue[k + 1]
           /\ \A k \in Len(queue)..(Len(queue) - 1 + l) :
                queue'[k].node \in N /\ queue'[k].depth = depths[n] + 1
           /\ \A m \in N : \E k \in DOMAIN queue' : queue'[k].node = m
  BY DequeueFacts
<1>3. PICK L \in Nat \ {0} : L = Len(queue)
  BY <1>2
<1>4. PICK d \in Nat : d = depths[n]
  BY <1>1
<1>5. /\ \A m \in DOMAIN depths : depths[m] \in Nat
      /\ \A k \in DOMAIN queue : queue[k].depth \in Nat
  <2>1. \A k \in DOMAIN queue : queue[k] \in QueueEntries
    BY <1>1, <1>2, ElementOfSeq
  <2> QED
    BY <1>1, <2>1 DEF QueueEntries
<1>6. DepthTypeOK'
  <2>1. \A m \in DOMAIN depths' : depths'[m] \in Nat
    BY <1>2, <1>4, <1>5
  <2>2. depths' \in [DOMAIN depths' -> Nat]
    BY <1>2, <2>1
  <2>3. Nodes' = Nodes /\ QueueEntries' = QueueEntries
    BY <1>2 DEF Nodes, QueueEntries
  <2>4. DOMAIN depths' \subseteq Nodes /\ visited' \subseteq DOMAIN depths' /\ graph' \in Graphs
    BY <1>1, <1>2
  <2> QED
    BY <1>2, <2>2, <2>3, <2>4 DEF DepthTypeOK
(* Old entries move up by one, new ones are a step below the first. *)
<1>7. \A k \in DOMAIN queue' :
        \/ k + 1 \in DOMAIN queue /\ queue'[k] = queue[k + 1] /\ k \in 1..(L - 1)
        \/ k \in L..(L - 1 + l) /\ queue'[k].node \in N /\ queue'[k].depth = d + 1
  <2>1. \A k \in 1..(L - 1 + l) : k \in 1..(L - 1) \/ k \in L..(L - 1 + l)
    OBVIOUS
  <2>2. \A k \in 1..(L - 1) : k + 1 \in 1..L
    OBVIOUS
  <2> QED
    BY <1>2, <1>3, <1>4, <2>1, <2>2
<1>8. \A k \in DOMAIN queue : /\ d <= queue[k].depth /\ queue[k].depth <= d + 1
                              /\ queue[k].node \in DOMAIN depths
                              /\ depths[queue[k].node] = queue[k].depth
  <2>1. \A k \in DOMAIN queue : 1 \in 1..k
    BY <1>2
  <2> QED
    BY <1>1, <1>2, <1>4, <2>1 DEF QueueIsSorted
<1>9. QueueIsSorted'
  <2>1. SUFFICES ASSUME NEW k \in DOMAIN queue'
                 PROVE  /\ queue'[k].node \in DOMAIN depths'
                        /\ depths'[queue'[k].node] = queue'[k].depth
                        /\ \A m \in 1..k : /\ queue'[m].depth <= queue'[k].depth
                                           /\ queue'[k].depth <= queue'[m].depth + 1
    BY DEF QueueIsSorted
  <2>2. queue'[k].node \in DOMAIN depths' /\ depths'[queue'[k].node] = queue'[k].depth
    BY <1>2, <1>4, <1>7, <1>8
  <2>3. ASSUME NEW m \in 1..k
        PROVE  queue'[m].depth <= queue'[k].depth /\ queue'[k].depth <= queue'[m].depth + 1
    <3>1. m \in DOMAIN queue' /\ m \in Nat /\ k \in Nat /\ m <= k
      BY <1>2
    <3>2. CASE k + 1 \in DOMAIN queue /\ queue'[k] = queue[k + 1] /\ k \in 1..(L - 1)
      <4>1. m \in 1..(L - 1) /\ m + 1 \in 1..(k + 1)
        BY <3>1, <3>2
      <4>2. queue'[m] = queue[m + 1]
        BY <1>2, <1>3, <4>1
      <4> QED
        BY <1>1, <3>2, <4>1, <4>2 DEF QueueIsSorted
    <3>3. CASE k \in L..(L - 1 + l) /\ queue'[k].node \in N /\ queue'[k].depth = d + 1
      <4>1. CASE m + 1 \in DOMAIN queue /\ queue'[m] = queue[m + 1] /\ m \in 1..(L - 1)
        <5>1. d <= queue'[m].depth /\ queue'[m].depth <= d + 1 /\ queue'[m].depth \in Nat
          BY <1>5, <1>8, <4>1
        <5> QED
          BY <3>3, <5>1
      <4>2. CASE queue'[m].depth = d + 1
        BY <3>3, <4>2
      <4> QED
        BY <1>7, <3>1, <4>1, <4>2
    <3> QED
      BY <1>7, <3>2, <3>3
  <2> QED
    BY <2>2, <2>3
<1>10. VisitedFirst'
  <2>1. ASSUME NEW m \in visited', NEW k \in DOMAIN queue'
        PROVE  depths'[m] <= queue'[k].depth
    <3>1. m \in DOMAIN depths /\ depths'[m] = depths[m] /\ depths[m] \in Nat
      BY <1>1, <1>2, <1>5
    <3>2. depths[m] <= d
      <4>1. CASE m = n
        BY <1>4, <4>1
      <4>2. CASE m \in visited
        <5>1. 1 \in DOMAIN queue
          BY <1>2
        <5> QED
          BY <1>1, <1>2, <1>4, <4>2, <5>1 DEF VisitedFirst
      <4> QED
        BY <1>2, <4>1, <4>2
    <3>3. d <= queue'[k].depth /\ queue'[k].depth \in Nat
      <4>1. CASE k + 1 \in DOMAIN queue /\ queue'[k] = queue[k + 1]
        BY <1>5, <1>8, <4>1
      <4>2. CASE queue'[k].depth = d + 1
        BY <4>2
      <4> QED
        BY <1>7, <4>1, <4>2
    <3> QED
      BY <3>1, <3>2, <3>3
  <2>2. ASSUME NEW m \in DOMAIN depths'
        PROVE  m \in visited' \/ \E k \in DOMAIN queue' : queue'[k].node = m
    <3>1. CASE m \in N
      BY <1>2, <3>1
    <3>2. CASE m \in DOMAIN depths
      <4>1. CASE m \in visited
        BY <1>2, <4>1
      <4>2. ASSUME NEW k \in DOMAIN queue, queue[k].node = m
            PROVE  m \in visited' \/ \E j \in DOMAIN queue' : queue'[j].node = m
        <5>1. CASE k = 1
          BY <1>2, <4>2, <5>1
        <5>2. CASE k # 1
          <6>1. k - 1 \in 1..(L - 1) /\ (k - 1) + 1 = k /\ k - 1 \in 1..(L - 1 + l)
            BY <1>2, <1>3, <5>2
          <6>2. k - 1 \in DOMAIN queue' /\ queue'[k - 1] = queue[k]
            BY <1>2, <1>3, <6>1
          <6> QED
            BY <4>2, <6>2
        <5> QED
          BY <5>1, <5>2
      <4> QED
        BY <1>1, <3>2, <4>1, <4>2 DEF VisitedFirst
    <3> QED
      BY <1>2, <3>1, <3>2
  <2> QED
    BY <2>1, <2>2 DEF VisitedFirst
<1>11. CallsAreShort'
  <2>1. SUFFICES ASSUME NEW i \in DOMAIN graph.edges, graph.edges[i][1] \in visited'
                 PROVE  /\ graph.edges[i][2] \in DOMAIN depths'
                        /\ depths'[graph.edges[i][2]] <= depths'[graph.edges[i][1]] + 1
    BY <1>2 DEF CallsAreShort
  <2>2. PICK a \in Nodes, b \in Nodes : a = graph.edges[i][1] /\ b = graph.edges[i][2] /\ IsEdge(a, b)
    <3>1. /\ graph.edges[i][1] \in Nodes /\ graph.edges[i][2] \in Nodes
          /\ graph.edges[i] = <<graph.edges[i][1], graph.edges[i][2]>>
      BY <1>1, GraphFacts
    <3>2. IsEdge(graph.edges[i][1], graph.edges[i][2])
      BY <3>1 DEF IsEdge
    <3> QED
      BY <3>1, <3>2
  <2>3. CASE a \in visited
    <3>1. a \in DOMAIN depths /\ b \in DOMAIN depths /\ depths[b] <= depths[a] + 1
      BY <1>1, <2>2, <2>3 DEF CallsAreShort
    <3> QED
      BY <1>2, <2>2, <3>1
  <2>4. CASE a = n
    <3>1. CASE b \in N
      <4>1. depths'[b] = d + 1 /\ depths'[a] = d
        BY <1>2, <1>4, <2>4, <3>1
      <4> QED
        BY <1>2, <2>2, <3>1, <4>1
    <3>2. CASE b \in DOMAIN depths /\ depths[b] <= depths[n] + 1
      BY <1>2, <2>2, <2>4, <3>2
    <3> QED
      BY <1>2, <2>2, <2>4, <3>1, <3>2
  <2> QED
    BY <1>2, <2>1, <2>2, <2>3, <2>4
<1>12. DepthsHaveReasons'
  <2>1. RootNodes' = RootNodes /\ \A a, b : IsEdge(a, b)' <=> IsEdge(a, b)
    BY <1>2 DEF RootNodes, Nodes, InDegree, IsEdge
  <2>2. RootNodes \subseteq DOMAIN depths' /\ \A m \in RootNodes : depths'[m] = 0
    BY <1>1, <1>2 DEF DepthsHaveReasons
  <2>3. ASSUME NEW m \in DOMAIN depths'
        PROVE  \/ m \in RootNodes
               \/ \E p \in DOMAIN depths' : IsEdge(p, m) /\ depths'[m] = depths'[p] + 1
    <3>1. CASE m \in N
      BY <1>2, <3>1
    <3>2. CASE m \in DOMAIN depths
      BY <1>1, <1>2, <3>2 DEF DepthsHaveReasons
    <3> QED
      BY <1>2, <3>1, <3>2
  <2> QED
    BY <2>1, <2>2, <2>3 DEF DepthsHaveReasons
<1> QED
  BY <1>6, <1>9, <1>10, <1>11, <1>12 DEF DepthInv

LEMMA DepthsKept ==
  ASSUME DepthInv, UNCHANGED <<graph, queue, depths, visited>>
  PROVE  DepthInv'
<1>1. graph' = graph /\ queue' = queue /\ depths' = depths /\ visited' = visited
  OBVIOUS
<1>2. DepthTypeOK' <=> DepthTypeOK
  BY <1>1 DEF DepthTypeOK, QueueEntries, Nodes
<1>3. QueueIsSorted' <=> QueueIsSorted
  BY <1>1 DEF QueueIsSorted
<1>4. VisitedFirst' <=> VisitedFirst
  BY <1>1 DEF VisitedFirst
<1>5. CallsAreShort' <=> CallsAreShort
  BY <1>1 DEF CallsAreShort
<1>6. DepthsHaveReasons' <=> DepthsHaveReasons
  <2>1. RootNodes' = RootNodes /\ \A a, b : IsEdge(a, b)' <=> IsEdge(a, b)
    BY <1>1 DEF RootNodes, Nodes, InDegree, IsEdge
  <2> QED
    BY <1>1, <2>1 DEF DepthsHaveReasons
<1> QED
  BY <1>2, <1>3, <1>4, <1>5, <1>6 DEF DepthInv

LEMMA DepthHolds == ViewSpec => []DepthInv
<1>1. ASSUME DepthInv, [ViewNext]_viewVars PROVE DepthInv'
  BY <1>1, DequeueKeeps, DepthsKept DEF ViewNext, Ask, viewVars
<1> QED
  BY <1>1, DepthStart, PTL DEF ViewSpec

-----------------------------------------------------------------------------
(* Distances.                                                              *)

(* The equation Within is defined by. *)
Widens(w) ==
  w = [e \in Nat |-> IF e = 0 THEN Range(Roots)
                     ELSE w[e - 1] \union {n \in Nodes : \E m \in w[e - 1] : IsEdge(m, n)}]

(* When the queue is empty what has a depth of at most e solves it. *)
LEMMA DepthsWiden ==
  ASSUME DepthInv, queue = <<>>,
         NEW w, w = [e \in Nat |-> {n \in DOMAIN depths : depths[n] <= e}]
  PROVE  Widens(w)
<1>1. /\ graph \in Graphs /\ DOMAIN depths \subseteq Nodes
      /\ \A n \in DOMAIN depths : depths[n] \in Nat
      /\ VisitedFirst /\ CallsAreShort /\ DepthsHaveReasons
  BY DEF DepthInv, DepthTypeOK
<1>2. \A n \in DOMAIN depths : n \in visited
  <2>1. DOMAIN queue = {}
    OBVIOUS
  <2> QED
    BY <1>1, <2>1 DEF VisitedFirst
<1>3. \A m \in DOMAIN depths, n \in Nodes :
        IsEdge(m, n) => n \in DOMAIN depths /\ depths[n] <= depths[m] + 1
  BY <1>1, <1>2 DEF CallsAreShort, IsEdge
<1>4. w[0] = Range(Roots)
  <2>1. \A n \in DOMAIN depths : depths[n] <= 0 <=> n \in RootNodes
    <3>1. SUFFICES ASSUME NEW n \in DOMAIN depths PROVE depths[n] <= 0 <=> n \in RootNodes
      OBVIOUS
    <3>2. CASE n \in RootNodes
      BY <1>1, <3>2 DEF DepthsHaveReasons
    <3>3. CASE n \notin RootNodes
      <4>1. PICK m \in DOMAIN depths : depths[n] = depths[m] + 1
        BY <1>1, <3>3 DEF DepthsHaveReasons
      <4>2. depths[m] \in Nat
        BY <1>1
      <4> QED
        BY <3>3, <4>1, <4>2
    <3> QED
      BY <3>2, <3>3
  <2>2. w[0] = {n \in DOMAIN depths : depths[n] <= 0}
    OBVIOUS
  <2> QED
    BY <1>1, <2>1, <2>2, RootFacts DEF DepthsHaveReasons
<1>5. ASSUME NEW e \in Nat \ {0}
      PROVE  w[e] = w[e - 1] \union {n \in Nodes : \E m \in w[e - 1] : IsEdge(m, n)}
  <2>1. /\ e - 1 \in Nat /\ w[e] = {n \in DOMAIN depths : depths[n] <= e}
        /\ w[e - 1] = {n \in DOMAIN depths : depths[n] <= e - 1}
    OBVIOUS
  <2>2. ASSUME NEW n \in w[e]
        PROVE  n \in w[e - 1] \/ (n \in Nodes /\ \E m \in w[e - 1] : IsEdge(m, n))
    <3>1. n \in DOMAIN depths /\ depths[n] <= e /\ depths[n] \in Nat /\ n \in Nodes
      BY <1>1, <2>1, <2>2
    <3>2. CASE depths[n] <= e - 1
      BY <2>1, <3>1, <3>2
    <3>3. CASE depths[n] = e
      <4>1. n \notin RootNodes
        BY <1>1, <3>3 DEF DepthsHaveReasons
      <4>2. PICK m \in DOMAIN depths : IsEdge(m, n) /\ depths[n] = depths[m] + 1
        BY <1>1, <3>1, <4>1 DEF DepthsHaveReasons
      <4>3. depths[m] <= e - 1
        BY <1>1, <3>3, <4>2
      <4> QED
        BY <2>1, <3>1, <4>2, <4>3
    <3> QED
      BY <3>1, <3>2, <3>3
  <2>3. ASSUME NEW n \in w[e - 1]
        PROVE  n \in w[e]
    <3>1. n \in DOMAIN depths /\ depths[n] <= e - 1 /\ depths[n] \in Nat
      BY <1>1, <2>1, <2>3
    <3>2. depths[n] <= e
      BY <3>1
    <3> QED
      BY <2>1, <3>1, <3>2
  <2>4. ASSUME NEW n \in Nodes, NEW m \in w[e - 1], IsEdge(m, n)
        PROVE  n \in w[e]
    <3>1. m \in DOMAIN depths /\ depths[m] <= e - 1 /\ depths[m] \in Nat
      BY <1>1, <2>1, <2>4
    <3>2. n \in DOMAIN depths /\ depths[n] <= depths[m] + 1 /\ depths[n] \in Nat
      BY <1>1, <1>3, <2>4, <3>1
    <3>3. depths[n] <= e
      BY <3>1, <3>2
    <3> QED
      BY <2>1, <3>2, <3>3
  <2> QED
    BY <2>2, <2>3, <2>4
<1>6. \A e \in Nat : w[e] = IF e = 0 THEN Range(Roots)
                            ELSE w[e - 1] \union {n \in Nodes : \E m \in w[e - 1] : IsEdge(m, n)}
  BY <1>4, <1>5
<1>7. DOMAIN w = Nat /\ w = [e \in Nat |-> w[e]]
  OBVIOUS
<1> QED
  BY <1>6, <1>7 DEF Widens

LEMMA WithinIsChosen ==
  ASSUME NEW w, Widens(w)
  PROVE  Widens(Within)
<1>1. Within = CHOOSE v : Widens(v)
  BY Zenon DEF Within, Widens
<1> QED
  BY <1>1

(* And nothing else does: at the first e where two solutions differ they   *)
(* would have been made from the same.                                     *)
LEMMA WidensOnce ==
  ASSUME NEW v, Widens(v), NEW w, Widens(w)
  PROVE  \A e \in Nat : v[e] = w[e]
<1> DEFINE Differ == {e \in Nat : v[e] # w[e]}
<1> SUFFICES ASSUME Differ # {} PROVE FALSE
  OBVIOUS
<1>1. PICK e \in Differ : \A m \in Differ : e <= m
  BY LeastOf
<1>2. /\ \A m \in Nat : v[m] = IF m = 0 THEN Range(Roots)
                               ELSE v[m - 1] \union {n \in Nodes : \E p \in v[m - 1] : IsEdge(p, n)}
      /\ \A m \in Nat : w[m] = IF m = 0 THEN Range(Roots)
                               ELSE w[m - 1] \union {n \in Nodes : \E p \in w[m - 1] : IsEdge(p, n)}
  BY DEF Widens
<1>3. e \in Nat /\ v[e] # w[e]
  BY <1>1
<1>4. e # 0
  BY <1>2, <1>3
<1>5. e - 1 \in Nat /\ ~(e <= e - 1)
  BY <1>3, <1>4
<1>6. v[e - 1] = w[e - 1]
  BY <1>1, <1>5
<1> HIDE DEF Differ
<1>7. PICK near : near = v[e - 1] /\ near = w[e - 1]
  BY <1>6
<1>8. v[e] = near \union {n \in Nodes : \E p \in near : IsEdge(p, n)}
  BY <1>2, <1>3, <1>4, <1>7
<1>9. w[e] = near \union {n \in Nodes : \E p \in near : IsEdge(p, n)}
  BY <1>2, <1>3, <1>4, <1>7
<1> QED
  BY <1>3, <1>8, <1>9

(* No depth is skipped on the way to a function, so there are as many      *)
(* functions as depths.                                                    *)
LEMMA DepthsAreSmall ==
  ASSUME DepthInv, NEW n \in DOMAIN depths
  PROVE  depths[n] <= graph.size
<1>1. /\ graph \in Graphs /\ graph.size \in Nat /\ DOMAIN depths \subseteq Nodes
      /\ \A m \in DOMAIN depths : depths[m] \in Nat
      /\ DepthsHaveReasons /\ Nodes = 1..graph.size
  BY GraphFacts DEF DepthInv, DepthTypeOK, Nodes
<1>2. PICK d \in Nat : d = depths[n]
  BY <1>1
<1>3. \A e \in 0..d : \E m \in DOMAIN depths : depths[m] = e
  <2> DEFINE Skipped == {j \in 0..d : ~\E m \in DOMAIN depths : depths[m] = d - j}
  <2>1. SUFFICES ASSUME Skipped # {} PROVE FALSE
    <3>1. SUFFICES ASSUME NEW e \in 0..d PROVE \E m \in DOMAIN depths : depths[m] = e
      OBVIOUS
    <3>2. d - e \in 0..d /\ d - (d - e) = e
      OBVIOUS
    <3> QED
      BY <2>1, <3>2
  <2>2. PICK j \in Skipped : \A i \in Skipped : j <= i
    <3>1. Skipped \subseteq Nat
      OBVIOUS
    <3> QED
      BY <2>1, <3>1, LeastOf
  <2>3. j \in 0..d /\ ~\E m \in DOMAIN depths : depths[m] = d - j
    BY <2>2
  <2>4. j # 0
    BY <1>2, <2>3
  <2>5. j - 1 \in 0..d /\ ~(j <= j - 1)
    BY <2>3, <2>4
  <2>6. PICK m \in DOMAIN depths : depths[m] = d - (j - 1)
    BY <2>2, <2>5
  <2>7. depths[m] # 0
    BY <2>3, <2>6
  <2>8. PICK p \in DOMAIN depths : depths[m] = depths[p] + 1
    BY <1>1, <2>7 DEF DepthsHaveReasons
  <2>9. depths[p] = d - j
    BY <1>1, <2>3, <2>6, <2>8
  <2> QED
    BY <2>3, <2>9
<1>4. PICK f : f = [e \in 0..d |-> CHOOSE m \in DOMAIN depths : depths[m] = e]
  OBVIOUS
<1>5. \A e \in 0..d : f[e] \in DOMAIN depths /\ depths[f[e]] = e
  BY <1>3, <1>4
<1>6. f \in [0..d -> Nodes]
  BY <1>1, <1>4, <1>5
<1>7. \A x, y \in 0..d : x # y => f[x] # f[y]
  BY <1>5
<1>8. /\ IsFiniteSet(Nodes) /\ Cardinality(Nodes) = graph.size
      /\ IsFiniteSet(0..d) /\ Cardinality(0..d) = d + 1
  <2>1. IsFiniteSet(1..graph.size) /\ Cardinality(1..graph.size) = graph.size
    <3>1. PICK n1 \in Nat : n1 = graph.size
      BY <1>1
    <3>2. IsFiniteSet(1..n1) /\ Cardinality(1..n1) = IF 1 > n1 THEN 0 ELSE n1 - 1 + 1
      BY FS_Interval
    <3> QED
      BY <3>1, <3>2
  <2>2. IsFiniteSet(0..d) /\ Cardinality(0..d) = d + 1
    BY FS_Interval
  <2> QED
    BY <1>1, <2>1, <2>2
<1>9. ~(graph.size < d + 1)
  BY <1>6, <1>7, <1>8, FS_PigeonHole
<1> QED
  BY <1>1, <1>2, <1>9

(* Whatever the order of the calls, a function's depth is its distance     *)
(* from the roots, and those no root reaches have none (server.go:911).    *)
THEOREM DepthExact == ViewSpec => []DepthIsDistance
<1>1. ASSUME DepthInv PROVE DepthIsDistance
  <2>1. SUFFICES ASSUME queue = <<>>
                 PROVE  /\ DOMAIN depths = Within[graph.size]
                        /\ \A n \in DOMAIN depths :
                             /\ n \in Within[depths[n]]
                             /\ depths[n] > 0 => n \notin Within[depths[n] - 1]
    BY DEF DepthIsDistance
  <2>2. PICK w : w = [e \in Nat |-> {n \in DOMAIN depths : depths[n] <= e}]
    OBVIOUS
  <2>3. Widens(w)
    BY <1>1, <2>1, <2>2, DepthsWiden
  <2>4. \A e \in Nat : Within[e] = {n \in DOMAIN depths : depths[n] <= e}
    BY <2>2, <2>3, WithinIsChosen, WidensOnce
  <2>5. graph.size \in Nat /\ \A n \in DOMAIN depths : depths[n] \in Nat
    BY <1>1, GraphFacts DEF DepthInv, DepthTypeOK
  <2>6. DOMAIN depths = Within[graph.size]
    BY <1>1, <2>4, <2>5, DepthsAreSmall
  <2>7. ASSUME NEW n \in DOMAIN depths
        PROVE  n \in Within[depths[n]] /\ (depths[n] > 0 => n \notin Within[depths[n] - 1])
    <3>1. \A e \in Nat : e <= e /\ (e > 0 => e - 1 \in Nat /\ ~(e <= e - 1))
      OBVIOUS
    <3> QED
      BY <2>4, <2>5, <3>1
  <2> QED
    BY <2>6, <2>7
<1> QED
  BY <1>1, DepthHolds, PTL

-----------------------------------------------------------------------------
(* Pages.                                                                  *)

LEMMA ProductsGrow ==
  \A s, a, b \in Nat : a <= b => a * s <= b * s
  BY SMT

LEMMA ProductFacts ==
  \A s, a \in Nat : /\ a * s \in Nat /\ 0 * s = 0 /\ 1 * s = s
                    /\ (a + 1) * s = a * s + s
                    /\ a > 0 => (a - 1) * s = a * s - s /\ (a - 1) * s \in Nat
  BY SMT

(* Each place is on one page. *)
LEMMA PageOfPlace ==
  ASSUME NEW s \in Nat \ {0}, NEW k \in Nat \ {0}
  PROVE  \E p \in Nat \ {0} :
           /\ (p - 1) * s < k /\ k <= p * s
           /\ \A q \in Nat \ {0} : (q - 1) * s < k /\ k <= q * s => q = p
<1> DEFINE P == {p \in Nat : k <= p * s}
<1>1. k \in P
  BY SMT
<1>2. PICK p \in P : \A q \in P : p <= q
  <2> P \subseteq Nat /\ P # {}
    BY <1>1
  <2> HIDE DEF P
  <2> QED
    BY LeastOf
<1>3. p \in Nat /\ k <= p * s /\ p # 0
  <2>1. p # 0
    BY <1>2, ProductFacts
  <2> QED
    BY <1>2, <2>1
<1>4. p - 1 \in Nat /\ p - 1 \notin P
  BY <1>2, <1>3
<1>5. (p - 1) * s < k
  BY <1>3, <1>4, ProductFacts
<1>6. ASSUME NEW q \in Nat \ {0}, (q - 1) * s < k, k <= q * s
      PROVE  q = p
  <2>1. p <= q
    BY <1>2, <1>6
  <2>2. CASE p < q
    <3>1. p <= q - 1 /\ q - 1 \in Nat
      BY <1>3, <2>2
    <3>2. p * s <= (q - 1) * s
      BY <1>3, <3>1, ProductsGrow
    <3> QED
      BY <1>3, <1>6, <3>1, <3>2, ProductFacts
  <2> QED
    BY <1>3, <2>1, <2>2
<1> QED
  BY <1>3, <1>5, <1>6

LEMMA SmallerFacts ==
  \A a, b \in Nat : /\ Smaller(a, b) \in Nat /\ Smaller(a, b) <= a /\ Smaller(a, b) <= b
                    /\ Smaller(a, b) = a \/ Smaller(a, b) = b
  BY SMT DEF Smaller

LEMMA PageTotal ==
  ASSUME NEW s \in Nat \ {0}, NEW n \in Nat
  PROVE  LET total == (n + s - 1) \div s
         IN  /\ total \in Nat
             /\ \A p \in Nat \ {0} : p <= total <=> (p - 1) * s < n
<1>1. PICK t : t = (n + s - 1) \div s
  OBVIOUS
<1>2. t \in Nat /\ t * s <= n + s - 1 /\ n + s - 1 < t * s + s
  BY <1>1, SMT
<1>3. ASSUME NEW p \in Nat \ {0}, p <= t
      PROVE  (p - 1) * s < n
  <2>1. p * s <= t * s
    BY <1>2, <1>3, ProductsGrow
  <2>2. PICK a, b : a = p * s /\ b = t * s /\ a \in Nat /\ b \in Nat
    BY <1>2, ProductFacts
  <2>3. (p - 1) * s = a - s
    BY <2>2, ProductFacts
  <2> QED
    BY <1>2, <2>1, <2>2, <2>3
<1>4. ASSUME NEW p \in Nat \ {0}, ~(p <= t)
      PROVE  ~((p - 1) * s < n)
  <2>1. t <= p - 1 /\ p - 1 \in Nat
    BY <1>2, <1>4
  <2>2. t * s <= (p - 1) * s
    BY <1>2, <2>1, ProductsGrow
  <2>3. PICK a, b : a = (p - 1) * s /\ b = t * s /\ a \in Nat /\ b \in Nat
    BY <1>2, <2>1, ProductFacts
  <2> QED
    BY <1>2, <2>2, <2>3
<1> QED
  BY <1>1, <1>2, <1>3, <1>4

(* The nodes that are left by the filters, each at one place. *)
LEMMA FilteredFacts ==
  ASSUME graph \in Graphs
  PROVE  /\ Len(Filtered) \in Nat /\ DOMAIN Filtered = 1..Len(Filtered)
         /\ \A k, m \in 1..Len(Filtered) : Filtered[k] = Filtered[m] => k = m
<1> DEFINE S == {n \in Nodes : n \in DeepEnough /\ n \in viewRequest.matching}
<1>1. graph.size \in Nat /\ S \in SUBSET (1..graph.size)
  BY GraphFacts DEF Nodes
<1>2. PICK f : f = Filtered
  OBVIOUS
<1>3. f = InOrder(S)
  BY <1>2 DEF Filtered
<1> HIDE DEF S
<1>4. DOMAIN f = 1..Len(f) /\ Len(f) \in Nat /\ \A k \in DOMAIN f : f[k] \in S
  BY <1>1, <1>3, ListsItsSet
<1>5. S \subseteq Nat /\ IsFiniteSet(S)
  <2>1. IsFiniteSet(1..graph.size)
    BY <1>1, FS_Interval
  <2>2. S \subseteq Nat
    BY <1>1
  <2>3. IsFiniteSet(S)
    BY <1>1, <2>1, FS_Subset, Zenon
  <2> QED
    BY <2>2, <2>3
<1>6. \A k \in DOMAIN f : \A m \in 1..(k - 1) : f[m] < f[k]
  BY <1>3, <1>5, InOrderFacts
<1>7. \A k, m \in 1..Len(f) : f[k] = f[m] => k = m
  <2>1. SUFFICES ASSUME NEW k \in 1..Len(f), NEW m \in 1..Len(f), m < k
                 PROVE  f[m] # f[k]
    BY <1>4
  <2>2. m \in 1..(k - 1)
    BY <1>4, <2>1
  <2>3. f[m] \in Nat /\ f[k] \in Nat
    BY <1>4, <1>5, Zenon
  <2>4. f[m] < f[k]
    BY <1>4, <1>6, <2>2, Zenon
  <2> QED
    BY <2>3, <2>4
<1> QED
  BY <1>2, <1>4, <1>7

(* A page has the places that are its own. *)
LEMMA SliceFacts ==
  ASSUME graph \in Graphs, viewRequest.pageSize \in Nat \ {0}, NEW p \in 1..TotalPages
  PROVE  /\ \A n : n \in Range(Slice(p)) <=>
                     \E k \in 1..Len(Filtered) :
                       /\ (p - 1) * viewRequest.pageSize < k /\ k <= p * viewRequest.pageSize
                       /\ Filtered[k] = n
         /\ Len(Slice(p)) = Smaller(p * viewRequest.pageSize, Len(Filtered)) - (p - 1) * viewRequest.pageSize
<1>1. PICK s, f, t : s = viewRequest.pageSize /\ f = Filtered /\ t = TotalPages
  OBVIOUS
<1>2. s \in Nat \ {0} /\ Len(f) \in Nat /\ DOMAIN f = 1..Len(f)
  BY <1>1, FilteredFacts
<1>3. t = (Len(f) + s - 1) \div s
  BY <1>1 DEF TotalPages
<1>4. t \in Nat /\ p \in Nat \ {0} /\ (p - 1) * s < Len(f)
  <2>1. t \in Nat
    BY <1>2, <1>3, PageTotal
  <2>2. p \in Nat \ {0} /\ p <= t
    BY <1>1, <2>1
  <2> QED
    BY <1>2, <1>3, <2>1, <2>2, PageTotal
<1>5. PICK a, b : /\ a = (p - 1) * s /\ b = p * s /\ a \in Nat /\ b \in Nat
                  /\ a < b /\ a < Len(f)
  BY <1>2, <1>4, ProductFacts
<1>6. PICK hi : hi = Smaller(b, Len(f))
  OBVIOUS
<1>7. hi \in Nat /\ a < hi /\ hi <= Len(f) /\ hi <= b
  <2>1. PICK n : n = Len(f)
    OBVIOUS
  <2>2. n \in Nat /\ a < n /\ hi = Smaller(b, n)
    BY <1>2, <1>5, <1>6, <2>1
  <2>3. hi \in Nat /\ hi <= b /\ hi <= n /\ (hi = b \/ hi = n)
    BY <1>5, <2>2, SmallerFacts
  <2>4. a < hi
    BY <1>5, <2>2, <2>3
  <2> QED
    BY <2>1, <2>3, <2>4
<1>8. PICK c : c = Slice(p)
  OBVIOUS
<1>9. c = SubSeq(f, a + 1, hi)
  BY <1>1, <1>5, <1>6, <1>8 DEF Slice
<1>10. c \in Seq({f[k] : k \in DOMAIN f}) /\ Len(c) = hi - a /\ \A i \in 1..(hi - a) : c[i] = f[a + i]
  <2>1. a + 1 \in Int /\ hi \in Int /\ a + 1 <= hi /\ hi - (a + 1) + 1 = hi - a
    BY <1>5, <1>7
  <2>2. \A i \in (a + 1)..hi : f[i] \in {f[k] : k \in DOMAIN f}
    BY <1>2, <1>5, <1>7
  <2>3. /\ c \in Seq({f[k] : k \in DOMAIN f})
        /\ Len(c) = IF a + 1 <= hi THEN hi - (a + 1) + 1 ELSE 0
        /\ \A i \in 1..(hi - (a + 1) + 1) : c[i] = f[(a + 1) + i - 1]
    BY <1>9, <2>1, <2>2, SubSeqProperties
  <2>4. \A i \in 1..(hi - a) : (a + 1) + i - 1 = a + i
    BY <1>5, <1>7
  <2> QED
    BY <2>1, <2>3, <2>4
<1>11. DOMAIN c = 1..(hi - a)
  BY <1>10, LenProperties
<1>12. \A n : n \in Range(c) <=> \E i \in 1..(hi - a) : f[a + i] = n
  BY <1>10, <1>11 DEF Range
<1>13. \A n : (\E i \in 1..(hi - a) : f[a + i] = n) <=> (\E k \in 1..Len(f) : a < k /\ k <= b /\ f[k] = n)
  <2>1. PICK n : n = Len(f)
    OBVIOUS
  <2>2. n \in Nat /\ hi \in Nat /\ a < hi /\ hi <= n /\ hi <= b /\ (hi = b \/ hi = n)
    BY <1>2, <1>5, <1>6, <1>7, <2>1, SmallerFacts
  <2>3. \A i \in 1..(hi - a) : a + i \in 1..n /\ a < a + i /\ a + i <= b
    BY <1>5, <2>2
  <2>4. \A k \in 1..n : a < k /\ k <= b => k - a \in 1..(hi - a) /\ a + (k - a) = k
    BY <1>5, <2>2
  <2>5. ASSUME NEW x, NEW i \in 1..(hi - a), f[a + i] = x
        PROVE  \E k \in 1..n : a < k /\ k <= b /\ f[k] = x
    BY <2>3, <2>5, Zenon
  <2>6. ASSUME NEW x, NEW k \in 1..n, a < k, k <= b, f[k] = x
        PROVE  \E i \in 1..(hi - a) : f[a + i] = x
    <3>1. PICK i \in 1..(hi - a) : a + i = k
      BY <2>4, <2>6
    <3> QED
      BY <2>6, <3>1, Zenon
  <2> QED
    BY <2>1, <2>5, <2>6, Zenon
<1>14. Len(c) = Smaller(b, Len(f)) - a
  BY <1>6, <1>10
<1>15. \A n : n \in Range(c) <=> \E k \in 1..Len(f) : a < k /\ k <= b /\ f[k] = n
  BY <1>12, <1>13, Zenon
<1> QED
  BY <1>1, <1>5, <1>8, <1>14, <1>15, Zenon

LEMMA PagesHold ==
  ASSUME graph \in Graphs, viewRequest.pageSize \in Nat \ {0}
  PROVE  /\ \A n \in Range(Filtered) :
              Cardinality({p \in 1..TotalPages : n \in Range(Slice(p))}) = 1
         /\ \A e \in FilteredEdges :
              Cardinality({p \in 1..TotalPages : e \in PageEdges(p)}) =
                IF \E p \in 1..TotalPages : {e[1], e[2]} \subseteq Range(Slice(p)) THEN 1 ELSE 0
         /\ \A p \in 1..TotalPages : ~HasMore(p) /\ ParentsOn(p) = {} => p = TotalPages
<1>1. PICK s, f, t : s = viewRequest.pageSize /\ f = Filtered /\ t = TotalPages
  OBVIOUS
<1>2. /\ s \in Nat \ {0} /\ Len(f) \in Nat /\ DOMAIN f = 1..Len(f)
      /\ \A k, m \in 1..Len(f) : f[k] = f[m] => k = m
  BY <1>1, FilteredFacts
<1>3. /\ t \in Nat
      /\ \A p \in Nat \ {0} : p <= t <=> (p - 1) * s < Len(f)
  <2>1. t = (Len(f) + s - 1) \div s
    BY <1>1 DEF TotalPages
  <2> QED
    BY <1>2, <2>1, PageTotal
<1>4. \A p \in 1..t : \A n : n \in Range(Slice(p)) <=>
        \E k \in 1..Len(f) : (p - 1) * s < k /\ k <= p * s /\ f[k] = n
  BY <1>1, SliceFacts
<1>5. ASSUME NEW n \in Range(f)
      PROVE  \E p \in 1..t : /\ n \in Range(Slice(p))
                             /\ \A q \in 1..t : n \in Range(Slice(q)) => q = p
  <2>1. PICK k \in 1..Len(f) : f[k] = n
    BY <1>2, <1>5 DEF Range
  <2>2. k \in Nat \ {0} /\ k <= Len(f)
    BY <1>2
  <2>3. PICK p \in Nat \ {0} :
          /\ (p - 1) * s < k /\ k <= p * s
          /\ \A q \in Nat \ {0} : (q - 1) * s < k /\ k <= q * s => q = p
    BY <1>2, <2>2, PageOfPlace
  <2>4. p \in 1..t
    <3>1. (p - 1) * s < Len(f)
      <4>1. (p - 1) * s \in Nat
        BY <1>2, ProductFacts
      <4> QED
        BY <1>2, <2>2, <2>3, <4>1
    <3> QED
      BY <1>3, <3>1
  <2>5. n \in Range(Slice(p))
    BY <1>4, <2>1, <2>3, <2>4
  <2>6. ASSUME NEW q \in 1..t, n \in Range(Slice(q))
        PROVE  q = p
    <3>1. PICK m \in 1..Len(f) : (q - 1) * s < m /\ m <= q * s /\ f[m] = n
      BY <1>4, <2>6
    <3>2. m = k
      BY <1>2, <2>1, <3>1
    <3>3. q \in Nat \ {0}
      BY <1>3
    <3> QED
      BY <2>3, <3>1, <3>2, <3>3
  <2> QED
    BY <2>4, <2>5, <2>6
<1>6. ASSUME NEW n \in Range(f), NEW p \in 1..t, NEW q \in 1..t,
             n \in Range(Slice(p)), n \in Range(Slice(q))
      PROVE  q = p
  BY <1>6, <1>5, Zenon
<1>7. ASSUME NEW n \in Range(f)
      PROVE  Cardinality({p \in 1..t : n \in Range(Slice(p))}) = 1
  <2>1. PICK p \in 1..t : /\ n \in Range(Slice(p))
                          /\ \A q \in 1..t : n \in Range(Slice(q)) => q = p
    BY <1>7, <1>5
  <2>2. {q \in 1..t : n \in Range(Slice(q))} = {p}
    BY <2>1
  <2> QED
    BY <2>2, FS_Singleton
<1>8. ASSUME NEW p \in 1..t, ~HasMore(p), ParentsOn(p) = {}
      PROVE  p = t
  <2>1. PICK a, b : /\ a = (p - 1) * s /\ b = p * s /\ a \in Nat /\ b \in Nat /\ p \in Nat \ {0}
                    /\ (p = 1 => b = s)
    BY <1>2, <1>3, ProductFacts
  <2>2. Len(Slice(p)) = Smaller(b, Len(f)) - a
    BY <1>1, <2>1, SliceFacts
  <2>3. Cardinality(ParentsOn(p)) = 0
    BY <1>8, FS_EmptySet
  <2>4. ~(Smaller(b, Len(f)) - a + 0 < Len(f))
    BY <1>1, <1>8, <2>2, <2>3 DEF HasMore
  <2>5. a < Len(f)
    BY <1>3, <2>1
  <2>6. a = 0 /\ Len(f) <= b
    <3>1. PICK n, h : n = Len(f) /\ h = Smaller(b, n)
      OBVIOUS
    <3>2. n \in Nat /\ h \in Nat /\ h <= b /\ h <= n /\ (h = b \/ h = n)
      BY <1>2, <2>1, <3>1, SmallerFacts
    <3>3. ~(h - a + 0 < n) /\ a < n
      BY <2>4, <2>5, <3>1
    <3>4. a = 0 /\ n <= b
      BY <2>1, <3>2, <3>3
    <3> QED
      BY <3>1, <3>4
  <2>7. p = 1
    <3>1. CASE p # 1
      <4>1. 1 <= p - 1 /\ p - 1 \in Nat /\ 1 \in Nat
        BY <2>1, <3>1
      <4>2. 1 * s <= (p - 1) * s
        BY <1>2, <4>1, ProductsGrow
      <4> QED
        BY <1>2, <2>1, <2>6, <4>2, ProductFacts
    <3> QED
      BY <3>1
  <2>8. ~(2 <= t)
    <3>1. (2 - 1) * s = s
      BY <1>2, ProductFacts
    <3>2. 2 \in Nat \ {0} /\ ~((2 - 1) * s < Len(f))
      BY <1>2, <2>1, <2>6, <2>7, <3>1
    <3> QED
      BY <1>3, <3>2
  <2> QED
    BY <1>3, <2>7, <2>8
<1>9. ASSUME NEW e \in FilteredEdges
      PROVE  Cardinality({p \in 1..t : e \in PageEdges(p)}) =
               IF \E p \in 1..t : {e[1], e[2]} \subseteq Range(Slice(p)) THEN 1 ELSE 0
  <2>1. \A p \in 1..t : e \in PageEdges(p) <=> {e[1], e[2]} \subseteq Range(Slice(p))
    BY <1>9 DEF PageEdges
  <2>2. CASE \E p \in 1..t : {e[1], e[2]} \subseteq Range(Slice(p))
    <3>1. PICK p \in 1..t : {e[1], e[2]} \subseteq Range(Slice(p))
      BY <2>2
    <3>2. e[1] \in Range(f)
      BY <1>1, <1>9 DEF FilteredEdges
    <3>3. \A q \in 1..t : e[1] \in Range(Slice(q)) => q = p
      BY <1>6, <3>1, <3>2
    <3>4. {q \in 1..t : e \in PageEdges(q)} = {p}
      BY <2>1, <3>1, <3>3
    <3> QED
      BY <2>2, <3>4, FS_Singleton
  <2>3. CASE ~\E p \in 1..t : {e[1], e[2]} \subseteq Range(Slice(p))
    <3>1. {p \in 1..t : e \in PageEdges(p)} = {}
      BY <2>1, <2>3
    <3> QED
      BY <2>3, <3>1, FS_EmptySet
  <2> QED
    BY <2>2, <2>3
<1> QED
  BY <1>1, <1>7, <1>8, <1>9

(* For any graph, filter and page size: every node that the filters leave  *)
(* is on one page, every edge too if its ends are on the same one and on   *)
(* none otherwise, and HasMore is false before the last page only where    *)
(* functions come along (generatePaginatedDataInternal).                   *)
THEOREM PagesComplete == ViewSpec => []PagesAreComplete
<1>1. ViewInit => (Asked => viewRequest \in ViewRequests)
  BY DEF ViewInit, Asked
<1>2. (Asked => viewRequest \in ViewRequests) /\ [ViewNext]_viewVars
        => (Asked => viewRequest \in ViewRequests)'
  BY DEF ViewNext, Dequeue, Ask, viewVars, Asked
<1>3. DepthInv /\ (Asked => viewRequest \in ViewRequests) => PagesAreComplete
  <2>1. SUFFICES ASSUME DepthInv, Asked, viewRequest \in ViewRequests
                 PROVE  /\ \A n \in Range(Filtered) :
                             Cardinality({p \in 1..TotalPages : n \in Range(Slice(p))}) = 1
                        /\ \A e \in FilteredEdges :
                             Cardinality({p \in 1..TotalPages : e \in PageEdges(p)}) =
                               IF \E p \in 1..TotalPages :
                                    {e[1], e[2]} \subseteq Range(Slice(p))
                               THEN 1 ELSE 0
                        /\ \A p \in 1..TotalPages : ~HasMore(p) /\ ParentsOn(p) = {} => p = TotalPages
    BY DEF PagesAreComplete
  <2>2. graph \in Graphs /\ viewRequest.pageSize \in Nat \ {0}
    BY <2>1, RequestsAssumption DEF DepthInv, DepthTypeOK
  <2> QED
    BY <2>2, PagesHold, Zenon
<1> QED
  BY <1>1, <1>2, <1>3, DepthHolds, PTL DEF ViewSpec

-----------------------------------------------------------------------------
(* The package view.                                                       *)

(* One turn of the loop over the edges. *)
Pulled(shown, e) ==
  IF e[1] \in shown.nodes \/ e[2] \in shown.nodes
  THEN [nodes |-> shown.nodes \union {e[1], e[2]}, edges |-> shown.edges \union {e}]
  ELSE shown

(* The first n turns from view. *)
Turns(shown, edges, n, f) ==
  /\ f = [i \in 0..n |-> f[i]]
  /\ f[0] = shown
  /\ \A i \in 1..n : f[i] = Pulled(f[i - 1], edges[i])

LEMMA TurnsAgree ==
  ASSUME NEW shown, NEW edges, NEW n \in Nat, NEW m \in Nat, n <= m, NEW f, NEW g,
         Turns(shown, edges, n, f), Turns(shown, edges, m, g)
  PROVE  \A i \in 0..n : f[i] = g[i]
<1> DEFINE Differ == {i \in 0..n : f[i] # g[i]}
<1>1. ASSUME Differ # {}
      PROVE  FALSE
  <2>1. PICK i \in Differ : \A j \in Differ : i <= j
    <3>1. Differ \subseteq Nat
      OBVIOUS
    <3> HIDE DEF Differ
    <3> QED
      BY <1>1, <3>1, LeastOf
  <2>2. i # 0
    BY <2>1 DEF Turns
  <2>3. i - 1 \in 0..n /\ i - 1 \notin Differ
    BY <2>1, <2>2
  <2>4. f[i - 1] = g[i - 1]
    BY <2>3
  <2>5. f[i] = Pulled(f[i - 1], edges[i]) /\ g[i] = Pulled(g[i - 1], edges[i])
    <3>1. i \in 1..n /\ i \in 1..m
      BY <2>1, <2>2
    <3> HIDE DEF Differ
    <3> QED
      BY <3>1, Zenon DEF Turns
  <2> QED
    BY <2>1, <2>4, <2>5
<1> QED
  BY <1>1

LEMMA TurnsExist ==
  ASSUME NEW shown, NEW edges
  PROVE  \A n \in Nat : \E f : Turns(shown, edges, n, f)
<1> DEFINE Without == {n \in Nat : ~\E f : Turns(shown, edges, n, f)}
<1>1. ASSUME Without # {}
      PROVE  FALSE
  <2>1. PICK n \in Without : \A j \in Without : n <= j
    <3>1. Without \subseteq Nat
      OBVIOUS
    <3> HIDE DEF Without
    <3> QED
      BY <1>1, <3>1, LeastOf
  <2>2. CASE n = 0
    <3>1. PICK f : f = [i \in 0..0 |-> shown]
      OBVIOUS
    <3>2. Turns(shown, edges, 0, f)
      BY <3>1 DEF Turns
    <3> QED
      BY <2>1, <2>2, <3>2
  <2>3. CASE n # 0
    <3>1. n - 1 \in Nat /\ n - 1 \notin Without
      BY <2>1, <2>3
    <3>2. PICK f : Turns(shown, edges, n - 1, f)
      BY <3>1
    <3>3. PICK g : g = [i \in 0..n |-> IF i = n THEN Pulled(f[n - 1], edges[n]) ELSE f[i]]
      OBVIOUS
    <3>4. g = [i \in 0..n |-> g[i]]
      BY <3>3
    <3>5. g[0] = shown
      BY <2>1, <2>3, <3>2, <3>3 DEF Turns
    <3>6. ASSUME NEW i \in 1..n
          PROVE  g[i] = Pulled(g[i - 1], edges[i])
      <4>1. i \in 0..n /\ i - 1 \in 0..n /\ i - 1 # n
        BY <2>1
      <4>2. g[i - 1] = f[i - 1]
        BY <3>3, <4>1
      <4>3. CASE i = n
        BY <3>3, <4>1, <4>2, <4>3
      <4>4. CASE i # n
        <5>1. i \in 1..(n - 1)
          BY <2>1, <4>4
        <5>2. f[i] = Pulled(f[i - 1], edges[i])
          BY <3>2, <5>1 DEF Turns
        <5> QED
          BY <3>3, <4>1, <4>2, <4>4, <5>2
      <4> QED
        BY <4>3, <4>4
    <3>7. Turns(shown, edges, n, g)
      BY <3>4, <3>5, <3>6 DEF Turns
    <3> QED
      BY <2>1, <3>7
  <2> QED
    BY <2>2, <2>3
<1> QED
  BY <1>1

(* The equation Expansion is defined by. *)
Expands(x) ==
  x = [i \in Nat |->
         IF i = 0 THEN [nodes |-> Selected, edges |-> {}]
         ELSE LET shown == x[i - 1]
                  e    == DepthEdges[i]
              IN  IF e[1] \in shown.nodes \/ e[2] \in shown.nodes
                  THEN [nodes |-> shown.nodes \union {e[1], e[2]},
                        edges |-> shown.edges \union {e}]
                  ELSE shown]

LEMMA ExpandsByTurns ==
  \A x : Expands(x) <=>
    x = [i \in Nat |-> IF i = 0 THEN [nodes |-> Selected, edges |-> {}]
                       ELSE Pulled(x[i - 1], DepthEdges[i])]
  BY Zenon DEF Expands, Pulled

LEMMA ExpansionFacts ==
  /\ Expansion[0] = [nodes |-> Selected, edges |-> {}]
  /\ \A i \in Nat \ {0} : Expansion[i] = Pulled(Expansion[i - 1], DepthEdges[i])
<1>1. PICK shown, edges : shown = [nodes |-> Selected, edges |-> {}] /\ edges = DepthEdges
  OBVIOUS
<1>2. PICK f : f = [n \in Nat |-> CHOOSE g : Turns(shown, edges, n, g)]
  OBVIOUS
<1>3. \A n \in Nat : Turns(shown, edges, n, f[n])
  BY <1>2, TurnsExist
<1>4. PICK x : x = [n \in Nat |-> f[n][n]]
  OBVIOUS
<1>5. ASSUME NEW i \in Nat \ {0}
      PROVE  x[i] = Pulled(x[i - 1], edges[i])
  <2>1. i - 1 \in Nat /\ i - 1 <= i /\ i \in 1..i /\ i - 1 \in 0..(i - 1) /\ i \in Nat
    OBVIOUS
  <2>2. Turns(shown, edges, i - 1, f[i - 1]) /\ Turns(shown, edges, i, f[i])
    BY <1>3, <2>1
  <2>3. f[i - 1][i - 1] = f[i][i - 1]
    <3>1. PICK m \in Nat : m = i - 1
      BY <2>1
    <3>2. PICK g, h : g = f[m] /\ h = f[i]
      OBVIOUS
    <3>3. Turns(shown, edges, m, g) /\ Turns(shown, edges, i, h)
      BY <2>2, <3>1, <3>2
    <3>4. i \in Nat /\ m <= i
      BY <3>1
    <3>5. \A k \in 0..m : g[k] = h[k]
      BY <3>3, <3>4, TurnsAgree
    <3>6. m \in 0..m
      OBVIOUS
    <3> QED
      BY <3>1, <3>2, <3>5, <3>6
  <2>4. f[i][i] = Pulled(f[i][i - 1], edges[i])
    BY <2>1, <2>2 DEF Turns
  <2> QED
    BY <1>4, <2>1, <2>3, <2>4
<1>6. x[0] = shown
  <2>1. f[0][0] = shown
    BY <1>3 DEF Turns
  <2> QED
    BY <1>4, <2>1
<1>7. x = [i \in Nat |-> IF i = 0 THEN shown ELSE Pulled(x[i - 1], edges[i])]
  <2>1. x = [i \in Nat |-> x[i]]
    BY <1>4
  <2>2. \A i \in Nat : x[i] = IF i = 0 THEN shown ELSE Pulled(x[i - 1], edges[i])
    BY <1>5, <1>6
  <2> QED
    BY <2>1, <2>2
<1>8. Expands(x)
  BY <1>1, <1>7, ExpandsByTurns, Zenon
<1>9. Expansion = CHOOSE y : Expands(y)
  BY Zenon DEF Expansion, Expands
<1>10. PICK y : y = Expansion
  OBVIOUS
<1>11. Expands(y)
  BY <1>8, <1>9, <1>10
<1>12. y = [i \in Nat |-> IF i = 0 THEN shown ELSE Pulled(y[i - 1], edges[i])]
  BY <1>1, <1>11, ExpandsByTurns, Zenon
<1>13. y[0] = shown /\ \A i \in Nat \ {0} : y[i] = Pulled(y[i - 1], edges[i])
  BY <1>12
<1> QED
  BY <1>1, <1>10, <1>13, Zenon

(* Nothing of a view hangs loose: a part of it with the selection that no  *)
(* edge leaves is all of it.                                               *)
HangsTogether(shown, selected) ==
  \A S \in SUBSET shown.nodes :
    selected \subseteq S /\ (\A e \in shown.edges : e[1] \in S <=> e[2] \in S) => S = shown.nodes

(* What holds after n turns. *)
ViewInv(shown, selected, edges, n) ==
  /\ selected \subseteq shown.nodes
  /\ \A e \in shown.edges : e[1] \in shown.nodes /\ e[2] \in shown.nodes
  /\ \A j \in 1..n : edges[j][1] \in selected \/ edges[j][2] \in selected => edges[j] \in shown.edges
  /\ HangsTogether(shown, selected)

LEMMA PulledKeeps ==
  ASSUME NEW shown, NEW selected, NEW edges, NEW n \in Nat \ {0},
         ViewInv(shown, selected, edges, n - 1)
  PROVE  ViewInv(Pulled(shown, edges[n]), selected, edges, n)
<1>1. PICK a, b, e, V, E : e = edges[n] /\ a = e[1] /\ b = e[2] /\ V = shown.nodes /\ E = shown.edges
  OBVIOUS
<1>2. /\ selected \subseteq V
      /\ \A d \in E : d[1] \in V /\ d[2] \in V
      /\ \A j \in 1..(n - 1) : edges[j][1] \in selected \/ edges[j][2] \in selected => edges[j] \in E
      /\ \A S \in SUBSET V : selected \subseteq S /\ (\A d \in E : d[1] \in S <=> d[2] \in S) => S = V
  BY <1>1 DEF ViewInv, HangsTogether
<1>3. \A j \in 1..n : j \in 1..(n - 1) \/ j = n
  OBVIOUS
<1>4. CASE a \notin V /\ b \notin V
  <2>1. Pulled(shown, edges[n]) = shown
    BY <1>1, <1>4 DEF Pulled
  <2>2. \A j \in 1..n : edges[j][1] \in selected \/ edges[j][2] \in selected => edges[j] \in E
    BY <1>1, <1>2, <1>3, <1>4
  <2> QED
    BY <1>1, <2>1, <2>2 DEF ViewInv
<1>5. CASE a \in V \/ b \in V
  <2>1. PICK w : w = [nodes |-> V \union {a, b}, edges |-> E \union {e}]
    OBVIOUS
  <2>2. w.nodes = V \union {a, b} /\ w.edges = E \union {e}
    BY <2>1
  <2>3. Pulled(shown, edges[n]) = w
    BY <1>1, <1>5, <2>1 DEF Pulled
  <2>4. selected \subseteq w.nodes /\ \A d \in w.edges : d[1] \in w.nodes /\ d[2] \in w.nodes
    BY <1>1, <1>2, <2>2
  <2>5. \A j \in 1..n : edges[j][1] \in selected \/ edges[j][2] \in selected => edges[j] \in w.edges
    BY <1>1, <1>2, <1>3, <2>2
  <2>6. HangsTogether(w, selected)
    <3>1. SUFFICES ASSUME NEW S \in SUBSET (V \union {a, b}), selected \subseteq S,
                          \A d \in E \union {e} : d[1] \in S <=> d[2] \in S
                   PROVE  S = V \union {a, b}
      BY <2>2 DEF HangsTogether
    <3>2. PICK R : R = S \intersect V
      OBVIOUS
    <3>3. \A d \in E : d[1] \in R <=> d[2] \in R
      BY <1>2, <3>1, <3>2
    <3>4. R = V
      BY <1>2, <3>1, <3>2, <3>3
    <3>5. V \subseteq S
      BY <3>2, <3>4
    <3>6. a \in S /\ b \in S
      BY <1>1, <1>5, <3>1, <3>5
    <3> QED
      BY <3>1, <3>5, <3>6
  <2> QED
    BY <2>3, <2>4, <2>5, <2>6 DEF ViewInv
<1> QED
  BY <1>4, <1>5

LEMMA ViewsHangTogether ==
  \A n \in Nat : ViewInv(Expansion[n], Selected, DepthEdges, n)
<1>1. PICK x, selected, edges : x = Expansion /\ selected = Selected /\ edges = DepthEdges
  OBVIOUS
<1>2. /\ x[0] = [nodes |-> selected, edges |-> {}]
      /\ \A i \in Nat \ {0} : x[i] = Pulled(x[i - 1], edges[i])
  BY <1>1, ExpansionFacts, Zenon
<1> DEFINE Bad == {n \in Nat : ~ViewInv(x[n], selected, edges, n)}
<1>3. ASSUME Bad # {}
      PROVE  FALSE
  <2>1. PICK n \in Bad : \A j \in Bad : n <= j
    <3>1. Bad \subseteq Nat
      OBVIOUS
    <3> HIDE DEF Bad
    <3> QED
      BY <1>3, <3>1, LeastOf
  <2>2. CASE n = 0
    <3>1. x[0].nodes = selected /\ x[0].edges = {}
      BY <1>2
    <3>2. ViewInv(x[0], selected, edges, 0)
      BY <3>1 DEF ViewInv, HangsTogether
    <3> QED
      BY <2>1, <2>2, <3>2
  <2>3. CASE n # 0
    <3>1. n \in Nat \ {0} /\ n - 1 \in Nat /\ n - 1 \notin Bad
      BY <2>1, <2>3
    <3>2. ViewInv(x[n - 1], selected, edges, n - 1)
      BY <3>1
    <3>3. x[n] = Pulled(x[n - 1], edges[n])
      BY <1>2, <3>1
    <3>4. ViewInv(x[n], selected, edges, n)
      BY <3>1, <3>2, <3>3, PulledKeeps
    <3> QED
      BY <2>1, <3>4
  <2> QED
    BY <2>2, <2>3
<1> QED
  BY <1>1, <1>3, Zenon

(* For any graph, depth, selection and filters, in any order of the calls: *)
(* the package view has every call at a selected function, and all of it   *)
(* hangs together with the selection (generatePackageBasedData).           *)
THEOREM NeighboursComplete == ViewSpec => []NeighboursAreShown
<1>1. DepthInv => NeighboursAreShown
  <2>1. SUFFICES ASSUME DepthInv
                 PROVE  NeighboursAreShown
    OBVIOUS
  <2>2. Len(DepthEdges) \in Nat /\ DOMAIN DepthEdges = 1..Len(DepthEdges)
    <3> DEFINE Kept == {i \in DOMAIN graph.edges : /\ graph.edges[i][1] \in DeepEnough
                                                   /\ graph.edges[i][2] \in DeepEnough}
    <3>1. graph \in Graphs
      BY <2>1 DEF DepthInv, DepthTypeOK
    <3>2. Kept \in SUBSET (1..Len(graph.edges)) /\ Len(graph.edges) \in Nat
      BY <3>1, GraphFacts
    <3>3. PICK kept : kept = InOrder(Kept)
      OBVIOUS
    <3>4. DOMAIN kept = 1..Len(kept) /\ Len(kept) \in Nat
      <4> HIDE DEF Kept
      <4> QED
        BY <3>2, <3>3, ListsItsSet
    <3>5. PICK g, d : g = graph.edges /\ d = DepthEdges
      OBVIOUS
    <3>6. d = [k \in DOMAIN kept |-> g[kept[k]]]
      BY <3>3, <3>5 DEF DepthEdges
    <3>7. d \in Seq({g[kept[k]] : k \in DOMAIN kept}) /\ DOMAIN d = 1..Len(kept)
      BY <3>4, <3>6
    <3>8. Len(d) \in Nat /\ DOMAIN d = 1..Len(d)
      BY <3>7, LenProperties
    <3> QED
      BY <3>5, <3>8
  <2>3. PICK edges, shown, selected :
          edges = DepthEdges /\ shown = Expansion[Len(DepthEdges)] /\ selected = Selected
    OBVIOUS
  <2>4. ViewInv(shown, selected, edges, Len(edges))
    BY <2>2, <2>3, ViewsHangTogether
  <2>5. PackageView(FALSE) = shown
    BY <2>3 DEF PackageView
  <2>6. \A e \in Range(edges) : e[1] \in selected \/ e[2] \in selected => e \in shown.edges
    BY <2>2, <2>3, <2>4 DEF ViewInv, Range
  <2> QED
    BY <2>3, <2>4, <2>5, <2>6 DEF NeighboursAreShown, ViewInv, HangsTogether
<1> QED
  BY <1>1, DepthHolds, PTL

-----------------------------------------------------------------------------
(* The package tree.                                                       *)

(* Adding up what is counted of disjoint sets counts their union. *)
Adds(counts, paths, it) ==
  it = [s \in SUBSET paths |->
          IF s = {} THEN 0
          ELSE counts[CHOOSE x \in s : TRUE] + it[s \ {CHOOSE x \in s : TRUE}]]

LEMMA SumOverAdds ==
  \A counts, paths : SumOver(counts, paths) = (CHOOSE it : Adds(counts, paths, it))[paths]
  BY Zenon DEF SumOver, MapThenSumSet, MapThenFoldSet, Adds

LEMMA FiniteRange ==
  ASSUME NEW S, IsFiniteSet(S), NEW f
  PROVE  IsFiniteSet({f[x] : x \in S})
<1> DEFINE T == {f[x] : x \in S}
           g == [x \in S |-> f[x]]
<1>1. g \in Surjection(S, T)
  BY DEF Surjection
<1>2. \A h \in Surjection(S, T) : IsFiniteSet(T)
  <2> HIDE DEF T
  <2> QED
    BY FS_Surjection
<1> QED
  BY <1>1, <1>2

(* Two solutions of the equation agree on finite sets. *)
LEMMA AddsOnce ==
  ASSUME NEW counts, NEW paths, IsFiniteSet(paths), NEW f, NEW g,
         Adds(counts, paths, f), Adds(counts, paths, g)
  PROVE  f[paths] = g[paths]
<1> DEFINE Differ == {n \in Nat : \E s \in SUBSET paths : Cardinality(s) = n /\ f[s] # g[s]}
<1>1. ASSUME Differ # {}
      PROVE  FALSE
  <2>1. PICK n \in Differ : \A m \in Differ : n <= m
    <3>1. Differ \subseteq Nat
      OBVIOUS
    <3> HIDE DEF Differ
    <3> QED
      BY <1>1, <3>1, LeastOf
  <2>2. PICK s \in SUBSET paths : Cardinality(s) = n /\ f[s] # g[s]
    BY <2>1
  <2>3. IsFiniteSet(s)
    BY <2>2, FS_Subset
  <2>4. s # {}
    <3>1. ASSUME s = {}
          PROVE  FALSE
      <4>1. f[s] = 0 /\ g[s] = 0
        BY <3>1 DEF Adds
      <4> QED
        BY <2>2, <4>1
    <3> QED
      BY <3>1
  <2>5. PICK x : x = CHOOSE y \in s : TRUE
    OBVIOUS
  <2>6. x \in s
    BY <2>4, <2>5
  <2>7. f[s] = counts[x] + f[s \ {x}] /\ g[s] = counts[x] + g[s \ {x}]
    <3>1. f[s] = IF s = {} THEN 0
                 ELSE counts[CHOOSE y \in s : TRUE] + f[s \ {CHOOSE y \in s : TRUE}]
      BY <2>2, Zenon DEF Adds
    <3>2. g[s] = IF s = {} THEN 0
                 ELSE counts[CHOOSE y \in s : TRUE] + g[s \ {CHOOSE y \in s : TRUE}]
      BY <2>2, Zenon DEF Adds
    <3> QED
      BY <2>4, <2>5, <3>1, <3>2, Zenon
  <2>8. Cardinality(s \ {x}) = n - 1 /\ Cardinality(s \ {x}) \in Nat
    BY <2>2, <2>3, <2>6, FS_RemoveElement, FS_CardinalityType
  <2>9. Cardinality(s \ {x}) \notin Differ
    <3>1. n \in Nat
      BY <2>1
    <3> HIDE DEF Differ
    <3>2. PICK k : k = Cardinality(s \ {x}) /\ k \in Nat /\ k = n - 1
      BY <2>8
    <3>3. ~(n <= k)
      BY <3>1, <3>2
    <3>4. k \notin Differ
      BY <2>1, <3>3
    <3> QED
      BY <3>2, <3>4
  <2>10. f[s \ {x}] = g[s \ {x}]
    BY <2>2, <2>8, <2>9
  <2> QED
    BY <2>2, <2>7, <2>10
<1>2. IsFiniteSet(paths) => Cardinality(paths) \in Nat
  BY FS_CardinalityType
<1> QED
  BY <1>1, <1>2

LEMMA SumOverDisjoint ==
  ASSUME NEW counts, NEW paths, IsFiniteSet(paths), NEW parts,
         \A q \in paths : IsFiniteSet(parts[q]) /\ counts[q] = Cardinality(parts[q]),
         \A q, r \in paths : q # r => parts[q] \intersect parts[r] = {}
  PROVE  SumOver(counts, paths) = Cardinality(UNION {parts[q] : q \in paths})
<1> DEFINE U(s) == UNION {parts[q] : q \in s}
           g == [s \in SUBSET paths |-> Cardinality(U(s))]
<1>1. \A s \in SUBSET paths : IsFiniteSet(U(s))
  <2>1. SUFFICES ASSUME NEW s \in SUBSET paths
                 PROVE  IsFiniteSet(U(s))
    OBVIOUS
  <2>2. IsFiniteSet(s)
    BY <2>1, FS_Subset
  <2>3. IsFiniteSet({parts[q] : q \in s})
    BY <2>2, FiniteRange
  <2>4. \A T \in {parts[q] : q \in s} : IsFiniteSet(T)
    BY <2>1
  <2> QED
    BY <2>3, <2>4, FS_UNION
<1>2. ASSUME NEW s \in SUBSET paths, NEW x \in s
      PROVE  Cardinality(U(s)) = counts[x] + Cardinality(U(s \ {x}))
  <2>1. U(s) = parts[x] \union U(s \ {x})
    BY <1>2
  <2>2. parts[x] \intersect U(s \ {x}) = {}
    BY <1>2
  <2>3. IsFiniteSet(parts[x]) /\ IsFiniteSet(U(s \ {x})) /\ counts[x] = Cardinality(parts[x])
    BY <1>1, <1>2
  <2>4. PICK A, B : A = parts[x] /\ B = U(s \ {x})
    OBVIOUS
  <2>5. Cardinality(A \union B) = Cardinality(A) + Cardinality(B) - Cardinality(A \intersect B)
    BY <2>3, <2>4, FS_Union
  <2>6. Cardinality(A \intersect B) = 0
    BY <2>2, <2>4, FS_EmptySet
  <2>7. Cardinality(A) \in Nat /\ Cardinality(B) \in Nat
    BY <2>3, <2>4, FS_CardinalityType
  <2> HIDE DEF U
  <2> QED
    BY <2>1, <2>3, <2>4, <2>5, <2>6, <2>7
<1>3. Cardinality(U({})) = 0
  <2>1. U({}) = {}
    OBVIOUS
  <2> QED
    BY <2>1, FS_EmptySet
<1>4. Adds(counts, paths, g)
  <2>1. ASSUME NEW s \in SUBSET paths
        PROVE  g[s] = IF s = {} THEN 0
                      ELSE counts[CHOOSE x \in s : TRUE] + g[s \ {CHOOSE x \in s : TRUE}]
    <3>1. CASE s = {}
      BY <1>3, <2>1, <3>1
    <3>2. CASE s # {}
      <4>1. PICK x : x = CHOOSE y \in s : TRUE
        OBVIOUS
      <4>2. x \in s
        BY <3>2, <4>1
      <4>3. g[s] = counts[x] + g[s \ {x}]
        <5>1. g[s] = Cardinality(U(s)) /\ g[s \ {x}] = Cardinality(U(s \ {x}))
          <6> HIDE DEF U
          <6> QED
            BY <2>1
        <5> HIDE DEF U, g
        <5> QED
          BY <1>2, <2>1, <4>2, <5>1
      <4> HIDE DEF U, g
      <4> QED
        BY <3>2, <4>1, <4>3, Zenon
    <3> QED
      BY <3>1, <3>2
  <2>2. g = [s \in SUBSET paths |-> g[s]]
    OBVIOUS
  <2> HIDE DEF U, g
  <2>3. g = [s \in SUBSET paths |->
               IF s = {} THEN 0
               ELSE counts[CHOOSE x \in s : TRUE] + g[s \ {CHOOSE x \in s : TRUE}]]
    BY <2>1, <2>2, Zenon
  <2> QED
    BY <2>3, Zenon DEF Adds
<1>5. PICK sums : sums = CHOOSE it : Adds(counts, paths, it)
  OBVIOUS
<1>6. Adds(counts, paths, sums)
  <2> HIDE DEF U, g
  <2> QED
    BY <1>4, <1>5, Zenon
<1>7. sums[paths] = g[paths]
  <2> HIDE DEF U, g
  <2> QED
    BY <1>4, <1>6, AddsOnce
<1>8. g[paths] = Cardinality(U(paths))
  <2> HIDE DEF U
  <2> QED
    OBVIOUS
<1>9. SumOver(counts, paths) = sums[paths]
  BY <1>5, SumOverAdds, Zenon
<1> QED
  BY <1>7, <1>8, <1>9

(* Paths and their prefixes. *)
LEMMA PathFacts ==
  ASSUME NEW p, p \in Seq(Range(p))
  PROVE  /\ Len(p) \in Nat /\ DOMAIN p = 1..Len(p)
         /\ p = [i \in 1..Len(p) |-> p[i]]
  BY LenProperties

LEMMA CutFacts ==
  ASSUME NEW p, p \in Seq(Range(p)), NEW l \in 0..Len(p)
  PROVE  /\ SubSeq(p, 1, l) \in Seq(Range(SubSeq(p, 1, l)))
         /\ Len(SubSeq(p, 1, l)) = l
         /\ \A i \in 1..l : SubSeq(p, 1, l)[i] = p[i]
<1>1. Len(p) \in Nat /\ DOMAIN p = 1..Len(p)
  BY PathFacts
<1>2. \A i \in 1..l : p[i] \in Range(p)
  BY <1>1 DEF Range
<1>3. PICK c : c = SubSeq(p, 1, l)
  OBVIOUS
<1>4. c \in Seq(Range(p)) /\ Len(c) = l /\ \A i \in 1..l : c[i] = p[i]
  <2>1. 1 \in Int /\ l \in Int /\ l - 1 + 1 = l
    BY <1>1
  <2>2. /\ c \in Seq(Range(p))
        /\ Len(c) = IF 1 <= l THEN l - 1 + 1 ELSE 0
        /\ \A i \in 1..(l - 1 + 1) : c[i] = p[1 + i - 1]
    BY <1>2, <1>3, <2>1, SubSeqProperties
  <2> QED
    BY <1>1, <2>1, <2>2
<1>5. DOMAIN c = 1..l /\ c = [i \in 1..l |-> c[i]]
  BY <1>4, LenProperties
<1>6. c \in Seq(Range(c))
  <2>1. c \in [1..l -> Range(c)]
    BY <1>5 DEF Range
  <2>2. l \in Nat
    BY <1>1
  <2> QED
    BY <2>1, <2>2, SeqDef
<1> QED
  BY <1>3, <1>4, <1>6

LEMMA SamePath ==
  ASSUME NEW p, NEW q, p \in Seq(Range(p)), q \in Seq(Range(q)),
         Len(p) = Len(q), \A i \in 1..Len(p) : p[i] = q[i]
  PROVE  p = q
  BY PathFacts

LEMMA PrefixFacts ==
  ASSUME NEW p, NEW q, p \in Seq(Range(p)), q \in Seq(Range(q))
  PROVE  IsPrefix(p, q) <=> Len(p) <= Len(q) /\ \A i \in 1..Len(p) : p[i] = q[i]
<1>1. Len(p) \in Nat /\ Len(q) \in Nat
  BY PathFacts
<1>2. CASE Len(p) <= Len(q)
  <2>1. Len(p) \in 0..Len(q) /\ Len(p) \in 0..Len(p)
    BY <1>1, <1>2
  <2>2. PICK c, d : c = SubSeq(p, 1, Len(p)) /\ d = SubSeq(q, 1, Len(p))
    OBVIOUS
  <2>3. c \in Seq(Range(c)) /\ Len(c) = Len(p) /\ \A i \in 1..Len(p) : c[i] = p[i]
    BY <2>1, <2>2, CutFacts
  <2>4. d \in Seq(Range(d)) /\ Len(d) = Len(p) /\ \A i \in 1..Len(p) : d[i] = q[i]
    BY <2>1, <2>2, CutFacts
  <2>5. (\A i \in 1..Len(p) : p[i] = q[i]) => c = d
    <3>1. SUFFICES ASSUME \A i \in 1..Len(p) : p[i] = q[i]
                   PROVE  c = d
      OBVIOUS
    <3>2. Len(c) = Len(d) /\ \A i \in 1..Len(c) : c[i] = d[i]
      BY <2>3, <2>4, <3>1
    <3> QED
      BY <2>3, <2>4, <3>2, SamePath
  <2>6. c = d => \A i \in 1..Len(p) : p[i] = q[i]
    BY <2>3, <2>4
  <2>7. IsPrefix(p, q) <=> c = d
    BY <1>2, <2>2 DEF IsPrefix
  <2> QED
    BY <1>2, <2>5, <2>6, <2>7
<1>3. CASE ~(Len(p) <= Len(q))
  BY <1>3 DEF IsPrefix
<1> QED
  BY <1>2, <1>3

LEMMA PrefixTransitive ==
  ASSUME NEW p, NEW q, NEW r, p \in Seq(Range(p)), q \in Seq(Range(q)), r \in Seq(Range(r)),
         IsPrefix(p, q), IsPrefix(q, r)
  PROVE  IsPrefix(p, r)
<1>1. Len(p) \in Nat /\ Len(q) \in Nat /\ Len(r) \in Nat
  BY PathFacts
<1>2. Len(p) <= Len(q) /\ \A i \in 1..Len(p) : p[i] = q[i]
  BY PrefixFacts
<1>3. Len(q) <= Len(r) /\ \A i \in 1..Len(q) : q[i] = r[i]
  BY PrefixFacts
<1>4. Len(p) <= Len(r) /\ \A i \in 1..Len(p) : p[i] = r[i]
  BY <1>1, <1>2, <1>3
<1> QED
  BY <1>4, PrefixFacts

(* Of two prefixes of a path the shorter is one of the other. *)
LEMMA PrefixesNest ==
  ASSUME NEW p, NEW q, NEW r, p \in Seq(Range(p)), q \in Seq(Range(q)), r \in Seq(Range(r)),
         IsPrefix(p, r), IsPrefix(q, r), Len(p) <= Len(q)
  PROVE  IsPrefix(p, q) /\ (Len(p) = Len(q) => p = q)
<1>1. Len(p) \in Nat /\ Len(q) \in Nat /\ Len(r) \in Nat
  BY PathFacts
<1>2. \A i \in 1..Len(p) : p[i] = r[i]
  BY PrefixFacts
<1>3. \A i \in 1..Len(q) : q[i] = r[i]
  BY PrefixFacts
<1>4. \A i \in 1..Len(p) : p[i] = q[i]
  BY <1>1, <1>2, <1>3
<1>5. IsPrefix(p, q)
  BY <1>4, PrefixFacts
<1> QED
  BY <1>4, <1>5, SamePath

LEMMA CutIsPrefix ==
  ASSUME NEW r, r \in Seq(Range(r)), NEW l \in 0..Len(r)
  PROVE  IsPrefix(SubSeq(r, 1, l), r)
<1>1. PICK c : c = SubSeq(r, 1, l)
  OBVIOUS
<1>2. c \in Seq(Range(c)) /\ Len(c) = l /\ \A i \in 1..l : c[i] = r[i]
  BY <1>1, CutFacts
<1>3. Len(r) \in Nat
  BY PathFacts
<1>4. Len(c) <= Len(r) /\ \A i \in 1..Len(c) : c[i] = r[i]
  BY <1>2, <1>3
<1> QED
  BY <1>1, <1>2, <1>4, PrefixFacts

(* What the tree is made of. *)
LEMMA PackagesFacts ==
  ASSUME graph \in Graphs
  PROVE  /\ IsFiniteSet(Packaged)
         /\ \A q \in PackageSet : q # <<>> /\ q \in Seq(Range(q))
         /\ \A n \in Packaged : graph.pkg[n] \in PackageSet
         /\ IsFiniteSet(PackageSet)
<1>1. IsFiniteSet(Packaged)
  <2>1. graph.size \in Nat
    BY GraphFacts
  <2>2. IsFiniteSet(1..graph.size)
    BY <2>1, FS_Interval
  <2>3. Packaged \in SUBSET (1..graph.size)
    BY DEF Packaged, Nodes
  <2> QED
    BY <2>2, <2>3, FS_Subset, Zenon
<1>2. \A n \in Packaged : graph.pkg[n] # <<>> /\ graph.pkg[n] \in Seq(Range(graph.pkg[n]))
  BY PathsAssumption DEF Packaged, Nodes
<1>3. \A q \in Known : q # <<>> /\ q \in Seq(Range(q))
  BY PathsAssumption
<1>4. PICK f : f = graph.pkg
  OBVIOUS
<1>5. IsFiniteSet({f[n] : n \in Packaged})
  BY <1>1, FiniteRange
<1>6. IsFiniteSet(Known)
  BY PathsAssumption
<1>7. PackageSet = Known \union {f[n] : n \in Packaged}
  BY <1>4 DEF PackageSet
<1>8. IsFiniteSet(PackageSet)
  BY <1>5, <1>6, <1>7, FS_Union
<1>9. \A n \in Packaged : f[n] \in PackageSet
  BY <1>7
<1>10. \A q \in PackageSet : q # <<>> /\ q \in Seq(Range(q))
  BY <1>2, <1>3, <1>4, <1>7
<1> QED
  BY <1>1, <1>4, <1>8, <1>9, <1>10

LEMMA TreeFacts ==
  ASSUME graph \in Graphs
  PROVE  /\ IsFiniteSet(TreePaths)
         /\ \A q \in TreePaths : q # <<>> /\ q \in Seq(Range(q))
         /\ \A r \in PackageSet : \A l \in 1..Len(r) : SubSeq(r, 1, l) \in TreePaths
         /\ PackageSet \subseteq TreePaths
<1>1. \A r \in PackageSet : r # <<>> /\ r \in Seq(Range(r))
  BY PackagesFacts
<1>2. \A q : q \in TreePaths <=> q # <<>> /\ \E r \in PackageSet : \E l \in 0..Len(r) : q = SubSeq(r, 1, l)
  <2>1. SUFFICES ASSUME NEW q
                 PROVE  q \in TreePaths <=> q # <<>> /\ \E r \in PackageSet : \E l \in 0..Len(r) : q = SubSeq(r, 1, l)
    OBVIOUS
  <2>2. q \in TreePaths <=> q # <<>> /\ \E r \in PackageSet : q \in Prefixes(r)
    BY DEF TreePaths
  <2>3. \A r : q \in Prefixes(r) <=> \E l \in 0..Len(r) : q = SubSeq(r, 1, l)
    BY Zenon DEF Prefixes
  <2> QED
    BY <2>2, <2>3, Zenon
<1>3. ASSUME NEW q \in TreePaths
      PROVE  q # <<>> /\ q \in Seq(Range(q))
  <2>1. PICK r \in PackageSet : \E l \in 0..Len(r) : q = SubSeq(r, 1, l)
    BY <1>2
  <2>2. PICK l \in 0..Len(r) : q = SubSeq(r, 1, l)
    BY <2>1
  <2>3. r \in Seq(Range(r))
    BY <1>1
  <2> QED
    BY <1>2, <2>2, <2>3, CutFacts
<1>4. ASSUME NEW r \in PackageSet, NEW l \in 1..Len(r)
      PROVE  SubSeq(r, 1, l) \in TreePaths
  <2>1. r \in Seq(Range(r)) /\ Len(r) \in Nat
    BY <1>1, PathFacts
  <2>2. l \in 0..Len(r) /\ l # 0
    BY <2>1
  <2>3. Len(SubSeq(r, 1, l)) = l
    BY <2>1, <2>2, CutFacts
  <2>4. SubSeq(r, 1, l) # <<>>
    BY <2>2, <2>3
  <2> QED
    BY <1>2, <2>2, <2>4
<1>5. ASSUME NEW r \in PackageSet
      PROVE  r \in TreePaths
  <2>1. r \in Seq(Range(r)) /\ Len(r) \in Nat /\ r # <<>>
    BY <1>1, PathFacts
  <2>2. Len(r) \in 1..Len(r)
    BY <2>1, EmptySeq
  <2>3. SubSeq(r, 1, Len(r)) = r
    BY <2>1, SubSeqFull
  <2> QED
    BY <1>4, <2>2, <2>3
<1>6. IsFiniteSet(TreePaths)
  <2>1. PICK g : g = [r \in PackageSet |-> Prefixes(r)]
    OBVIOUS
  <2>2. ASSUME NEW r \in PackageSet
        PROVE  IsFiniteSet(Prefixes(r))
    <3>1. PICK h : h = [l \in 0..Len(r) |-> SubSeq(r, 1, l)]
      OBVIOUS
    <3>2. Len(r) \in Nat
      BY <1>1, PathFacts
    <3>3. IsFiniteSet(0..Len(r))
      BY <3>2, FS_Interval
    <3>4. IsFiniteSet({h[l] : l \in 0..Len(r)})
      BY <3>3, FiniteRange
    <3>5. {h[l] : l \in 0..Len(r)} = Prefixes(r)
      BY <3>1 DEF Prefixes
    <3> QED
      BY <3>4, <3>5
  <2>3. IsFiniteSet(PackageSet)
    BY PackagesFacts
  <2>4. IsFiniteSet({g[r] : r \in PackageSet})
    BY <2>3, FiniteRange
  <2>5. \A T \in {g[r] : r \in PackageSet} : IsFiniteSet(T)
    BY <2>1, <2>2
  <2>6. IsFiniteSet(UNION {g[r] : r \in PackageSet})
    BY <2>4, <2>5, FS_UNION
  <2>7. TreePaths \in SUBSET UNION {g[r] : r \in PackageSet}
    BY <2>1 DEF TreePaths
  <2> QED
    BY <2>6, <2>7, FS_Subset
<1> QED
  BY <1>3, <1>4, <1>5, <1>6

(* The functions of the subtree at a path, so many levels down. *)
Below(path, levels) ==
  {n \in Packaged : IsPrefix(path, graph.pkg[n]) /\ Len(graph.pkg[n]) <= Len(path) + levels}

LEMMA BelowFinite ==
  ASSUME graph \in Graphs
  PROVE  \A path, levels : IsFiniteSet(Below(path, levels)) /\ Below(path, levels) \subseteq Packaged
<1>1. SUFFICES ASSUME NEW path, NEW levels
               PROVE  IsFiniteSet(Below(path, levels)) /\ Below(path, levels) \subseteq Packaged
  OBVIOUS
<1>2. Below(path, levels) \in SUBSET Packaged
  BY DEF Below
<1> QED
  BY <1>2, PackagesFacts, FS_Subset

LEMMA BelowAtOnce ==
  ASSUME graph \in Graphs, NEW path \in TreePaths
  PROVE  /\ Below(path, 0) = {n \in Packaged : graph.pkg[n] = path}
         /\ CountOf(path) = Cardinality(Below(path, 0))
<1>1. path # <<>> /\ path \in Seq(Range(path)) /\ Len(path) \in Nat
  BY TreeFacts, PathFacts
<1>2. ASSUME NEW n \in Packaged
      PROVE  IsPrefix(path, graph.pkg[n]) /\ Len(graph.pkg[n]) <= Len(path) + 0 <=> graph.pkg[n] = path
  <2>1. PICK r : r = graph.pkg[n]
    OBVIOUS
  <2>2. r \in Seq(Range(r)) /\ Len(r) \in Nat
    BY <2>1, PackagesFacts, PathFacts
  <2>3. ASSUME IsPrefix(path, r), Len(r) <= Len(path) + 0
        PROVE  r = path
    <3>1. Len(path) <= Len(r) /\ \A i \in 1..Len(path) : path[i] = r[i]
      BY <1>1, <2>2, <2>3, PrefixFacts
    <3>2. Len(path) = Len(r)
      BY <1>1, <2>2, <2>3, <3>1
    <3> QED
      BY <1>1, <2>2, <3>1, <3>2, SamePath
  <2>4. ASSUME r = path
        PROVE  IsPrefix(path, r) /\ Len(r) <= Len(path) + 0
    <3>1. IsPrefix(path, r)
      BY <1>1, <2>4, PrefixFacts
    <3> QED
      BY <1>1, <2>4, <3>1
  <2> QED
    BY <2>1, <2>3, <2>4
<1>3. Below(path, 0) = {n \in Packaged : graph.pkg[n] = path}
  BY <1>2 DEF Below
<1>4. {n \in Nodes : graph.pkg[n] = path} = {n \in Packaged : graph.pkg[n] = path}
  BY <1>1 DEF Packaged
<1> QED
  BY <1>3, <1>4 DEF CountOf

LEMMA ChildrenFacts ==
  ASSUME graph \in Graphs, NEW path \in TreePaths
  PROVE  /\ IsFiniteSet(ChildrenOf(path))
         /\ \A q \in ChildrenOf(path) : q \in TreePaths /\ Len(q) = Len(path) + 1 /\ IsPrefix(path, q)
<1>1. ChildrenOf(path) \in SUBSET TreePaths
  BY DEF ChildrenOf
<1>2. IsFiniteSet(ChildrenOf(path))
  BY <1>1, TreeFacts, FS_Subset
<1> QED
  BY <1>2 DEF ChildrenOf

(* What is below a path is at the path or below one of its children. *)
LEMMA BelowSplits ==
  ASSUME graph \in Graphs, NEW path \in TreePaths, NEW levels \in Nat
  PROVE  /\ Below(path, levels + 1) = Below(path, 0) \union UNION {Below(q, levels) : q \in ChildrenOf(path)}
         /\ Below(path, 0) \intersect UNION {Below(q, levels) : q \in ChildrenOf(path)} = {}
         /\ \A q, r \in ChildrenOf(path) : q # r => Below(q, levels) \intersect Below(r, levels) = {}
<1>1. path # <<>> /\ path \in Seq(Range(path)) /\ Len(path) \in Nat
  BY TreeFacts, PathFacts
<1>2. \A q \in ChildrenOf(path) :
        q \in TreePaths /\ Len(q) = Len(path) + 1 /\ IsPrefix(path, q) /\ q \in Seq(Range(q))
  BY ChildrenFacts, TreeFacts
<1>3. \A n \in Packaged : /\ graph.pkg[n] \in Seq(Range(graph.pkg[n])) /\ Len(graph.pkg[n]) \in Nat
                          /\ graph.pkg[n] \in PackageSet
  BY PackagesFacts, PathFacts
<1>4. ASSUME NEW n \in Below(path, levels + 1), n \notin Below(path, 0)
      PROVE  \E q \in ChildrenOf(path) : n \in Below(q, levels)
  <2>1. PICK r : r = graph.pkg[n]
    OBVIOUS
  <2>2. /\ n \in Packaged /\ r \in Seq(Range(r)) /\ Len(r) \in Nat /\ r \in PackageSet
        /\ IsPrefix(path, r) /\ Len(r) <= Len(path) + (levels + 1)
    BY <1>3, <1>4, <2>1 DEF Below
  <2>3. ~(Len(r) <= Len(path))
    BY <1>1, <1>4, <2>1, <2>2 DEF Below
  <2>4. PICK l, q : l = Len(path) + 1 /\ q = SubSeq(r, 1, l)
    OBVIOUS
  <2>5. l \in 1..Len(r) /\ l \in 0..Len(r)
    BY <1>1, <2>2, <2>3, <2>4
  <2>6. q \in TreePaths
    BY <2>2, <2>4, <2>5, TreeFacts
  <2>7. q \in Seq(Range(q)) /\ Len(q) = l /\ IsPrefix(q, r)
    BY <2>2, <2>4, <2>5, CutFacts, CutIsPrefix
  <2>8. Len(path) <= Len(q)
    BY <1>1, <2>4, <2>7
  <2>9. IsPrefix(path, q)
    BY <1>1, <2>2, <2>7, <2>8, PrefixesNest
  <2>10. q \in ChildrenOf(path)
    BY <2>4, <2>6, <2>7, <2>9 DEF ChildrenOf
  <2>11. Len(r) <= Len(q) + levels
    BY <1>1, <2>2, <2>4, <2>7
  <2>12. n \in Below(q, levels)
    BY <2>1, <2>2, <2>7, <2>11 DEF Below
  <2> QED
    BY <2>10, <2>12
<1>5. ASSUME NEW q \in ChildrenOf(path), NEW n \in Below(q, levels)
      PROVE  n \in Below(path, levels + 1) /\ n \notin Below(path, 0)
  <2>1. PICK r : r = graph.pkg[n]
    OBVIOUS
  <2>2. /\ n \in Packaged /\ r \in Seq(Range(r)) /\ Len(r) \in Nat
        /\ IsPrefix(q, r) /\ Len(r) <= Len(q) + levels
    BY <1>3, <1>5, <2>1 DEF Below
  <2>3. q \in Seq(Range(q)) /\ Len(q) = Len(path) + 1 /\ IsPrefix(path, q)
    BY <1>2
  <2>4. IsPrefix(path, r)
    BY <1>1, <2>2, <2>3, PrefixTransitive
  <2>5. Len(q) <= Len(r)
    BY <2>2, <2>3, PrefixFacts
  <2>6. Len(r) <= Len(path) + (levels + 1) /\ ~(Len(r) <= Len(path) + 0)
    BY <1>1, <2>2, <2>3, <2>5
  <2> QED
    BY <2>1, <2>2, <2>4, <2>6 DEF Below
<1>6. ASSUME NEW n \in Below(path, 0)
      PROVE  n \in Below(path, levels + 1)
  <2>1. n \in Packaged /\ IsPrefix(path, graph.pkg[n]) /\ Len(graph.pkg[n]) <= Len(path) + 0
    BY DEF Below
  <2>2. Len(graph.pkg[n]) \in Nat
    BY <1>3, <2>1
  <2>3. Len(graph.pkg[n]) <= Len(path) + (levels + 1)
    BY <1>1, <2>1, <2>2
  <2> QED
    BY <2>1, <2>3 DEF Below
<1>7. ASSUME NEW q \in ChildrenOf(path), NEW r \in ChildrenOf(path), NEW n,
             n \in Below(q, levels), n \in Below(r, levels)
      PROVE  q = r
  <2>1. PICK p : p = graph.pkg[n]
    OBVIOUS
  <2>2. n \in Packaged /\ p \in Seq(Range(p)) /\ IsPrefix(q, p) /\ IsPrefix(r, p)
    BY <1>3, <1>7, <2>1 DEF Below
  <2>3. /\ q \in Seq(Range(q)) /\ r \in Seq(Range(r)) /\ Len(q) = Len(path) + 1 /\ Len(r) = Len(path) + 1
        /\ Len(q) \in Nat
    BY <1>1, <1>2
  <2>4. Len(q) <= Len(r) /\ Len(q) = Len(r)
    BY <2>3
  <2> QED
    BY <2>2, <2>3, <2>4, PrefixesNest
<1> QED
  BY <1>4, <1>5, <1>6, <1>7

(* The equation TreeCount is defined by. *)
Counted(prev, levels) ==
  [path \in TreePaths |->
     CountOf(path) + (IF levels = 0 THEN 0 ELSE SumOver(prev, ChildrenOf(path)))]

CountsTree(f) == f = [levels \in 0..MaxTreeDepth |-> Counted(f[levels - 1], levels)]

LEMMA TreeCountChosen == TreeCount = CHOOSE f : CountsTree(f)
  BY Zenon DEF TreeCount, CountsTree, Counted

(* What it should be. *)
CardinalityBelow(levels) == [path \in TreePaths |-> Cardinality(Below(path, levels))]

LEMMA CountedBelow ==
  ASSUME graph \in Graphs, NEW levels \in Nat, NEW prev,
         levels # 0 => prev = CardinalityBelow(levels - 1)
  PROVE  Counted(prev, levels) = CardinalityBelow(levels)
<1>1. ASSUME NEW path \in TreePaths
      PROVE  CountOf(path) + (IF levels = 0 THEN 0 ELSE SumOver(prev, ChildrenOf(path)))
               = Cardinality(Below(path, levels))
  <2>1. CountOf(path) = Cardinality(Below(path, 0)) /\ Cardinality(Below(path, 0)) \in Nat
    BY BelowAtOnce, BelowFinite, FS_CardinalityType
  <2>2. CASE levels = 0
    BY <2>1, <2>2
  <2>3. CASE levels # 0
    <3>1. PICK l : l = levels - 1 /\ l \in Nat /\ levels = l + 1
      BY <2>3
    <3>2. PICK parts : parts = [q \in ChildrenOf(path) |-> Below(q, l)]
      OBVIOUS
    <3>3. \A q \in ChildrenOf(path) : q \in TreePaths
      BY ChildrenFacts
    <3>4. \A q \in ChildrenOf(path) : IsFiniteSet(parts[q]) /\ prev[q] = Cardinality(parts[q])
      <4>1. prev = CardinalityBelow(l)
        BY <2>3, <3>1
      <4>2. \A q \in TreePaths : prev[q] = Cardinality(Below(q, l))
        BY <4>1 DEF CardinalityBelow
      <4> QED
        BY <3>2, <3>3, <4>2, BelowFinite
    <3>5. \A q, r \in ChildrenOf(path) : q # r => parts[q] \intersect parts[r] = {}
      <4>1. \A q, r \in ChildrenOf(path) : q # r => Below(q, l) \intersect Below(r, l) = {}
        BY <3>1, BelowSplits
      <4> QED
        BY <3>2, <4>1
    <3>6. IsFiniteSet(ChildrenOf(path))
      BY ChildrenFacts
    <3>7. SumOver(prev, ChildrenOf(path)) = Cardinality(UNION {parts[q] : q \in ChildrenOf(path)})
      BY <3>4, <3>5, <3>6, SumOverDisjoint
    <3>8. PICK A, B, C : A = Below(path, 0) /\ B = UNION {parts[q] : q \in ChildrenOf(path)}
                         /\ C = Below(path, levels)
      OBVIOUS
    <3>9. C = A \union B /\ A \intersect B = {}
      <4>1. {parts[q] : q \in ChildrenOf(path)} = {Below(q, l) : q \in ChildrenOf(path)}
        BY <3>2
      <4>2. /\ Below(path, l + 1) = Below(path, 0) \union UNION {Below(q, l) : q \in ChildrenOf(path)}
            /\ Below(path, 0) \intersect UNION {Below(q, l) : q \in ChildrenOf(path)} = {}
        BY <3>1, BelowSplits
      <4> QED
        BY <3>1, <3>8, <4>1, <4>2
    <3>10. IsFiniteSet(A) /\ IsFiniteSet(B)
      <4>1. IsFiniteSet(C)
        BY <3>8, BelowFinite
      <4>2. A \in SUBSET C /\ B \in SUBSET C
        BY <3>9
      <4> QED
        BY <4>1, <4>2, FS_Subset
    <3>11. Cardinality(C) = Cardinality(A) + Cardinality(B)
      <4>1. Cardinality(A \union B) = Cardinality(A) + Cardinality(B) - Cardinality(A \intersect B)
        BY <3>10, FS_Union
      <4>2. Cardinality(A \intersect B) = 0
        BY <3>9, FS_EmptySet
      <4>3. Cardinality(A) \in Nat /\ Cardinality(B) \in Nat
        BY <3>10, FS_CardinalityType
      <4> QED
        BY <3>9, <4>1, <4>2, <4>3
    <3> QED
      BY <2>1, <2>3, <3>7, <3>8, <3>11
  <2> QED
    BY <2>2, <2>3
<1> QED
  BY <1>1, Zenon DEF Counted, CardinalityBelow

LEMMA TreeCountExact ==
  ASSUME graph \in Graphs
  PROVE  \A levels \in 0..MaxTreeDepth : TreeCount[levels] = CardinalityBelow(levels)
<1>1. PICK d : d = MaxTreeDepth /\ d \in Nat
  BY DEF MaxTreeDepth
<1>2. PICK g : g = [levels \in 0..d |-> CardinalityBelow(levels)]
  OBVIOUS
<1>3. CountsTree(g)
  <2>1. ASSUME NEW levels \in 0..d
        PROVE  g[levels] = Counted(g[levels - 1], levels)
    <3>1. levels \in Nat /\ (levels # 0 => levels - 1 \in 0..d)
      BY <1>1
    <3>2. levels # 0 => g[levels - 1] = CardinalityBelow(levels - 1)
      BY <1>2, <3>1
    <3>3. Counted(g[levels - 1], levels) = CardinalityBelow(levels)
      BY <3>1, <3>2, CountedBelow
    <3> QED
      BY <1>2, <3>3
  <2>2. g = [levels \in 0..d |-> g[levels]]
    BY <1>2
  <2>3. g = [levels \in 0..d |-> Counted(g[levels - 1], levels)]
    BY <2>1, <2>2, Zenon
  <2> QED
    BY <1>1, <2>3 DEF CountsTree
<1>4. PICK f : f = TreeCount
  OBVIOUS
<1>5. CountsTree(f)
  BY <1>3, <1>4, TreeCountChosen, Zenon
<1>6. \A levels \in 0..d : f[levels] = Counted(f[levels - 1], levels)
  <2>1. f = [levels \in 0..d |-> Counted(f[levels - 1], levels)]
    BY <1>1, <1>5, Zenon DEF CountsTree
  <2> QED
    BY <2>1, Zenon
<1> DEFINE Off == {l \in 0..d : f[l] # CardinalityBelow(l)}
<1>7. ASSUME Off # {}
      PROVE  FALSE
  <2>1. PICK l \in Off : \A m \in Off : l <= m
    <3>1. Off \subseteq Nat
      BY <1>1
    <3> HIDE DEF Off
    <3> QED
      BY <1>7, <3>1, LeastOf
  <2>2. l \in 0..d /\ f[l] # CardinalityBelow(l) /\ l \in Nat
    BY <1>1, <2>1
  <2>3. l # 0 => f[l - 1] = CardinalityBelow(l - 1)
    <3>1. SUFFICES ASSUME l # 0
                   PROVE  f[l - 1] = CardinalityBelow(l - 1)
      OBVIOUS
    <3>2. PICK k : k = l - 1 /\ k \in 0..d /\ ~(l <= k)
      BY <1>1, <2>2, <3>1
    <3>3. k \notin Off
      <4> HIDE DEF Off
      <4> QED
        BY <2>1, <3>2
    <3> QED
      BY <3>2, <3>3
  <2>4. Counted(f[l - 1], l) = CardinalityBelow(l)
    BY <2>2, <2>3, CountedBelow
  <2> QED
    BY <1>6, <2>2, <2>4, Zenon
<1> QED
  BY <1>1, <1>4, <1>7

(* Each function with a package is below exactly one root. *)
LEMMA RootsShare ==
  ASSUME graph \in Graphs, \A q \in PackageSet : Len(q) <= MaxTreeDepth + 1
  PROVE  /\ Packaged = UNION {Below(q, MaxTreeDepth) : q \in RootPackages}
         /\ \A q, r \in RootPackages :
              q # r => Below(q, MaxTreeDepth) \intersect Below(r, MaxTreeDepth) = {}
         /\ RootPackages \subseteq PackageSet
<1>1. \A q \in PackageSet : q # <<>> /\ q \in Seq(Range(q)) /\ Len(q) \in Nat
  BY PackagesFacts, PathFacts
<1>2. RootPackages \subseteq PackageSet
  BY DEF RootPackages
<1>3. PICK d : d = MaxTreeDepth /\ d \in Nat
  BY DEF MaxTreeDepth
<1>4. ASSUME NEW n \in Packaged
      PROVE  \E q \in RootPackages : n \in Below(q, d)
  <2>1. PICK r : r = graph.pkg[n] /\ r \in PackageSet
    BY PackagesFacts
  <2> DEFINE Lengths == {l \in Nat : \E q \in PackageSet : IsPrefix(q, r) /\ Len(q) = l}
  <2>2. IsPrefix(r, r)
    BY <1>1, <2>1, PrefixFacts
  <2>3. Len(r) \in Lengths
    BY <1>1, <2>1, <2>2
  <2>4. PICK l \in Lengths : \A m \in Lengths : l <= m
    <3>1. Lengths \subseteq Nat /\ Lengths # {}
      BY <2>3
    <3> HIDE DEF Lengths
    <3> QED
      BY <3>1, LeastOf
  <2>5. PICK q \in PackageSet : IsPrefix(q, r) /\ Len(q) = l
    BY <2>4
  <2>6. ASSUME NEW p \in PackageSet, p # q, IsPrefix(p, q)
        PROVE  FALSE
    <3>1. p \in Seq(Range(p)) /\ q \in Seq(Range(q)) /\ r \in Seq(Range(r)) /\ Len(p) \in Nat /\ Len(q) \in Nat
      BY <1>1, <2>1
    <3>2. IsPrefix(p, r)
      BY <2>5, <2>6, <3>1, PrefixTransitive
    <3>3. Len(p) \in Lengths
      BY <3>1, <3>2
    <3>4. Len(q) <= Len(p)
      <4> HIDE DEF Lengths
      <4> QED
        BY <2>4, <2>5, <3>3
    <3>5. Len(p) <= Len(q) /\ \A i \in 1..Len(p) : p[i] = q[i]
      BY <2>6, <3>1, PrefixFacts
    <3>6. Len(p) = Len(q)
      BY <3>1, <3>4, <3>5
    <3> QED
      BY <2>6, <3>1, <3>5, <3>6, SamePath
  <2>7. q \in RootPackages
    BY <2>6 DEF RootPackages
  <2>8. Len(r) <= Len(q) + d
    <3>1. Len(r) <= d + 1 /\ Len(r) \in Nat /\ Len(q) \in Nat
      BY <1>1, <1>3, <2>1
    <3>2. Len(q) # 0
      BY <1>1, EmptySeq
    <3> QED
      BY <1>3, <3>1, <3>2
  <2>9. n \in Below(q, d)
    BY <2>1, <2>5, <2>8 DEF Below
  <2> QED
    BY <2>7, <2>9
<1>5. ASSUME NEW q \in RootPackages, NEW r \in RootPackages, NEW n,
             n \in Below(q, d), n \in Below(r, d)
      PROVE  q = r
  <2>1. PICK p : p = graph.pkg[n] /\ p \in PackageSet
    BY <1>5, PackagesFacts DEF Below
  <2>2. IsPrefix(q, p) /\ IsPrefix(r, p)
    BY <1>5, <2>1 DEF Below
  <2>3. /\ q \in Seq(Range(q)) /\ r \in Seq(Range(r)) /\ p \in Seq(Range(p))
        /\ Len(q) \in Nat /\ Len(r) \in Nat /\ q \in PackageSet /\ r \in PackageSet
    BY <1>1, <1>2, <2>1
  <2>4. IsPrefix(q, r) \/ IsPrefix(r, q)
    <3>1. Len(q) <= Len(r) \/ Len(r) <= Len(q)
      BY <2>3
    <3> QED
      BY <2>2, <2>3, <3>1, PrefixesNest
  <2> QED
    BY <2>3, <2>4 DEF RootPackages
<1>6. \A q : Below(q, d) \subseteq Packaged
  BY BelowFinite
<1> QED
  BY <1>2, <1>3, <1>4, <1>5, <1>6

LEMMA TreeTotal ==
  ASSUME graph \in Graphs, \A q \in PackageSet : Len(q) <= MaxTreeDepth + 1
  PROVE  SumOver(TreeCount[MaxTreeDepth], RootPackages) = Cardinality(Packaged)
<1>1. PICK d, f, roots : d = MaxTreeDepth /\ d \in Nat /\ f = TreeCount[MaxTreeDepth] /\ roots = RootPackages
  BY DEF MaxTreeDepth
<1>2. f = CardinalityBelow(d)
  BY <1>1, TreeCountExact
<1>3. roots \subseteq TreePaths /\ IsFiniteSet(roots)
  <2>1. roots \in SUBSET PackageSet
    BY <1>1, RootsShare
  <2>2. IsFiniteSet(roots)
    BY <2>1, PackagesFacts, FS_Subset
  <2> QED
    BY <2>1, <2>2, TreeFacts
<1>4. PICK parts : parts = [q \in roots |-> Below(q, d)]
  OBVIOUS
<1>5. \A q \in roots : IsFiniteSet(parts[q]) /\ f[q] = Cardinality(parts[q])
  <2>1. \A q \in TreePaths : f[q] = Cardinality(Below(q, d))
    BY <1>2 DEF CardinalityBelow
  <2> QED
    BY <1>3, <1>4, <2>1, BelowFinite
<1>6. /\ Packaged = UNION {Below(q, d) : q \in roots}
      /\ \A q, r \in roots : q # r => Below(q, d) \intersect Below(r, d) = {}
  BY <1>1, RootsShare
<1>7. \A q, r \in roots : q # r => parts[q] \intersect parts[r] = {}
  BY <1>4, <1>6
<1>8. SumOver(f, roots) = Cardinality(UNION {parts[q] : q \in roots})
  BY <1>3, <1>5, <1>7, SumOverDisjoint
<1>9. {parts[q] : q \in roots} = {Below(q, d) : q \in roots}
  BY <1>4
<1> QED
  BY <1>1, <1>6, <1>8, <1>9

(* For any graph and any packages, in any order of the calls: the pages    *)
(* show every function once and every call but those between two pages,    *)
(* the package view every call at the selection, and the package tree      *)
(* counts every function once.                                             *)
THEOREM ViewsComplete == ViewSpec => []ViewsAreComplete
<1>1. DepthInv => TreeCountsEachNodeOnce
  BY TreeTotal DEF DepthInv, DepthTypeOK, TreeCountsEachNodeOnce
<1>2. PagesAreComplete /\ NeighboursAreShown /\ TreeCountsEachNodeOnce => ViewsAreComplete
  BY DEF ViewsAreComplete
<1> QED
  BY <1>1, <1>2, DepthHolds, PagesComplete, NeighboursComplete, PTL

-----------------------------------------------------------------------------
(* The trace of an endpoint: what its two walks have in common.            *)

TraceTypeOK ==
  /\ program \in Programs /\ bounds \in TraceLimits
  /\ links \in [Traced -> Seq(Traced)]
  /\ DOMAIN depth \subseteq Traced /\ depth \in [DOMAIN depth -> Nat]
  /\ program.root \in DOMAIN depth
  /\ cut \in BOOLEAN

LEMMA ProgramFacts ==
  ASSUME program \in Programs
  PROVE  /\ program.root \in Traced
         /\ Len(program.edges) \in Nat
         /\ DOMAIN program.edges = 1..Len(program.edges)
         /\ \A e \in DOMAIN program.edges :
              /\ Edge(e)[1] \in Traced /\ HasBody(Edge(e)[1])
              /\ Edge(e)[2] \in Traced
              /\ Edge(e) = <<Edge(e)[1], Edge(e)[2]>>
         /\ \A n \in Traced : Implementers(n) \subseteq Traced
         /\ \A n \in Traced : \A m \in Implementers(n) : HasBody(m) /\ m # n
<1>1. /\ program.root \in Traced
      /\ program.body \subseteq Traced
      /\ program.edges \in Seq(program.body \X Traced)
      /\ program.impl \in [Traced -> SUBSET Traced]
  BY ProgramsAssumption
<1>2. /\ Len(program.edges) \in Nat
      /\ DOMAIN program.edges = 1..Len(program.edges)
      /\ \A e \in DOMAIN program.edges : program.edges[e] \in program.body \X Traced
  BY <1>1, LenProperties, ElementOfSeq
<1>3. \A e \in DOMAIN program.edges :
        /\ Edge(e)[1] \in Traced /\ HasBody(Edge(e)[1])
        /\ Edge(e)[2] \in Traced
        /\ Edge(e) = <<Edge(e)[1], Edge(e)[2]>>
  BY <1>1, <1>2 DEF Edge, HasBody
<1>4. \A n \in Traced : Implementers(n) \subseteq Traced
  BY <1>1 DEF Implementers
<1>5. \A n \in Traced : \A m \in Implementers(n) : HasBody(m) /\ m # n
  BY <1>1 DEF Implementers, HasBody
<1> QED
  BY <1>1, <1>2, <1>3, <1>4, <1>5

LEMMA CallFacts ==
  ASSUME program \in Programs
  PROVE  /\ \A m, n : Calls(m, n) => m \in Traced /\ n \in Traced /\ HasBody(m)
         /\ \A m \in Traced : \A n : Leads(m, n) => n \in Traced
         /\ \A e \in DOMAIN program.edges : Calls(Edge(e)[1], Edge(e)[2])
<1>1. \A m, n : Calls(m, n) => m \in Traced /\ n \in Traced /\ HasBody(m)
  BY ProgramFacts DEF Calls
<1>2. \A e \in DOMAIN program.edges : Calls(Edge(e)[1], Edge(e)[2])
  BY ProgramFacts DEF Calls
<1> QED
  BY <1>1, <1>2, ProgramFacts DEF Leads

LEMMA AppendedFacts ==
  ASSUME NEW S, NEW s \in Seq(S), NEW e \in S
  PROVE  /\ Append(s, e) \in Seq(S)
         /\ Range(Append(s, e)) = Range(s) \union {e}
         /\ IsInjective(s) /\ e \notin Range(s) => IsInjective(Append(s, e))
<1>1. PICK n \in Nat : n = Len(s)
  BY LenProperties
<1>2. DOMAIN s = 1..n
  BY <1>1, LenProperties
<1>3. PICK a \in Seq(S) : a = Append(s, e)
  BY AppendProperties
<1>4. /\ DOMAIN a = 1..(n + 1)
      /\ \A i \in 1..n : a[i] = s[i]
      /\ a[n + 1] = e
  BY <1>1, <1>3, AppendProperties, LenProperties
<1>5. \A i \in 1..(n + 1) : i \in 1..n \/ i = n + 1
  OBVIOUS
<1>6. \A i \in 1..n : i \in 1..(n + 1)
  OBVIOUS
<1>7. n + 1 \in 1..(n + 1)
  OBVIOUS
<1>8. Range(a) \subseteq Range(s) \union {e}
  BY <1>2, <1>4, <1>5 DEF Range
<1>9. Range(s) \union {e} \subseteq Range(a)
  BY <1>2, <1>4, <1>6, <1>7 DEF Range
<1>10. ASSUME IsInjective(s), e \notin Range(s)
       PROVE  IsInjective(a)
  <2>1. \A i \in 1..n : s[i] # e
    BY <1>2, <1>10 DEF Range
  <2>2. \A i, j \in 1..n : s[i] = s[j] => i = j
    BY <1>2, <1>10 DEF IsInjective
  <2> QED
    BY <1>4, <1>5, <2>1, <2>2 DEF IsInjective
<1> QED
  BY <1>3, <1>8, <1>9, <1>10

(* addEdge adds one link, if it is none from a function to itself.         *)
LEMMA LinkFacts ==
  ASSUME NEW l \in [Traced -> Seq(Traced)], NEW from \in Traced, NEW to \in Traced
  PROVE  /\ AddLink(l, from, to) \in [Traced -> Seq(Traced)]
         /\ \A m \in Traced :
              Range(AddLink(l, from, to)[m]) =
                IF m = from /\ from # to THEN Range(l[m]) \union {to} ELSE Range(l[m])
         /\ (\A m \in Traced : IsInjective(l[m]))
              => \A m \in Traced : IsInjective(AddLink(l, from, to)[m])
<1>1. CASE from = to \/ to \in Range(l[from])
  <2>1. AddLink(l, from, to) = l
    BY <1>1 DEF AddLink
  <2> QED
    BY <1>1, <2>1
<1>2. CASE from # to /\ to \notin Range(l[from])
  <2> DEFINE s == l[from]
             a == Append(s, to)
  <2>1. AddLink(l, from, to) = [l EXCEPT ![from] = a]
    BY <1>2 DEF AddLink
  <2>2. s \in Seq(Traced)
    OBVIOUS
  <2>3. /\ a \in Seq(Traced)
        /\ Range(a) = Range(s) \union {to}
        /\ IsInjective(s) => IsInjective(a)
    BY <1>2, <2>2, AppendedFacts
  <2>4. /\ AddLink(l, from, to) \in [Traced -> Seq(Traced)]
        /\ AddLink(l, from, to)[from] = a
        /\ \A m \in Traced : m # from => AddLink(l, from, to)[m] = l[m]
    BY <2>1, <2>3
  <2>7. \A m \in Traced :
          Range(AddLink(l, from, to)[m]) =
            IF m = from /\ from # to THEN Range(l[m]) \union {to} ELSE Range(l[m])
    BY <1>2, <2>3, <2>4
  <2>8. (\A m \in Traced : IsInjective(l[m]))
           => \A m \in Traced : IsInjective(AddLink(l, from, to)[m])
    BY <2>3, <2>4
  <2> QED
    BY <2>4, <2>7, <2>8
<1> QED
  BY <1>1, <1>2

LEMMA DepthFacts ==
  ASSUME NEW known, DOMAIN known \subseteq Traced, known \in [DOMAIN known -> Nat],
         NEW n \in Traced, NEW d \in Nat
  PROVE  /\ DOMAIN WithDepth(known, n, d) = DOMAIN known \union {n}
         /\ DOMAIN WithDepth(known, n, d) \subseteq Traced
         /\ WithDepth(known, n, d) \in [DOMAIN WithDepth(known, n, d) -> Nat]
         /\ \A m \in DOMAIN known : WithDepth(known, n, d)[m] = known[m]
         /\ n \notin DOMAIN known => WithDepth(known, n, d)[n] = d
<1>1. CASE n \in DOMAIN known
  <2>1. WithDepth(known, n, d) = known
    BY <1>1 DEF WithDepth
  <2> QED
    BY <1>1, <2>1
<1>2. CASE n \notin DOMAIN known
  <2>1. WithDepth(known, n, d) =
          [m \in DOMAIN known \union {n} |-> IF m = n THEN d ELSE known[m]]
    BY <1>2 DEF WithDepth
  <2> QED
    BY <1>2, <2>1
<1> QED
  BY <1>1, <1>2

(* If everything in S but the handler has a link to it from something      *)
(* nearer in S, then S hangs together.                                     *)
LEMMA NearerHangsTogether ==
  ASSUME TraceTypeOK, NEW S \in SUBSET DOMAIN depth, program.root \in S,
         \A n \in S \ {program.root} :
           \E m \in S : depth[m] < depth[n] /\ n \in Range(links[m])
  PROVE  HangsTogetherIn(S)
<1> SUFFICES ASSUME NEW T \in SUBSET S, program.root \in T,
                    \A m \in T : \A k \in S : k \in Range(links[m]) => k \in T,
                    S \ T # {}
             PROVE  FALSE
  BY DEF HangsTogetherIn
<1>1. \A n \in S : depth[n] \in Nat
  BY DEF TraceTypeOK
<1> DEFINE D == {depth[n] : n \in S \ T}
<1>2. D \subseteq Nat /\ D # {}
  BY <1>1
<1>3. PICK k \in D : \A j \in D : k <= j
  BY <1>2, LeastOf
<1>4. PICK n \in S \ T : depth[n] = k
  BY <1>3
<1>5. PICK m \in S : depth[m] < depth[n] /\ n \in Range(links[m])
  BY <1>4
<1>6. m \in T
  <2> SUFFICES ASSUME m \notin T
               PROVE  FALSE
    OBVIOUS
  <2>1. depth[m] \in D
    OBVIOUS
  <2>2. depth[n] <= depth[m]
    BY <1>3, <1>4, <2>1
  <2> QED
    BY <1>1, <1>4, <1>5, <2>2
<1> QED
  BY <1>4, <1>5, <1>6

(* What hangs together still does when links come and a function that one  *)
(* of them leads to.                                                       *)
Together(S, l, root) ==
  \A T \in SUBSET S :
    root \in T /\ (\A i \in T : \A j \in S : j \in Range(l[i]) => j \in T) => T = S

LEMMA StillHangsTogether ==
  ASSUME NEW S, NEW l, NEW k, NEW n, NEW m \in S, NEW root \in S,
         Together(S, l, root),
         \A i \in S : Range(l[i]) \subseteq Range(k[i]),
         n \in S \/ n \in Range(k[m])
  PROVE  Together(S \union {n}, k, root)
<1> SUFFICES ASSUME NEW T \in SUBSET (S \union {n}), root \in T,
                    \A i \in T : \A j \in S \union {n} : j \in Range(k[i]) => j \in T
             PROVE  T = S \union {n}
  BY DEF Together
<1> DEFINE U == T \intersect S
<1>1. U \in SUBSET S /\ root \in U
  OBVIOUS
<1>2. \A i \in U : \A j \in S : j \in Range(l[i]) => j \in U
  OBVIOUS
<1>3. U = S
  BY <1>1, <1>2 DEF Together
<1> QED
  BY <1>3

-----------------------------------------------------------------------------
(* ResolvedTrace: the walk over the call graph.                            *)

ResolvedTypeOK ==
  /\ TraceTypeOK
  /\ waiting \in Seq(Traced) /\ seen \subseteq Traced
  /\ cur \in Traced /\ owed \in Seq(Traced)
  /\ callee \in Traced /\ impls \subseteq Traced

(* Who is visited and has no depth came too late for the limit.            *)
SeenHaveDepths ==
  /\ DOMAIN depth \subseteq seen
  /\ Range(waiting) \subseteq DOMAIN depth
  /\ cur \in DOMAIN depth /\ callee \in seen
  /\ seen # DOMAIN depth => cut /\ Cardinality(seen) > bounds.reachable

(* The loops have only calls and implementations to go to.                 *)
OwedAreReal ==
  /\ \A n \in Range(owed) : Calls(cur, n) /\ n # cur
  /\ impls \subseteq Implementers(callee)

(* What a function that was taken calls is linked and visited, or will be. *)
CallsAreLinked ==
  ~cut => \A f \in DOMAIN depth : \A n :
    Calls(f, n) /\ n # f
      => \/ f \in Range(waiting)
         \/ n \in seen /\ n \in Range(links[f])
         \/ f = cur /\ n \in Range(owed)

(* So is what implements a visited method.                                 *)
ImplsAreLinked ==
  \A x \in seen : \A n \in Implementers(x) :
    \/ n \in seen /\ n \in Range(links[x])
    \/ x = callee /\ n \in impls

(* Every function but the handler has a link from one nearer to it, and an *)
(* implementation still to come will have: its interface method has just   *)
(* been given its depth.                                                   *)
NearerLeads ==
  /\ \A n \in DOMAIN depth \ {program.root} :
       \E m \in DOMAIN depth : depth[m] < depth[n] /\ n \in Range(links[m])
  /\ \/ impls \subseteq seen
     \/ Cardinality(seen) > bounds.reachable
     \/ callee \in DOMAIN depth /\ depth[callee] = depth[cur] + 1

ResolvedInv ==
  /\ ResolvedTypeOK
  /\ SeenHaveDepths
  /\ OwedAreReal
  /\ LinksAreReal
  /\ CallsAreLinked
  /\ ImplsAreLinked
  /\ NearerLeads
  /\ seen \subseteq CanRun

(* CalleesOf has every function that n calls, but not n.                   *)
LEMMA CalleesOfFacts ==
  ASSUME program \in Programs, NEW n \in Traced
  PROVE  /\ CalleesOf(n) \in Seq(Traced)
         /\ \A k : k \in Range(CalleesOf(n)) <=> Calls(n, k) /\ k # n
<1> DEFINE L == Len(program.edges)
           S == {e \in DOMAIN program.edges :
                   /\ Edge(e)[1] = n
                   /\ Edge(e)[2] # n
                   /\ \A f \in 1..(e - 1) : Edge(f) # Edge(e)}
           firsts == InOrder(S)
<1>1. L \in Nat /\ DOMAIN program.edges = 1..L
  BY ProgramFacts
<1>2. S \in SUBSET (1..L)
  BY <1>1
<1>3. /\ firsts \in Seq(S) /\ Range(firsts) = S
      /\ DOMAIN firsts = 1..Len(firsts) /\ Len(firsts) \in Nat
      /\ \A k \in DOMAIN firsts : firsts[k] \in S
  <2> HIDE DEF S, L
  <2> QED
    BY <1>1, <1>2, ListsItsSet
<1>4. CalleesOf(n) = [i \in DOMAIN firsts |-> Edge(firsts[i])[2]]
  BY DEF CalleesOf
<1>5. \A e \in S : Edge(e) = <<n, Edge(e)[2]>> /\ Edge(e)[2] \in Traced /\ Edge(e)[2] # n
                   /\ e \in DOMAIN program.edges
  BY ProgramFacts
<1>6. CalleesOf(n) \in Seq(Traced)
  <2> HIDE DEF S, firsts
  <2>1. \A i \in 1..Len(firsts) : Edge(firsts[i])[2] \in Traced
    BY <1>3, <1>5
  <2>2. PICK m \in Nat : m = Len(firsts)
    BY <1>3
  <2>3. CalleesOf(n) \in [1..m -> Traced]
    BY <1>3, <1>4, <2>1, <2>2
  <2> QED
    BY <2>3, SeqDef
<1>7. ASSUME NEW k \in Range(CalleesOf(n))
      PROVE  Calls(n, k) /\ k # n
  <2> HIDE DEF S, firsts
  <2>1. PICK i \in DOMAIN firsts : k = Edge(firsts[i])[2]
    BY <1>4, <1>7 DEF Range
  <2>2. firsts[i] \in S
    BY <1>3
  <2> QED
    BY <1>5, <2>1, <2>2 DEF Calls
<1>8. ASSUME NEW k, Calls(n, k), k # n
      PROVE  k \in Range(CalleesOf(n))
  <2> DEFINE T == {e \in DOMAIN program.edges : Edge(e) = <<n, k>>}
  <2>1. T \subseteq Nat /\ T # {}
    BY <1>1, <1>8 DEF Calls
  <2>2. PICK e \in T : \A f \in T : e <= f
    BY <2>1, LeastOf
  <2>3. e \in DOMAIN program.edges /\ Edge(e) = <<n, k>> /\ e \in 1..L
    BY <1>1, <2>2
  <2>4. \A f \in 1..(e - 1) : f \in DOMAIN program.edges /\ ~(e <= f)
    BY <1>1, <2>3
  <2>5. \A f \in 1..(e - 1) : Edge(f) # Edge(e)
    BY <2>2, <2>3, <2>4
  <2>6. e \in S
    BY <1>8, <2>3, <2>5
  <2> HIDE DEF S, firsts, T
  <2>7. PICK i \in DOMAIN firsts : firsts[i] = e
    BY <1>3, <2>6 DEF Range
  <2>8. CalleesOf(n)[i] = k /\ i \in DOMAIN CalleesOf(n)
    BY <1>4, <2>3, <2>7
  <2> QED
    BY <2>8 DEF Range
<1> QED
  BY <1>6, <1>7, <1>8

LEMMA CanRunFacts ==
  ASSUME program \in Programs
  PROVE  /\ program.root \in CanRun
         /\ \A m \in CanRun : \A n : Leads(m, n) => n \in CanRun
         /\ CanRun \subseteq Traced
<1>1. program.root \in CanRun
  BY ProgramFacts DEF CanRun
<1>2. CanRun \subseteq Traced
  BY DEF CanRun
<1>3. ASSUME NEW m \in CanRun, NEW n, Leads(m, n)
      PROVE  n \in CanRun
  <2>1. n \in Traced
    BY <1>2, <1>3, CallFacts
  <2> SUFFICES ASSUME NEW S \in SUBSET Traced, program.root \in S,
                      \A i \in S : \A k \in Traced : Leads(i, k) => k \in S
               PROVE  n \in S
    BY <2>1 DEF CanRun
  <2>2. m \in S
    BY DEF CanRun
  <2> QED
    BY <1>3, <2>1, <2>2
<1> QED
  BY <1>1, <1>2, <1>3

(* What enqueue does. *)
LEMMA EnqueueFacts ==
  ASSUME ResolvedTypeOK, SeenHaveDepths, NEW n \in Traced, NEW d \in Nat,
         Enqueue(n, d), UNCHANGED <<program, bounds>>
  PROVE  /\ seen' = seen \union {n}
         /\ DOMAIN depth \subseteq DOMAIN depth' /\ DOMAIN depth' \subseteq DOMAIN depth \union {n}
         /\ \A m \in DOMAIN depth : depth'[m] = depth[m]
         /\ DOMAIN depth' \subseteq Traced /\ depth' \in [DOMAIN depth' -> Nat]
         /\ waiting' \in Seq(Traced)
         /\ Range(waiting) \subseteq Range(waiting')
         /\ Range(waiting') \subseteq DOMAIN depth'
         /\ cut' \in BOOLEAN /\ (cut => cut')
         /\ \A m \in DOMAIN depth' : m \in DOMAIN depth \/ m \in Range(waiting')
         /\ DOMAIN depth' \subseteq seen'
         /\ seen' # DOMAIN depth' => cut' /\ Cardinality(seen') > bounds.reachable
         /\ n \notin seen => \/ n \in DOMAIN depth' /\ depth'[n] = d
                             \/ Cardinality(seen') > bounds.reachable
         /\ n \in DOMAIN depth' =>
              \/ n \in DOMAIN depth
              \/ depth'[n] = d /\ n \notin seen /\ ~(Cardinality(seen) > bounds.reachable)
         /\ Cardinality(seen) > bounds.reachable => Cardinality(seen') > bounds.reachable
<1>1. /\ IsFiniteSet(seen) /\ IsFiniteSet(seen \union {n})
      /\ Cardinality(seen) \in Nat /\ Cardinality(seen \union {n}) \in Nat
      /\ Cardinality(seen) <= Cardinality(seen \union {n})
  <2>1. seen \union {n} \subseteq Traced /\ seen \subseteq seen \union {n}
    BY DEF ResolvedTypeOK
  <2>2. IsFiniteSet(seen \union {n})
    BY <2>1, TracedAssumption, FS_Subset
  <2> QED
    BY <2>1, <2>2, FS_Subset, FS_CardinalityType
<1>2. bounds.reachable \in Nat
  BY LimitsAssumption DEF ResolvedTypeOK, TraceTypeOK
<1>3. /\ DOMAIN depth \subseteq Traced /\ depth \in [DOMAIN depth -> Nat]
      /\ waiting \in Seq(Traced) /\ cut \in BOOLEAN
  BY DEF ResolvedTypeOK, TraceTypeOK
<1>4. CASE n \in seen
  <2>1. UNCHANGED <<seen, depth, waiting, cut>> /\ seen = seen \union {n}
    BY <1>4 DEF Enqueue
  <2> QED
    BY <1>1, <1>2, <1>3, <1>4, <2>1 DEF SeenHaveDepths
<1>5. CASE n \notin seen
  <2>1. /\ seen' = seen \union {n}
        /\ IF Cardinality(seen') > bounds.reachable
            THEN cut' = TRUE /\ UNCHANGED <<depth, waiting>>
            ELSE /\ depth' = WithDepth(depth, n, d)
                 /\ waiting' = Append(waiting, n)
                 /\ UNCHANGED cut
    BY <1>5 DEF Enqueue
  <2>2. n \notin DOMAIN depth
    BY <1>5 DEF SeenHaveDepths
  <2>3. CASE Cardinality(seen') > bounds.reachable
    <3>1. cut' = TRUE /\ UNCHANGED <<depth, waiting>>
      BY <2>1, <2>3
    <3>2. Range(waiting) \subseteq DOMAIN depth /\ DOMAIN depth \subseteq seen
      BY DEF SeenHaveDepths
    <3> QED
      BY <1>1, <1>2, <1>3, <2>1, <2>2, <2>3, <3>1, <3>2
  <2>4. CASE ~(Cardinality(seen') > bounds.reachable)
    <3>1. /\ depth' = WithDepth(depth, n, d)
          /\ waiting' = Append(waiting, n)
          /\ UNCHANGED cut
      BY <2>1, <2>4
    <3>2. /\ DOMAIN depth' = DOMAIN depth \union {n}
          /\ DOMAIN depth' \subseteq Traced
          /\ depth' \in [DOMAIN depth' -> Nat]
          /\ \A m \in DOMAIN depth : depth'[m] = depth[m]
          /\ depth'[n] = d
      <4>1. PICK known : known = depth
        OBVIOUS
      <4>2. /\ DOMAIN known \subseteq Traced /\ known \in [DOMAIN known -> Nat]
            /\ n \notin DOMAIN known
        BY <1>3, <2>2, <4>1
      <4>3. PICK w : w = [m \in DOMAIN known \union {n} |-> IF m = n THEN d ELSE known[m]]
        OBVIOUS
      <4>4. /\ DOMAIN w = DOMAIN known \union {n}
            /\ DOMAIN w \subseteq Traced
            /\ w \in [DOMAIN w -> Nat]
            /\ \A m \in DOMAIN known : w[m] = known[m]
            /\ w[n] = d
        BY <4>2, <4>3
      <4>5. depth' = w
        BY <2>2, <3>1, <4>1, <4>3 DEF WithDepth
      <4> QED
        BY <4>1, <4>4, <4>5
    <3>3. waiting' \in Seq(Traced) /\ Range(waiting') = Range(waiting) \union {n}
      BY <1>3, <3>1, AppendedFacts
    <3>4. ~(Cardinality(seen) > bounds.reachable)
      BY <1>1, <1>2, <2>1, <2>4
    <3>5. seen = DOMAIN depth
      BY <3>4 DEF SeenHaveDepths
    <3>6. Range(waiting) \subseteq DOMAIN depth
      BY DEF SeenHaveDepths
    <3>7. seen' = DOMAIN depth'
      BY <2>1, <3>2, <3>5
    <3> QED
      BY <1>3, <1>5, <2>1, <2>4, <3>1, <3>2, <3>3, <3>4, <3>5, <3>6, <3>7
  <2> QED
    BY <2>3, <2>4
<1> QED
  BY <1>4, <1>5

LEMMA HeadTailRange ==
  ASSUME NEW S, NEW s \in Seq(S), s # <<>>
  PROVE  /\ Head(s) \in S /\ Tail(s) \in Seq(S)
         /\ Range(s) = {Head(s)} \union Range(Tail(s))
         /\ Head(s) = s[1] /\ 1 \in DOMAIN s
<1>1. /\ Head(s) \in S /\ Head(s) = s[1] /\ Tail(s) \in Seq(S)
      /\ Len(Tail(s)) = Len(s) - 1
      /\ \A i \in 1..(Len(s) - 1) : Tail(s)[i] = s[i + 1]
  BY HeadTailProperties
<1>2. PICK n \in Nat : n = Len(s)
  BY LenProperties
<1>3. n # 0
  BY <1>2, EmptySeq
<1>4. PICK t \in Seq(S) : t = Tail(s)
  BY <1>1
<1>5. DOMAIN s = 1..n /\ DOMAIN t = 1..(n - 1)
  BY <1>1, <1>2, <1>4, LenProperties
<1>6. /\ s[1] = Head(s) /\ \A i \in 1..(n - 1) : t[i] = s[i + 1]
  BY <1>1, <1>2, <1>4
<1>7. /\ 1 \in 1..n
      /\ \A i \in 1..n : i = 1 \/ (i - 1 \in 1..(n - 1) /\ (i - 1) + 1 = i)
      /\ \A i \in 1..(n - 1) : i + 1 \in 1..n
  BY <1>3
<1>8. Range(s) \subseteq {Head(s)} \union Range(t)
  <2> SUFFICES ASSUME NEW i \in 1..n
               PROVE  s[i] = Head(s) \/ s[i] \in Range(t)
    BY <1>5 DEF Range
  <2>1. CASE i = 1
    BY <1>6, <2>1
  <2>2. CASE i # 1
    <3>1. i - 1 \in 1..(n - 1) /\ (i - 1) + 1 = i
      BY <2>2
    <3>2. t[i - 1] = s[i]
      BY <1>6, <3>1
    <3> QED
      BY <1>5, <3>1, <3>2 DEF Range
  <2> QED
    BY <2>1, <2>2
<1>9. {Head(s)} \union Range(t) \subseteq Range(s)
  BY <1>5, <1>6, <1>7 DEF Range
<1> QED
  BY <1>1, <1>4, <1>5, <1>7, <1>8, <1>9

LEMMA ResolvedInitial == ResolvedInit => ResolvedInv
<1> SUFFICES ASSUME ResolvedInit
             PROVE  ResolvedInv
  OBVIOUS
<1>1. /\ program \in Programs /\ bounds \in TraceLimits
      /\ links = [n \in Traced |-> <<>>]
      /\ depth = [n \in {program.root} |-> 0]
      /\ cut = FALSE
      /\ waiting = <<program.root>> /\ seen = {program.root}
      /\ cur = program.root /\ owed = <<>> /\ callee = program.root /\ impls = {}
  BY DEF ResolvedInit, TraceInit
<1>2. program.root \in Traced
  BY <1>1, ProgramFacts
<1>3. <<>> \in Seq(Traced) /\ Range(<<>>) = {} /\ IsInjective(<<>>)
  BY EmptySeq DEF Range, IsInjective
<1>4. <<program.root>> \in Seq(Traced) /\ Range(<<program.root>>) = {program.root}
  BY <1>2 DEF Range
<1>5. DOMAIN depth = {program.root} /\ depth \in [DOMAIN depth -> Nat]
  BY <1>1
<1>6. Implementers(program.root) = {}
  BY <1>2 DEF ResolvedInit, Implementers
<1>7. ResolvedTypeOK
  BY <1>1, <1>2, <1>3, <1>4, <1>5 DEF ResolvedTypeOK, TraceTypeOK
<1>8. SeenHaveDepths
  BY <1>1, <1>4, <1>5 DEF SeenHaveDepths
<1>9. OwedAreReal /\ LinksAreReal
  BY <1>1, <1>3 DEF OwedAreReal, LinksAreReal
<1>10. CallsAreLinked /\ ImplsAreLinked
  BY <1>1, <1>4, <1>5, <1>6 DEF CallsAreLinked, ImplsAreLinked
<1>11. NearerLeads /\ seen \subseteq CanRun
  BY <1>1, <1>5, CanRunFacts DEF NearerLeads
<1> QED
  BY <1>7, <1>8, <1>9, <1>10, <1>11 DEF ResolvedInv

LEMMA TakeFunctionKeeps == ResolvedInv /\ TakeFunction => ResolvedInv'
<1> SUFFICES ASSUME ResolvedInv, TakeFunction
             PROVE  ResolvedInv'
  OBVIOUS
<1>1. /\ ResolvedTypeOK /\ SeenHaveDepths /\ OwedAreReal /\ LinksAreReal
      /\ CallsAreLinked /\ ImplsAreLinked /\ NearerLeads /\ seen \subseteq CanRun
  BY DEF ResolvedInv
<1>2. /\ owed = <<>> /\ impls = {} /\ waiting # <<>>
      /\ cur' = Head(waiting) /\ waiting' = Tail(waiting)
      /\ UNCHANGED <<program, bounds, links, depth, seen, callee, impls>>
  BY DEF TakeFunction
<1>3. \/ cut' = TRUE /\ owed' = owed
      \/ owed' = CalleesOf(cur') /\ cut' = cut
  BY DEF TakeFunction
<1>4. /\ cur' \in Traced /\ waiting' \in Seq(Traced)
      /\ Range(waiting) = {cur'} \union Range(waiting')
  BY <1>1, <1>2, HeadTailRange DEF ResolvedTypeOK
<1>5. /\ CalleesOf(cur') \in Seq(Traced)
      /\ \A k : k \in Range(CalleesOf(cur')) <=> Calls(cur', k) /\ k # cur'
  BY <1>1, <1>4, CalleesOfFacts DEF ResolvedTypeOK, TraceTypeOK
<1>6. Range(<<>>) = {}
  BY DEF Range
<1>7. ResolvedTypeOK'
  BY <1>1, <1>2, <1>3, <1>4, <1>5 DEF ResolvedTypeOK, TraceTypeOK
<1>8. SeenHaveDepths'
  BY <1>1, <1>2, <1>3, <1>4 DEF SeenHaveDepths
<1>9. \A m, n : Calls(m, n)' <=> Calls(m, n)
  BY <1>2 DEF Calls, Edge
<1>10. OwedAreReal'
  <2>1. \A n \in Range(owed') : Calls(cur', n) /\ n # cur'
    BY <1>2, <1>3, <1>5, <1>6
  <2> QED
    BY <1>2, <1>9, <2>1 DEF OwedAreReal
<1>11. LinksAreReal'
  BY <1>1, <1>2 DEF LinksAreReal, Leads, Calls, Edge, Implementers, HasBody
<1>12. CallsAreLinked'
  <2> SUFFICES ASSUME ~cut', NEW f \in DOMAIN depth, NEW n, Calls(f, n), n # f
               PROVE  \/ f \in Range(waiting')
                      \/ n \in seen /\ n \in Range(links[f])
                      \/ f = cur' /\ n \in Range(owed')
    BY <1>2, <1>9 DEF CallsAreLinked
  <2>1. owed' = CalleesOf(cur') /\ ~cut
    BY <1>3
  <2>2. \/ f \in Range(waiting)
        \/ n \in seen /\ n \in Range(links[f])
    BY <1>1, <1>2, <1>6, <2>1 DEF CallsAreLinked
  <2> QED
    BY <1>4, <1>5, <2>1, <2>2
<1>13. ImplsAreLinked'
  BY <1>1, <1>2 DEF ImplsAreLinked, Implementers, HasBody
<1>14. NearerLeads'
  BY <1>1, <1>2 DEF NearerLeads
<1>15. (seen \subseteq CanRun)'
  BY <1>1, <1>2 DEF CanRun, Leads, Calls, Edge, Implementers, HasBody
<1> QED
  BY <1>7, <1>8, <1>10, <1>11, <1>12, <1>13, <1>14, <1>15 DEF ResolvedInv

LEMMA FollowCallKeeps == ResolvedInv /\ FollowCall => ResolvedInv'
<1> SUFFICES ASSUME ResolvedInv, FollowCall
             PROVE  ResolvedInv'
  OBVIOUS
<1>1. /\ ResolvedTypeOK /\ SeenHaveDepths /\ OwedAreReal /\ LinksAreReal
      /\ CallsAreLinked /\ ImplsAreLinked /\ NearerLeads /\ seen \subseteq CanRun
  BY DEF ResolvedInv
<1>2. PICK n : n = Head(owed)
  OBVIOUS
<1>3. /\ impls = {} /\ owed # <<>> /\ callee' = n /\ owed' = Tail(owed)
      /\ links' = AddLink(links, cur, n)
      /\ Enqueue(n, depth[cur] + 1)
      /\ impls' = Implementers(n)'
      /\ UNCHANGED <<program, bounds, cur>>
  BY <1>2 DEF FollowCall, Implementers, HasBody
<1>4. /\ n \in Traced /\ owed' \in Seq(Traced)
      /\ Range(owed) = {n} \union Range(owed')
  BY <1>1, <1>2, <1>3, HeadTailRange DEF ResolvedTypeOK
<1>5. /\ cur \in Traced /\ cur \in DOMAIN depth /\ depth[cur] \in Nat
      /\ program \in Programs /\ bounds \in TraceLimits
      /\ links \in [Traced -> Seq(Traced)]
      /\ program.root \in DOMAIN depth
  BY <1>1 DEF ResolvedTypeOK, TraceTypeOK, SeenHaveDepths
<1>6. /\ \A m, k : Calls(m, k)' <=> Calls(m, k)
      /\ \A m, k : Leads(m, k)' <=> Leads(m, k)
      /\ \A m : Implementers(m)' = Implementers(m)
  BY <1>3 DEF Leads, Calls, Edge, Implementers, HasBody
<1>7. CanRun' = CanRun
  BY <1>3 DEF CanRun, Leads, Calls, Edge, Implementers, HasBody
<1>8. Calls(cur, n) /\ n # cur
  BY <1>1, <1>4 DEF OwedAreReal
<1> DEFINE d == depth[cur] + 1
<1>9. d \in Nat
  BY <1>5
<1>10. /\ seen' = seen \union {n}
       /\ DOMAIN depth \subseteq DOMAIN depth' /\ DOMAIN depth' \subseteq DOMAIN depth \union {n}
       /\ \A m \in DOMAIN depth : depth'[m] = depth[m]
       /\ DOMAIN depth' \subseteq Traced /\ depth' \in [DOMAIN depth' -> Nat]
       /\ waiting' \in Seq(Traced)
       /\ Range(waiting) \subseteq Range(waiting')
       /\ Range(waiting') \subseteq DOMAIN depth'
       /\ cut' \in BOOLEAN /\ (cut => cut')
       /\ \A m \in DOMAIN depth' : m \in DOMAIN depth \/ m \in Range(waiting')
       /\ DOMAIN depth' \subseteq seen'
       /\ seen' # DOMAIN depth' => cut' /\ Cardinality(seen') > bounds.reachable
       /\ n \notin seen => \/ n \in DOMAIN depth' /\ depth'[n] = d
                           \/ Cardinality(seen') > bounds.reachable
       /\ n \in DOMAIN depth' =>
            \/ n \in DOMAIN depth
            \/ depth'[n] = d /\ n \notin seen /\ ~(Cardinality(seen) > bounds.reachable)
       /\ Cardinality(seen) > bounds.reachable => Cardinality(seen') > bounds.reachable
  <2> HIDE DEF d
  <2>1. Enqueue(n, d)
    BY <1>3 DEF d
  <2>2. UNCHANGED <<program, bounds>>
    BY <1>3
  <2> QED
    BY <1>1, <1>4, <1>9, <2>1, <2>2, EnqueueFacts
<1>11. /\ links' \in [Traced -> Seq(Traced)]
       /\ \A m \in Traced :
            Range(links'[m]) = IF m = cur THEN Range(links[m]) \union {n} ELSE Range(links[m])
       /\ (\A m \in Traced : IsInjective(links[m])) => \A m \in Traced : IsInjective(links'[m])
  <2>1. cur \in Traced /\ n \in Traced /\ links \in [Traced -> Seq(Traced)]
    BY <1>3, <1>4, <1>5
  <2>2. /\ AddLink(links, cur, n) \in [Traced -> Seq(Traced)]
        /\ \A m \in Traced :
             Range(AddLink(links, cur, n)[m]) =
               IF m = cur /\ cur # n THEN Range(links[m]) \union {n} ELSE Range(links[m])
        /\ (\A m \in Traced : IsInjective(links[m]))
             => \A m \in Traced : IsInjective(AddLink(links, cur, n)[m])
    BY ONLY <2>1, LinkFacts
  <2>3. links' = AddLink(links, cur, n) /\ cur # n
    BY <1>3, <1>8
  <2> QED
    BY <2>2, <2>3
<1>12. Implementers(n) \subseteq Traced
  BY <1>4, <1>5, ProgramFacts
<1>13. ResolvedTypeOK'
  BY <1>1, <1>3, <1>4, <1>5, <1>6, <1>10, <1>11, <1>12 DEF ResolvedTypeOK, TraceTypeOK
<1>14. SeenHaveDepths'
  BY <1>3, <1>5, <1>10 DEF SeenHaveDepths
<1>15. OwedAreReal'
  BY <1>1, <1>3, <1>4, <1>6 DEF OwedAreReal
<1>16. LinksAreReal'
  <2>1. \A m \in Traced : \A k \in Range(links'[m]) : k # m /\ Leads(m, k)
    BY <1>1, <1>8, <1>11 DEF LinksAreReal, Leads
  <2>2. \A m \in Traced : IsInjective(links'[m])
    BY <1>1, <1>11 DEF LinksAreReal
  <2> QED
    BY <1>6, <2>1, <2>2 DEF LinksAreReal
<1>17. CallsAreLinked'
  <2> SUFFICES ASSUME ~cut', NEW f \in DOMAIN depth', NEW k, Calls(f, k), k # f
               PROVE  \/ f \in Range(waiting')
                      \/ k \in seen' /\ k \in Range(links'[f])
                      \/ f = cur /\ k \in Range(owed')
    BY <1>3, <1>6 DEF CallsAreLinked
  <2>1. CASE f \in DOMAIN depth
    <3>1. ~cut
      BY <1>10
    <3>2. \/ f \in Range(waiting)
          \/ k \in seen /\ k \in Range(links[f])
          \/ f = cur /\ k \in Range(owed)
      BY <1>1, <2>1, <3>1 DEF CallsAreLinked
    <3>3. f \in Traced
      BY <1>10
    <3> QED
      BY <1>4, <1>10, <1>11, <3>2, <3>3
  <2>2. CASE f \notin DOMAIN depth
    BY <1>10, <2>2
  <2> QED
    BY <2>1, <2>2
<1>18. ImplsAreLinked'
  <2> SUFFICES ASSUME NEW x \in seen', NEW k \in Implementers(x)
               PROVE  \/ k \in seen' /\ k \in Range(links'[x])
                      \/ x = n /\ k \in Implementers(n)
    BY <1>3, <1>6 DEF ImplsAreLinked
  <2>1. CASE x = n
    BY <2>1
  <2>2. CASE x # n
    <3>1. x \in seen
      BY <1>10, <2>2
    <3>2. x \in Traced
      BY <1>1, <3>1 DEF ResolvedTypeOK
    <3>3. k \in seen /\ k \in Range(links[x])
      BY <1>1, <1>3, <3>1 DEF ImplsAreLinked
    <3> QED
      BY <1>10, <1>11, <3>2, <3>3
  <2> QED
    BY <2>1, <2>2
<1>19. NearerLeads'
  <2>1. ASSUME NEW k \in DOMAIN depth' \ {program.root}
        PROVE  \E m \in DOMAIN depth' : depth'[m] < depth'[k] /\ k \in Range(links'[m])
    <3>1. CASE k \in DOMAIN depth
      <4>1. PICK m \in DOMAIN depth : depth[m] < depth[k] /\ k \in Range(links[m])
        BY <1>1, <3>1 DEF NearerLeads
      <4>2. m \in Traced /\ m \in DOMAIN depth' /\ depth'[m] < depth'[k]
        BY <1>10, <3>1, <4>1
      <4> QED
        BY <1>11, <4>1, <4>2
    <3>2. CASE k \notin DOMAIN depth
      <4>1. k = n /\ depth'[n] = d /\ depth'[cur] = depth[cur] /\ cur \in DOMAIN depth'
        BY <1>5, <1>10, <3>2
      <4>2. depth'[cur] < depth'[n]
        BY <1>5, <4>1
      <4> QED
        BY <1>5, <1>11, <4>1, <4>2
    <3> QED
      BY <3>1, <3>2
  <2>2. \/ Implementers(n) \subseteq seen'
        \/ Cardinality(seen') > bounds.reachable
        \/ n \in DOMAIN depth' /\ depth'[n] = depth'[cur] + 1
    <3>1. CASE n \in seen
      BY <1>1, <1>3, <1>10, <3>1 DEF ImplsAreLinked
    <3>2. CASE n \notin seen
      BY <1>5, <1>10, <3>2
    <3> QED
      BY <3>1, <3>2
  <2> QED
    BY <1>3, <1>6, <2>1, <2>2 DEF NearerLeads
<1>20. (seen \subseteq CanRun)'
  <2>1. cur \in CanRun
    BY <1>1, <1>5 DEF SeenHaveDepths
  <2>2. n \in CanRun
    BY <1>5, <1>8, <2>1, CanRunFacts DEF Leads
  <2> QED
    BY <1>1, <1>7, <1>10, <2>2
<1> QED
  BY <1>13, <1>14, <1>15, <1>16, <1>17, <1>18, <1>19, <1>20 DEF ResolvedInv

LEMMA ResolveCallKeeps == ResolvedInv /\ ResolveCall => ResolvedInv'
<1> SUFFICES ASSUME ResolvedInv, ResolveCall
             PROVE  ResolvedInv'
  OBVIOUS
<1>1. /\ ResolvedTypeOK /\ SeenHaveDepths /\ OwedAreReal /\ LinksAreReal
      /\ CallsAreLinked /\ ImplsAreLinked /\ NearerLeads /\ seen \subseteq CanRun
  BY DEF ResolvedInv
<1>2. PICK n \in impls :
        /\ links' = AddLink(links, callee, n)
        /\ Enqueue(n, depth[cur] + 2)
        /\ impls' = impls \ {n}
        /\ UNCHANGED <<program, bounds, cur, owed, callee>>
  BY DEF ResolveCall
<1>3. /\ cur \in Traced /\ cur \in DOMAIN depth /\ depth[cur] \in Nat
      /\ program \in Programs /\ bounds \in TraceLimits
      /\ links \in [Traced -> Seq(Traced)]
      /\ program.root \in DOMAIN depth /\ callee \in Traced /\ callee \in seen
  BY <1>1 DEF ResolvedTypeOK, TraceTypeOK, SeenHaveDepths
<1>4. n \in Traced /\ n \in Implementers(callee) /\ n # callee /\ HasBody(n)
  BY <1>1, <1>3, ProgramFacts DEF OwedAreReal
<1>5. Implementers(n) = {}
  BY <1>4 DEF Implementers
<1>6. /\ \A m, k : Calls(m, k)' <=> Calls(m, k)
      /\ \A m, k : Leads(m, k)' <=> Leads(m, k)
      /\ \A m : Implementers(m)' = Implementers(m)
  BY <1>2 DEF Leads, Calls, Edge, Implementers, HasBody
<1>7. CanRun' = CanRun
  BY <1>2 DEF CanRun, Leads, Calls, Edge, Implementers, HasBody
<1> DEFINE d == depth[cur] + 2
<1>9. d \in Nat
  BY <1>3
<1>10. /\ seen' = seen \union {n}
       /\ DOMAIN depth \subseteq DOMAIN depth' /\ DOMAIN depth' \subseteq DOMAIN depth \union {n}
       /\ \A m \in DOMAIN depth : depth'[m] = depth[m]
       /\ DOMAIN depth' \subseteq Traced /\ depth' \in [DOMAIN depth' -> Nat]
       /\ waiting' \in Seq(Traced)
       /\ Range(waiting) \subseteq Range(waiting')
       /\ Range(waiting') \subseteq DOMAIN depth'
       /\ cut' \in BOOLEAN /\ (cut => cut')
       /\ \A m \in DOMAIN depth' : m \in DOMAIN depth \/ m \in Range(waiting')
       /\ DOMAIN depth' \subseteq seen'
       /\ seen' # DOMAIN depth' => cut' /\ Cardinality(seen') > bounds.reachable
       /\ n \notin seen => \/ n \in DOMAIN depth' /\ depth'[n] = d
                           \/ Cardinality(seen') > bounds.reachable
       /\ n \in DOMAIN depth' =>
            \/ n \in DOMAIN depth
            \/ depth'[n] = d /\ n \notin seen /\ ~(Cardinality(seen) > bounds.reachable)
       /\ Cardinality(seen) > bounds.reachable => Cardinality(seen') > bounds.reachable
  <2> HIDE DEF d
  <2>1. Enqueue(n, d)
    BY <1>2 DEF d
  <2>2. UNCHANGED <<program, bounds>>
    BY <1>2
  <2> QED
    BY <1>1, <1>4, <1>9, <2>1, <2>2, EnqueueFacts
<1>11. /\ links' \in [Traced -> Seq(Traced)]
       /\ \A m \in Traced :
            Range(links'[m]) = IF m = callee THEN Range(links[m]) \union {n} ELSE Range(links[m])
       /\ (\A m \in Traced : IsInjective(links[m])) => \A m \in Traced : IsInjective(links'[m])
  <2>1. callee \in Traced /\ n \in Traced /\ links \in [Traced -> Seq(Traced)]
    BY <1>3, <1>4
  <2>2. /\ AddLink(links, callee, n) \in [Traced -> Seq(Traced)]
        /\ \A m \in Traced :
             Range(AddLink(links, callee, n)[m]) =
               IF m = callee /\ callee # n THEN Range(links[m]) \union {n} ELSE Range(links[m])
        /\ (\A m \in Traced : IsInjective(links[m]))
             => \A m \in Traced : IsInjective(AddLink(links, callee, n)[m])
    BY ONLY <2>1, LinkFacts
  <2>3. links' = AddLink(links, callee, n) /\ callee # n
    BY <1>2, <1>4
  <2> QED
    BY <2>2, <2>3
<1>13. ResolvedTypeOK'
  BY <1>1, <1>2, <1>3, <1>10, <1>11 DEF ResolvedTypeOK, TraceTypeOK
<1>14. SeenHaveDepths'
  BY <1>2, <1>3, <1>10 DEF SeenHaveDepths
<1>15. OwedAreReal'
  BY <1>1, <1>2, <1>6 DEF OwedAreReal
<1>16. LinksAreReal'
  <2>1. \A m \in Traced : \A k \in Range(links'[m]) : k # m /\ Leads(m, k)
    BY <1>1, <1>4, <1>11 DEF LinksAreReal, Leads
  <2>2. \A m \in Traced : IsInjective(links'[m])
    BY <1>1, <1>11 DEF LinksAreReal
  <2> QED
    BY <1>6, <2>1, <2>2 DEF LinksAreReal
<1>17. CallsAreLinked'
  <2> SUFFICES ASSUME ~cut', NEW f \in DOMAIN depth', NEW k, Calls(f, k), k # f
               PROVE  \/ f \in Range(waiting')
                      \/ k \in seen' /\ k \in Range(links'[f])
                      \/ f = cur /\ k \in Range(owed)
    BY <1>2, <1>6 DEF CallsAreLinked
  <2>1. CASE f \in DOMAIN depth
    <3>1. ~cut
      BY <1>10
    <3>2. \/ f \in Range(waiting)
          \/ k \in seen /\ k \in Range(links[f])
          \/ f = cur /\ k \in Range(owed)
      BY <1>1, <2>1, <3>1 DEF CallsAreLinked
    <3>3. f \in Traced
      BY <1>10
    <3> QED
      BY <1>10, <1>11, <3>2, <3>3
  <2>2. CASE f \notin DOMAIN depth
    BY <1>10, <2>2
  <2> QED
    BY <2>1, <2>2
<1>18. ImplsAreLinked'
  <2> SUFFICES ASSUME NEW x \in seen', NEW k \in Implementers(x)
               PROVE  \/ k \in seen' /\ k \in Range(links'[x])
                      \/ x = callee /\ k \in impls \ {n}
    BY <1>2, <1>6 DEF ImplsAreLinked
  <2>1. x \in seen
    BY <1>5, <1>10
  <2>2. x \in Traced
    BY <1>1, <2>1 DEF ResolvedTypeOK
  <2>3. \/ k \in seen /\ k \in Range(links[x])
        \/ x = callee /\ k \in impls
    BY <1>1, <2>1 DEF ImplsAreLinked
  <2> QED
    BY <1>10, <1>11, <2>2, <2>3
<1>19. NearerLeads'
  <2>1. ASSUME NEW k \in DOMAIN depth' \ {program.root}
        PROVE  \E m \in DOMAIN depth' : depth'[m] < depth'[k] /\ k \in Range(links'[m])
    <3>1. CASE k \in DOMAIN depth
      <4>1. PICK m \in DOMAIN depth : depth[m] < depth[k] /\ k \in Range(links[m])
        BY <1>1, <3>1 DEF NearerLeads
      <4>2. m \in Traced /\ m \in DOMAIN depth' /\ depth'[m] < depth'[k]
        BY <1>10, <3>1, <4>1
      <4> QED
        BY <1>11, <4>1, <4>2
    <3>2. CASE k \notin DOMAIN depth
      <4>1. /\ k = n /\ depth'[n] = d
            /\ n \notin seen /\ ~(Cardinality(seen) > bounds.reachable)
        BY <1>10, <3>2
      <4>2. callee \in DOMAIN depth /\ depth[callee] = depth[cur] + 1
        BY <1>1, <4>1 DEF NearerLeads
      <4>3. depth'[callee] < depth'[n] /\ callee \in DOMAIN depth'
        BY <1>3, <1>10, <4>1, <4>2
      <4> QED
        BY <1>3, <1>11, <4>1, <4>3
    <3> QED
      BY <3>1, <3>2
  <2>2. \/ impls \ {n} \subseteq seen'
        \/ Cardinality(seen') > bounds.reachable
        \/ callee \in DOMAIN depth' /\ depth'[callee] = depth'[cur] + 1
    BY <1>1, <1>3, <1>10 DEF NearerLeads
  <2> QED
    BY <1>2, <2>1, <2>2 DEF NearerLeads
<1>20. (seen \subseteq CanRun)'
  BY <1>1, <1>3, <1>4, <1>7, <1>10, CanRunFacts DEF Leads
<1> QED
  BY <1>13, <1>14, <1>15, <1>16, <1>17, <1>18, <1>19, <1>20 DEF ResolvedInv

(* What the walk over the call graph keeps holds in every state of it.     *)
THEOREM ResolvedCorrect == ResolvedSpec => []ResolvedInv
<1>1. ResolvedInv /\ [ResolvedNext]_resolvedVars => ResolvedInv'
  <2>1. ASSUME ResolvedInv, UNCHANGED resolvedVars
        PROVE  ResolvedInv'
    <3>1. /\ UNCHANGED <<program, bounds, links, depth, cut>>
          /\ UNCHANGED <<waiting, seen, cur, owed, callee, impls>>
      BY <2>1 DEF resolvedVars, traceVars
    <3>2. ResolvedTypeOK'
      BY <2>1, <3>1 DEF ResolvedInv, ResolvedTypeOK, TraceTypeOK
    <3>3. SeenHaveDepths' /\ NearerLeads'
      BY <2>1, <3>1 DEF ResolvedInv, SeenHaveDepths, NearerLeads
    <3>4. OwedAreReal' /\ LinksAreReal'
      BY <2>1, <3>1 DEF ResolvedInv, OwedAreReal, LinksAreReal, Leads, Calls, Edge,
                        Implementers, HasBody
    <3>5. CallsAreLinked' /\ ImplsAreLinked'
      BY <2>1, <3>1 DEF ResolvedInv, CallsAreLinked, ImplsAreLinked, Calls, Edge,
                        Implementers, HasBody
    <3>6. (seen \subseteq CanRun)'
      BY <2>1, <3>1 DEF ResolvedInv, CanRun, Leads, Calls, Edge, Implementers, HasBody
    <3> QED
      BY <3>2, <3>3, <3>4, <3>5, <3>6 DEF ResolvedInv
  <2> QED
    BY <2>1, TakeFunctionKeeps, FollowCallKeeps, ResolveCallKeeps DEF ResolvedNext
<1> QED
  BY <1>1, ResolvedInitial, PTL DEF ResolvedSpec

(* No link is there twice, to where it comes from or for anything else     *)
(* than a call or an implementation (addEdge).                             *)
THEOREM ResolvedLinksAreReal == ResolvedSpec => []LinksAreReal
<1>1. ResolvedInv => LinksAreReal
  BY DEF ResolvedInv
<1> QED
  BY <1>1, ResolvedCorrect, PTL

(* A trace that is not marked as cut has all the handler can run.          *)
THEOREM ResolvedIsComplete == ResolvedSpec => []TraceIsComplete
<1>1. ASSUME ResolvedInv, Finished, ~cut
      PROVE  /\ DOMAIN depth = CanRun
             /\ \A m \in DOMAIN depth : \A n \in Traced :
                  Leads(m, n) /\ n # m => n \in Range(links[m])
  <2>1. /\ program \in Programs /\ program.root \in DOMAIN depth
        /\ DOMAIN depth \subseteq Traced
    BY <1>1 DEF ResolvedInv, ResolvedTypeOK, TraceTypeOK
  <2>2. seen = DOMAIN depth /\ seen \subseteq CanRun
    BY <1>1 DEF ResolvedInv, SeenHaveDepths
  <2>3. Range(waiting) = {} /\ Range(owed) = {} /\ impls = {}
    BY <1>1 DEF Finished, Range
  <2>4. \A m \in DOMAIN depth : \A n :
          Calls(m, n) /\ n # m => n \in DOMAIN depth /\ n \in Range(links[m])
    BY <1>1, <2>2, <2>3 DEF ResolvedInv, CallsAreLinked
  <2>5. \A m \in DOMAIN depth : \A n \in Implementers(m) :
          n \in DOMAIN depth /\ n \in Range(links[m])
    BY <1>1, <2>2, <2>3 DEF ResolvedInv, ImplsAreLinked
  <2>6. \A m \in DOMAIN depth : \A n \in Traced : Leads(m, n) => n \in DOMAIN depth
    BY <2>4, <2>5 DEF Leads
  <2>7. CanRun \subseteq DOMAIN depth
    BY <2>1, <2>6 DEF CanRun
  <2> QED
    BY <2>2, <2>4, <2>5, <2>7 DEF Leads
<1>2. ResolvedInv => TraceIsComplete
  BY <1>1 DEF TraceIsComplete
<1> QED
  BY <1>2, ResolvedCorrect, PTL

(* However the trace is cut, what it has hangs together.                   *)
THEOREM ResolvedIsConnected == ResolvedSpec => []TraceIsConnected
<1>1. ASSUME ResolvedInv
      PROVE  HangsTogetherIn(DOMAIN depth)
  <2>1. TraceTypeOK /\ program.root \in DOMAIN depth
    BY <1>1 DEF ResolvedInv, ResolvedTypeOK, TraceTypeOK
  <2>2. \A n \in DOMAIN depth \ {program.root} :
          \E m \in DOMAIN depth : depth[m] < depth[n] /\ n \in Range(links[m])
    BY <1>1 DEF ResolvedInv, NearerLeads
  <2> QED
    BY <2>1, <2>2, NearerHangsTogether
<1>2. ResolvedInv => TraceIsConnected
  BY <1>1 DEF TraceIsConnected
<1> QED
  BY <1>2, ResolvedCorrect, PTL

(* So does what is drawn of it: with a function, all nearer ones are drawn.*)
THEOREM ResolvedIsDrawnConnected == ResolvedSpec => []DrawnIsConnected
<1>1. ASSUME ResolvedInv
      PROVE  HangsTogetherIn(Shown)
  <2> DEFINE Ahead(n) == {m \in DOMAIN depth : Before(m, n)}
  <2>1. /\ TraceTypeOK /\ program.root \in DOMAIN depth /\ DOMAIN depth \subseteq Traced
        /\ \A n \in DOMAIN depth : depth[n] \in Nat
        /\ bounds.nodes \in Nat \ {0}
    BY <1>1, LimitsAssumption DEF ResolvedInv, ResolvedTypeOK, TraceTypeOK
  <2>2. \A n \in DOMAIN depth \ {program.root} :
          \E m \in DOMAIN depth : depth[m] < depth[n] /\ n \in Range(links[m])
    BY <1>1 DEF ResolvedInv, NearerLeads
  <2>3. \A n \in DOMAIN depth : IsFiniteSet(Ahead(n)) /\ Cardinality(Ahead(n)) \in Nat
    <3> TAKE n \in DOMAIN depth
    <3>1. Ahead(n) \subseteq Traced
      BY <2>1
    <3> HIDE DEF Ahead
    <3> QED
      BY <3>1, TracedAssumption, FS_Subset, FS_CardinalityType
  <2>4. Shown = {n \in DOMAIN depth : Cardinality(Ahead(n)) < bounds.nodes}
    BY DEF Shown
  <2>5. ASSUME NEW n \in Shown, NEW m \in DOMAIN depth, depth[m] < depth[n]
        PROVE  m \in Shown
    <3>1. n \in DOMAIN depth /\ Cardinality(Ahead(n)) < bounds.nodes
      BY <2>4
    <3>2. Ahead(m) \subseteq Ahead(n)
      BY <2>1, <2>5, <3>1 DEF Before
    <3> HIDE DEF Ahead
    <3>3. Cardinality(Ahead(m)) <= Cardinality(Ahead(n))
      BY <2>3, <3>1, <3>2, FS_Subset
    <3>4. PICK i, j, k \in Nat : i = Cardinality(Ahead(m)) /\ j = Cardinality(Ahead(n))
                                 /\ k = bounds.nodes
      BY <2>1, <2>3, <3>1
    <3>5. i < k
      BY <3>1, <3>3, <3>4
    <3> QED
      BY <2>4, <3>4, <3>5
  <2>6. program.root \in Shown
    <3> DEFINE D == {depth[n] : n \in DOMAIN depth}
    <3>1. D \subseteq Nat /\ D # {}
      BY <2>1
    <3>2. PICK k \in D : \A j \in D : k <= j
      BY <3>1, LeastOf
    <3>3. PICK n \in DOMAIN depth : depth[n] = k
      BY <3>2
    <3>4. \A m \in DOMAIN depth : k <= depth[m]
      BY <3>2
    <3>5. \A m \in DOMAIN depth \ {program.root} : ~(depth[m] = k)
      BY <2>1, <2>2, <3>4
    <3>6. depth[program.root] = k
      BY <3>3, <3>5
    <3>7. \A m \in DOMAIN depth : ~Before(m, program.root)
      <4> TAKE m \in DOMAIN depth
      <4>1. CASE m = program.root
        <5>1. PICK j \in Nat : j = program.root
          BY <2>1, TracedAssumption
        <5>2. ~(j < j) /\ ~(k < k)
          BY <2>1, <3>1
        <5> QED
          BY <3>6, <4>1, <5>1, <5>2 DEF Before
      <4>2. CASE m # program.root
        <5>1. PICK j \in Nat : j = depth[m]
          BY <2>1
        <5>2. k \in Nat /\ k <= j /\ j # k
          BY <2>1, <3>3, <3>4, <3>5, <4>2, <5>1
        <5>3. ~(j < k) /\ j # k
          BY <5>2
        <5> QED
          BY <3>6, <5>1, <5>3 DEF Before
      <4> QED
        BY <4>1, <4>2
    <3>8. Ahead(program.root) = {}
      BY <3>7
    <3> HIDE DEF Ahead
    <3>9. Cardinality(Ahead(program.root)) = 0
      BY <3>8, FS_EmptySet
    <3>10. 0 < bounds.nodes
      BY <2>1
    <3> QED
      BY <2>1, <2>4, <3>9, <3>10
  <2>7. Shown \in SUBSET DOMAIN depth
    BY DEF Shown
  <2>8. \A n \in Shown \ {program.root} :
          \E m \in Shown : depth[m] < depth[n] /\ n \in Range(links[m])
    BY <2>2, <2>5, <2>7
  <2> QED
    BY <2>1, <2>6, <2>7, <2>8, NearerHangsTogether
<1>2. ResolvedInv => DrawnIsConnected
  BY <1>1 DEF DrawnIsConnected
<1> QED
  BY <1>2, ResolvedCorrect, PTL

(* ResolvedTrace!ResolvedTraceIsRight for any program and any limits.      *)
THEOREM ResolvedTraceRight == ResolvedSpec => []ResolvedTraceIsRight
  BY ResolvedLinksAreReal, ResolvedIsComplete, ResolvedIsConnected,
     ResolvedIsDrawnConnected, PTL DEF ResolvedTraceIsRight

-----------------------------------------------------------------------------
(* TrackerTrace: the walk over the tracker tree.                           *)

TreeItem == [node : TreeNodes(tree), id : Traced, d : Nat]

TrackerTypeOK ==
  /\ TraceTypeOK
  /\ items \in Seq(TreeItem)
  /\ \A it \in Range(items) : it.id \in DOMAIN depth

(* In a tree of calls a node hangs below the function its item has, which  *)
(* makes the call or is implemented by who does.                           *)
ItemsAreCalls ==
  CallsOnly => \A it \in Range(items) :
    /\ it.id = tree.below[it.node]
    /\ tree.edge[it.node] # 0 => From(it.node) \in {it.id} \union Implementers(it.id)

TreeRunsOnly == CallsOnly => DOMAIN depth \subseteq CanRun

(* A call is in the trace, or the node of it is in the queue.              *)
Settled(e) ==
  /\ Edge(e)[1] \in DOMAIN depth /\ Edge(e)[2] \in DOMAIN depth
  /\ Edge(e)[1] # Edge(e)[2] => Edge(e)[2] \in Range(links[Edge(e)[1]])

Queued(e) == \E it \in Range(items) : tree.edge[it.node] = e

CallsAreSettled ==
  ~cut /\ Covers =>
    /\ \A f \in DOMAIN depth : \A e \in DOMAIN program.edges :
         Edge(e)[1] \in {f} \union Implementers(f) => Settled(e) \/ Queued(e)
    /\ \A f \in DOMAIN depth : \A m \in Implementers(f) :
         \E e \in DOMAIN program.edges : Edge(e)[1] = m
    /\ \A n \in TreeNodes(tree) :
         Opened(n) /\ tree.edge[n] # 0 => Settled(tree.edge[n])

TrackerInv ==
  /\ TrackerTypeOK
  /\ ItemsAreCalls
  /\ TreeLinksAreReal
  /\ TraceIsConnected
  /\ TreeRunsOnly
  /\ CallsAreSettled

LEMMA TrackerTreeFacts ==
  ASSUME program \in Programs
  PROVE  /\ 0 \notin TreeNodes(tree) /\ 0 \notin DOMAIN program.edges
         /\ \A n \in TreeNodes(tree) :
              /\ tree.edge[n] \in {0} \union DOMAIN program.edges
              /\ tree.below[n] \in Traced
         /\ DOMAIN tree.kids = {0} \union TreeNodes(tree)
         /\ \A n \in {0} \union TreeNodes(tree) :
              /\ tree.kids[n] \in Seq(TreeNodes(tree))
              /\ \A i \in DOMAIN tree.kids[n] : tree.kids[n][i] \in TreeNodes(tree)
         /\ tree.builtins \subseteq TreeNodes(tree)
<1>1. /\ tree.size \in Nat
      /\ tree.edge \in [TreeNodes(tree) -> {0} \union DOMAIN program.edges]
      /\ tree.builtins \subseteq TreeNodes(tree)
      /\ tree.below \in [TreeNodes(tree) -> Traced]
      /\ tree.kids \in [{0} \union TreeNodes(tree) -> Seq(TreeNodes(tree))]
  BY TreesAssumption DEF tree
<1>2. 0 \notin TreeNodes(tree)
  BY <1>1 DEF TreeNodes
<1>3. 0 \notin DOMAIN program.edges
  BY ProgramFacts
<1>4. \A n \in {0} \union TreeNodes(tree) :
        /\ tree.kids[n] \in Seq(TreeNodes(tree))
        /\ \A i \in DOMAIN tree.kids[n] : tree.kids[n][i] \in TreeNodes(tree)
  <2> TAKE n \in {0} \union TreeNodes(tree)
  <2>1. tree.kids[n] \in Seq(TreeNodes(tree))
    BY <1>1
  <2> QED
    BY <2>1, LenProperties, ElementOfSeq
<1>5. /\ \A n \in TreeNodes(tree) :
           /\ tree.edge[n] \in {0} \union DOMAIN program.edges
           /\ tree.below[n] \in Traced
      /\ DOMAIN tree.kids = {0} \union TreeNodes(tree)
  BY <1>1
<1> QED
  BY <1>1, <1>2, <1>3, <1>4, <1>5

(* s is a queue of the children of n under the function id, each of them.  *)
QueuesChildren(s, n, id) ==
  /\ s \in Seq(TreeItem)
  /\ \A it \in Range(s) :
       /\ it.id = id
       /\ \E i \in DOMAIN tree.kids[n] : it.node = tree.kids[n][i]
  /\ \A i \in DOMAIN tree.kids[n] : \E it \in Range(s) : it.node = tree.kids[n][i]

LEMMA ItemsForFacts ==
  ASSUME program \in Programs, NEW n \in {0} \union TreeNodes(tree),
         NEW id \in Traced, NEW d \in Nat
  PROVE  QueuesChildren(ItemsFor(n, id, d), n, id)
<1> DEFINE k == tree.kids[n]
           s == ItemsFor(n, id, d)
<1>1. k \in Seq(TreeNodes(tree)) /\ \A i \in DOMAIN k : k[i] \in TreeNodes(tree)
  <2>1. \A i \in {0} \union TreeNodes(tree) :
          /\ tree.kids[i] \in Seq(TreeNodes(tree))
          /\ \A j \in DOMAIN tree.kids[i] : tree.kids[i][j] \in TreeNodes(tree)
    BY TrackerTreeFacts
  <2> QED
    BY <2>1
<1>2. PICK m \in Nat : DOMAIN k = 1..m
  <2> HIDE DEF k
  <2> QED
    BY <1>1, LenProperties
<1>3. s = [i \in DOMAIN k |-> [node |-> k[i], id |-> id, d |-> d]]
  BY DEF ItemsFor
<1>4. \A i \in DOMAIN k : [node |-> k[i], id |-> id, d |-> d] \in TreeItem
  BY <1>1 DEF TreeItem
<1> HIDE DEF k, s
<1>5. s \in [1..m -> TreeItem]
  BY <1>2, <1>3, <1>4
<1>6. s \in Seq(TreeItem)
  BY <1>5, SeqDef
<1>7. /\ \A it \in Range(s) : it.id = id /\ \E i \in DOMAIN k : it.node = k[i]
      /\ \A i \in DOMAIN k : \E it \in Range(s) : it.node = k[i]
  BY <1>3 DEF Range
<1> QED
  BY <1>6, <1>7 DEF k, s, QueuesChildren

LEMMA ConcatRange ==
  ASSUME NEW S, NEW s \in Seq(S), NEW t \in Seq(S)
  PROVE  s \o t \in Seq(S) /\ Range(s \o t) = Range(s) \union Range(t)
<1>1. PICK m, n \in Nat : m = Len(s) /\ n = Len(t)
  BY LenProperties
<1>2. DOMAIN s = 1..m /\ DOMAIN t = 1..n
  BY <1>1, LenProperties
<1>3. PICK c \in Seq(S) : c = s \o t
  BY ConcatProperties
<1>4. /\ DOMAIN c = 1..(m + n)
      /\ \A i \in 1..(m + n) : c[i] = IF i <= m THEN s[i] ELSE t[i - m]
  BY <1>1, <1>3, ConcatProperties, LenProperties
<1>5. ASSUME NEW i \in 1..(m + n)
      PROVE  c[i] \in Range(s) \union Range(t)
  <2>1. CASE i <= m
    BY <1>2, <1>4, <2>1 DEF Range
  <2>2. CASE ~(i <= m)
    <3>1. i - m \in 1..n
      BY <2>2
    <3> QED
      BY <1>2, <1>4, <2>2, <3>1 DEF Range
  <2> QED
    BY <2>1, <2>2
<1>6. ASSUME NEW i \in 1..m
      PROVE  s[i] \in Range(c)
  <2>1. i \in 1..(m + n) /\ i <= m
    OBVIOUS
  <2> QED
    BY <1>4, <2>1 DEF Range
<1>7. ASSUME NEW i \in 1..n
      PROVE  t[i] \in Range(c)
  <2>1. i + m \in 1..(m + n) /\ ~(i + m <= m) /\ (i + m) - m = i
    OBVIOUS
  <2>2. c[i + m] = t[i]
    BY <1>4, <2>1
  <2> QED
    BY <1>4, <2>1, <2>2 DEF Range
<1>8. Range(c) = Range(s) \union Range(t)
  BY <1>2, <1>4, <1>5, <1>6, <1>7 DEF Range
<1> QED
  BY <1>3, <1>8

(* What a step needs of the queue. *)
LEMMA ItemFacts ==
  ASSUME TrackerTypeOK, items # <<>>
  PROVE  /\ Item \in TreeItem /\ Item.node \in TreeNodes(tree)
         /\ Item.id \in Traced /\ Item.id \in DOMAIN depth /\ Item.d \in Nat
         /\ Tail(items) \in Seq(TreeItem)
         /\ Range(items) = {Item} \union Range(Tail(items))
<1>1. items \in Seq(TreeItem) /\ \A it \in Range(items) : it.id \in DOMAIN depth
  BY DEF TrackerTypeOK
<1>2. /\ Head(items) \in TreeItem /\ Tail(items) \in Seq(TreeItem)
      /\ Range(items) = {Head(items)} \union Range(Tail(items))
  BY <1>1, HeadTailRange
<1> QED
  BY <1>1, <1>2 DEF Item, TreeItem

(* What does not change with a step, as the program does not.              *)
LEMMA ProgramStays ==
  ASSUME UNCHANGED program
  PROVE  /\ \A m, n : Calls(m, n)' <=> Calls(m, n)
         /\ \A m, n : Leads(m, n)' <=> Leads(m, n)
         /\ \A m : Implementers(m)' = Implementers(m)
         /\ CanRun' = CanRun
         /\ tree' = tree /\ TreeItem' = TreeItem
         /\ CallsOnly' <=> CallsOnly
         /\ Covers' <=> Covers
         /\ \A n : From(n)' = From(n) /\ To(n)' = To(n)
         /\ \A e : Edge(e)' = Edge(e)
<1>1. tree' = tree /\ \A e : Edge(e)' = Edge(e)
  BY DEF tree, Edge
<1>2. TreeItem' = TreeItem /\ \A n : From(n)' = From(n) /\ To(n)' = To(n)
  BY <1>1 DEF TreeItem, TreeNodes, From, To
<1>3. \A m : Implementers(m)' = Implementers(m)
  BY DEF Implementers, HasBody
<1>4. \A m, n : Calls(m, n)' <=> Calls(m, n)
  BY <1>1 DEF Calls
<1>5. \A m, n : Leads(m, n)' <=> Leads(m, n)
  BY <1>3, <1>4 DEF Leads
<1>6. CanRun' = CanRun
  BY <1>5 DEF CanRun
<1>7. \A n : In(n)' = In(n)
  BY <1>1, <1>2 DEF In
<1>8. CallsOnly' <=> CallsOnly
  BY <1>1, <1>2, <1>3, <1>7 DEF CallsOnly
<1>9. Covers' <=> Covers
  BY <1>1, <1>3, <1>7, <1>8 DEF Covers, TreeNodes
<1> QED
  BY <1>1, <1>2, <1>3, <1>4, <1>5, <1>6, <1>8, <1>9

LEMMA TrackerInitial == TrackerInit => TrackerInv
<1> SUFFICES ASSUME TrackerInit
             PROVE  TrackerInv
  OBVIOUS
<1> DEFINE root == program.root
<1>1. /\ program \in Programs /\ bounds \in TraceLimits
      /\ links = [n \in Traced |-> <<>>]
      /\ depth = [n \in {root} |-> 0]
      /\ cut = FALSE
      /\ items = ItemsFor(0, root, 0) /\ taken = {}
  BY DEF TrackerInit, TraceInit
<1>2. root \in Traced /\ 0 \in Nat /\ 0 \in {0} \union TreeNodes(tree)
  BY <1>1, ProgramFacts
<1>3. <<>> \in Seq(Traced) /\ Range(<<>>) = {} /\ IsInjective(<<>>)
  BY EmptySeq DEF Range, IsInjective
<1>4. DOMAIN depth = {root} /\ depth \in [DOMAIN depth -> Nat]
  BY <1>1
<1>5. /\ items \in Seq(TreeItem)
      /\ \A it \in Range(items) :
           it.id = root /\ \E i \in DOMAIN tree.kids[0] : it.node = tree.kids[0][i]
      /\ \A i \in DOMAIN tree.kids[0] : \E it \in Range(items) : it.node = tree.kids[0][i]
  <2>1. PICK id, d : id = root /\ d = 0
    OBVIOUS
  <2>2. id \in Traced /\ d \in Nat /\ program \in Programs
    BY <1>1, <1>2, <2>1
  <2>3. QueuesChildren(ItemsFor(0, id, d), 0, id)
    <3> HIDE DEF root
    <3> QED
      BY ONLY <1>2, <2>2, ItemsForFacts
  <2>4. items = ItemsFor(0, id, d)
    <3>1. items = ItemsFor(0, root, 0)
      BY <1>1
    <3> HIDE DEF root
    <3> QED
      BY ONLY <2>1, <3>1
  <2>5. QueuesChildren(items, 0, root)
    <3> HIDE DEF root
    <3> QED
      BY ONLY <2>1, <2>3, <2>4
  <2> QED
    BY <2>5 DEF QueuesChildren
<1>6. TrackerTypeOK
  <2>1. TraceTypeOK
    BY <1>1, <1>2, <1>3, <1>4 DEF TraceTypeOK
  <2> QED
    BY <1>4, <1>5, <2>1 DEF TrackerTypeOK
<1>7. /\ In(0) = root
      /\ DOMAIN tree.kids = {0} \union TreeNodes(tree)
  BY <1>1, TrackerTreeFacts DEF In
<1>8. ItemsAreCalls
  <2> SUFFICES ASSUME CallsOnly, NEW it \in Range(items)
               PROVE  /\ it.id = tree.below[it.node]
                      /\ tree.edge[it.node] # 0
                           => From(it.node) \in {it.id} \union Implementers(it.id)
    BY DEF ItemsAreCalls
  <2>1. PICK i \in DOMAIN tree.kids[0] : it.node = tree.kids[0][i]
    BY <1>5
  <2> QED
    BY <1>5, <1>7, <2>1 DEF CallsOnly
<1>9. LinksAreReal
  BY <1>1, <1>3 DEF LinksAreReal
<1>10. TraceIsConnected
  <2> SUFFICES ASSUME NEW T \in SUBSET {root}, root \in T
               PROVE  T = {root}
    BY <1>4 DEF TraceIsConnected, HangsTogetherIn
  <2> QED
    OBVIOUS
<1>11. TreeRunsOnly
  BY <1>1, <1>4, CanRunFacts DEF TreeRunsOnly
<1>12. CallsAreSettled
  <2> SUFFICES ASSUME Covers
               PROVE  /\ \A e \in DOMAIN program.edges :
                           Edge(e)[1] \in {root} \union Implementers(root) => Queued(e)
                      /\ \A m \in Implementers(root) :
                           \E e \in DOMAIN program.edges : Edge(e)[1] = m
    BY <1>1, <1>4 DEF CallsAreSettled, Opened
  <2>1. \A e \in DOMAIN program.edges :
          Edge(e)[1] \in {root} \union Implementers(root)
            => \E i \in DOMAIN tree.kids[0] : tree.edge[tree.kids[0][i]] = e
    BY <1>7 DEF Covers
  <2>2. \A m \in Implementers(root) : \E e \in DOMAIN program.edges : Edge(e)[1] = m
    BY <1>7 DEF Covers
  <2> QED
    BY <1>5, <2>1, <2>2 DEF Queued
<1> QED
  BY <1>6, <1>8, <1>9, <1>10, <1>11, <1>12 DEF TrackerInv, TreeLinksAreReal

(* A step that only takes or opens the first of the queue changes nothing  *)
(* of the trace, so only what it says of the queue is left to show.        *)
LEMMA TraceStays ==
  ASSUME TrackerInv, UNCHANGED <<program, bounds, links, depth>>, cut' \in BOOLEAN,
         cut => cut',
         items' \in Seq(TreeItem),
         \A it \in Range(items') : it.id \in DOMAIN depth,
         CallsOnly => \A it \in Range(items') :
           /\ it.id = tree.below[it.node]
           /\ tree.edge[it.node] # 0 => From(it.node) \in {it.id} \union Implementers(it.id),
         ~cut' /\ Covers =>
           /\ \A e \in DOMAIN program.edges :
                Queued(e) => Settled(e) \/ \E it \in Range(items') : tree.edge[it.node] = e
           /\ \A n \in TreeNodes(tree) : tree.key[n] # 0 /\ tree.key[n] \in taken'
                => tree.edge[n] = 0 \/ tree.key[n] \in taken
  PROVE  TrackerInv'
<1>1. /\ TrackerTypeOK /\ ItemsAreCalls /\ TreeLinksAreReal
      /\ TraceIsConnected /\ TreeRunsOnly /\ CallsAreSettled
  BY DEF TrackerInv
<1>2. /\ \A m, n : Leads(m, n)' <=> Leads(m, n)
      /\ \A m : Implementers(m)' = Implementers(m)
      /\ CanRun' = CanRun
      /\ tree' = tree /\ TreeItem' = TreeItem
      /\ CallsOnly' <=> CallsOnly
      /\ Covers' <=> Covers
      /\ \A n : From(n)' = From(n)
      /\ \A e : Edge(e)' = Edge(e)
  BY ProgramStays
<1>3. TrackerTypeOK'
  BY <1>1, <1>2 DEF TrackerTypeOK, TraceTypeOK
<1>4. ItemsAreCalls'
  BY <1>2 DEF ItemsAreCalls
<1>5. TreeLinksAreReal'
  BY <1>1, <1>2 DEF TreeLinksAreReal, LinksAreReal
<1>6. TraceIsConnected'
  BY <1>1 DEF TraceIsConnected, HangsTogetherIn
<1>7. TreeRunsOnly'
  BY <1>1, <1>2 DEF TreeRunsOnly
<1>8. \A e : Settled(e)' <=> Settled(e)
  BY <1>2 DEF Settled
<1>9. CallsAreSettled'
  <2> SUFFICES ASSUME ~cut', Covers
               PROVE  /\ \A f \in DOMAIN depth : \A e \in DOMAIN program.edges :
                           Edge(e)[1] \in {f} \union Implementers(f)
                             => Settled(e) \/ \E it \in Range(items') : tree.edge[it.node] = e
                      /\ \A f \in DOMAIN depth : \A m \in Implementers(f) :
                           \E e \in DOMAIN program.edges : Edge(e)[1] = m
                      /\ \A n \in TreeNodes(tree) :
                           tree.key[n] # 0 /\ tree.key[n] \in taken' /\ tree.edge[n] # 0
                             => Settled(tree.edge[n])
    BY <1>2, <1>8 DEF CallsAreSettled, Queued, Opened, TreeNodes
  <2>1. /\ \A f \in DOMAIN depth : \A e \in DOMAIN program.edges :
             Edge(e)[1] \in {f} \union Implementers(f) => Settled(e) \/ Queued(e)
        /\ \A f \in DOMAIN depth : \A m \in Implementers(f) :
             \E e \in DOMAIN program.edges : Edge(e)[1] = m
        /\ \A n \in TreeNodes(tree) :
             Opened(n) /\ tree.edge[n] # 0 => Settled(tree.edge[n])
    BY <1>1 DEF CallsAreSettled
  <2>2. \A f \in DOMAIN depth : \A e \in DOMAIN program.edges :
          Edge(e)[1] \in {f} \union Implementers(f)
            => Settled(e) \/ \E it \in Range(items') : tree.edge[it.node] = e
    BY <2>1
  <2>3. ASSUME NEW n \in TreeNodes(tree), tree.key[n] # 0, tree.key[n] \in taken',
               tree.edge[n] # 0
        PROVE  Settled(tree.edge[n])
    BY <2>1, <2>3 DEF Opened
  <2>4. \A f \in DOMAIN depth : \A m \in Implementers(f) :
          \E e \in DOMAIN program.edges : Edge(e)[1] = m
    BY <2>1
  <2> QED
    BY <2>2, <2>3, <2>4
<1> QED
  BY <1>3, <1>4, <1>5, <1>6, <1>7, <1>9 DEF TrackerInv

(* Where the first of the queue goes without a trace, the call it was for  *)
(* is settled, or was none.                                                *)
LEMMA ItemDropped ==
  ASSUME TrackerInv, UNCHANGED <<program, bounds, links, depth>>, cut' \in BOOLEAN,
         cut => cut', items # <<>>, items' = Tail(items),
         ~cut' /\ Covers => tree.edge[Item.node] = 0 \/ Settled(tree.edge[Item.node]),
         ~cut' /\ Covers =>
           \A n \in TreeNodes(tree) : tree.key[n] # 0 /\ tree.key[n] \in taken'
                => tree.edge[n] = 0 \/ tree.key[n] \in taken
  PROVE  TrackerInv'
<1>1. TrackerTypeOK /\ ItemsAreCalls
  BY DEF TrackerInv
<1>2. /\ items' \in Seq(TreeItem) /\ Range(items) = {Item} \union Range(items')
  BY <1>1, ItemFacts
<1>3. \A it \in Range(items') : it \in Range(items)
  BY <1>2
<1>4. \A it \in Range(items') : it.id \in DOMAIN depth
  BY <1>1, <1>3 DEF TrackerTypeOK
<1>5. CallsOnly => \A it \in Range(items') :
        /\ it.id = tree.below[it.node]
        /\ tree.edge[it.node] # 0 => From(it.node) \in {it.id} \union Implementers(it.id)
  BY <1>1, <1>3 DEF ItemsAreCalls
<1>6. ASSUME ~cut', Covers, NEW e \in DOMAIN program.edges, Queued(e)
      PROVE  Settled(e) \/ \E it \in Range(items') : tree.edge[it.node] = e
  <2>1. PICK it \in Range(items) : tree.edge[it.node] = e
    BY <1>6 DEF Queued
  <2>2. program \in Programs
    BY <1>1 DEF TrackerTypeOK, TraceTypeOK
  <2>3. e # 0
    BY <1>6, <2>2, TrackerTreeFacts
  <2> QED
    BY <1>2, <1>6, <2>1, <2>3
<1> QED
  BY <1>2, <1>4, <1>5, <1>6, TraceStays

LEMMA DropDeepKeeps == TrackerInv /\ DropDeep => TrackerInv'
<1> SUFFICES ASSUME TrackerInv, DropDeep
             PROVE  TrackerInv'
  OBVIOUS
<1>1. /\ items # <<>> /\ cut' = TRUE /\ items' = Tail(items)
      /\ UNCHANGED <<program, bounds, links, depth, taken>>
  BY DEF DropDeep
<1> QED
  BY <1>1, ItemDropped

LEMMA SkipOpenedKeeps == TrackerInv /\ SkipOpened => TrackerInv'
<1> SUFFICES ASSUME TrackerInv, SkipOpened
             PROVE  TrackerInv'
  OBVIOUS
<1>1. /\ items # <<>> /\ Opened(Item.node) /\ items' = Tail(items)
      /\ UNCHANGED <<program, bounds, links, depth, cut, taken>>
  BY DEF SkipOpened, traceVars
<1>2. TrackerTypeOK /\ CallsAreSettled
  BY DEF TrackerInv
<1>3. Item.node \in TreeNodes(tree) /\ cut \in BOOLEAN
  BY <1>1, <1>2, ItemFacts DEF TrackerTypeOK, TraceTypeOK
<1>4. ~cut /\ Covers => tree.edge[Item.node] = 0 \/ Settled(tree.edge[Item.node])
  BY <1>1, <1>2, <1>3 DEF CallsAreSettled
<1> QED
  BY <1>1, <1>3, <1>4, ItemDropped

LEMMA SkipBuiltinKeeps == TrackerInv /\ SkipBuiltin => TrackerInv'
<1> SUFFICES ASSUME TrackerInv, SkipBuiltin
             PROVE  TrackerInv'
  OBVIOUS
<1>1. PICK n \in tree.builtins :
        /\ items # <<>> /\ items' = Tail(items)
        /\ UNCHANGED <<program, bounds, links, depth, cut>>
  BY DEF SkipBuiltin, Takes, traceVars
<1>2. ~Covers
  BY DEF Covers
<1>3. cut \in BOOLEAN
  BY DEF TrackerInv, TrackerTypeOK, TraceTypeOK
<1> QED
  BY <1>1, <1>2, <1>3, ItemDropped

(* The children of a node go into the queue with its function.             *)
QueueWith(n, id, d) == Tail(items) \o ItemsFor(n, id, d)

LEMMA ChildrenQueued ==
  ASSUME TrackerInv, items # <<>>, NEW n \in TreeNodes(tree), NEW id \in Traced,
         NEW d \in Nat
  PROVE  /\ QueueWith(n, id, d) \in Seq(TreeItem)
         /\ \A it \in Range(QueueWith(n, id, d)) : it \in Range(items) \/ it.id = id
         /\ \A it \in Range(items) : it = Item \/ it \in Range(QueueWith(n, id, d))
         /\ \A i \in DOMAIN tree.kids[n] : \E it \in Range(QueueWith(n, id, d)) : it.node = tree.kids[n][i]
         /\ CallsOnly /\ In(n) = id => \A it \in Range(QueueWith(n, id, d)) :
              /\ it.id = tree.below[it.node]
              /\ tree.edge[it.node] # 0
                   => From(it.node) \in {it.id} \union Implementers(it.id)
<1>1. TrackerTypeOK /\ ItemsAreCalls /\ program \in Programs
  BY DEF TrackerInv, TrackerTypeOK, TraceTypeOK
<1> DEFINE q == QueueWith(n, id, d)
<1>2. PICK s : s = ItemsFor(n, id, d)
  OBVIOUS
<1>3. /\ s \in Seq(TreeItem)
      /\ \A it \in Range(s) :
           it.id = id /\ \E i \in DOMAIN tree.kids[n] : it.node = tree.kids[n][i]
      /\ \A i \in DOMAIN tree.kids[n] : \E it \in Range(s) : it.node = tree.kids[n][i]
  <2>1. QueuesChildren(s, n, id)
    BY <1>1, <1>2, ItemsForFacts
  <2> QED
    BY <2>1 DEF QueuesChildren
<1>4. Tail(items) \in Seq(TreeItem) /\ Range(items) = {Item} \union Range(Tail(items))
  BY <1>1, ItemFacts
<1>5. q \in Seq(TreeItem) /\ Range(q) = Range(Tail(items)) \union Range(s)
  <2>1. PICK t : t = Tail(items)
    OBVIOUS
  <2>2. s \in Seq(TreeItem) /\ t \in Seq(TreeItem)
    BY <1>3, <1>4, <2>1
  <2>3. t \o s \in Seq(TreeItem) /\ Range(t \o s) = Range(t) \union Range(s)
    BY ONLY <2>2, ConcatRange
  <2> QED
    BY <1>2, <2>1, <2>3 DEF QueueWith
<1> HIDE DEF q
<1>6. ASSUME CallsOnly, In(n) = id, NEW it \in Range(q)
      PROVE  /\ it.id = tree.below[it.node]
             /\ tree.edge[it.node] # 0
                  => From(it.node) \in {it.id} \union Implementers(it.id)
  <2>1. CASE it \in Range(items)
    BY <1>1, <1>6, <2>1 DEF ItemsAreCalls
  <2>2. CASE it \in Range(s)
    <3>1. PICK i \in DOMAIN tree.kids[n] : it.node = tree.kids[n][i]
      BY <1>3, <2>2
    <3>2. n \in DOMAIN tree.kids
      BY <1>1, TrackerTreeFacts
    <3> QED
      BY <1>3, <1>6, <2>2, <3>1, <3>2 DEF CallsOnly
  <2> QED
    BY <1>4, <1>5, <2>1, <2>2
<1> QED
  BY <1>3, <1>4, <1>5, <1>6 DEF q

LEMMA OpenWrapperKeeps == TrackerInv /\ OpenWrapper => TrackerInv'
<1> SUFFICES ASSUME TrackerInv, OpenWrapper
             PROVE  TrackerInv'
  OBVIOUS
<1>1. PICK n \in TreeNodes(tree) :
        /\ items # <<>> /\ n = Item.node
        /\ taken' = taken \union ({tree.key[n]} \ {0})
        /\ tree.edge[n] = 0
        /\ items' = Tail(items) \o ItemsFor(n, Item.id, Item.d)
        /\ UNCHANGED <<program, bounds, links, depth, cut>>
  BY DEF OpenWrapper, Takes, traceVars
<1>2. TrackerTypeOK /\ ItemsAreCalls /\ cut \in BOOLEAN /\ program \in Programs
  BY DEF TrackerInv, TrackerTypeOK, TraceTypeOK
<1>3. /\ Item.id \in Traced /\ Item.d \in Nat /\ Item.id \in DOMAIN depth
      /\ Item \in Range(items)
  BY <1>1, <1>2, ItemFacts
<1>4. /\ items' \in Seq(TreeItem)
      /\ \A it \in Range(items') : it \in Range(items) \/ it.id = Item.id
      /\ \A it \in Range(items) : it = Item \/ it \in Range(items')
      /\ CallsOnly /\ In(n) = Item.id => \A it \in Range(items') :
           /\ it.id = tree.below[it.node]
           /\ tree.edge[it.node] # 0
                => From(it.node) \in {it.id} \union Implementers(it.id)
  <2>1. PICK id \in Traced, d \in Nat : id = Item.id /\ d = Item.d
    BY <1>3
  <2>2. items' = QueueWith(n, id, d)
    BY <1>1, <2>1 DEF QueueWith
  <2>3. items # <<>>
    BY <1>1
  <2>4. /\ QueueWith(n, id, d) \in Seq(TreeItem)
        /\ \A it \in Range(QueueWith(n, id, d)) : it \in Range(items) \/ it.id = id
        /\ \A it \in Range(items) : it = Item \/ it \in Range(QueueWith(n, id, d))
        /\ CallsOnly /\ In(n) = id => \A it \in Range(QueueWith(n, id, d)) :
             /\ it.id = tree.below[it.node]
             /\ tree.edge[it.node] # 0
                  => From(it.node) \in {it.id} \union Implementers(it.id)
    BY ONLY TrackerInv, <2>3, ChildrenQueued
  <2> QED
    BY <2>1, <2>2, <2>4
<1>5. \A it \in Range(items') : it.id \in DOMAIN depth
  BY <1>2, <1>3, <1>4 DEF TrackerTypeOK
<1>6. CallsOnly => In(n) = Item.id
  <2>1. n # 0
    BY <1>2, TrackerTreeFacts
  <2> QED
    BY <1>1, <1>2, <1>3, <2>1 DEF ItemsAreCalls, In
<1>7. ASSUME NEW e \in DOMAIN program.edges, Queued(e)
      PROVE  \E it \in Range(items') : tree.edge[it.node] = e
  <2>1. e # 0
    BY <1>2, TrackerTreeFacts
  <2> QED
    BY <1>1, <1>4, <1>7, <2>1 DEF Queued
<1>8. ASSUME Covers, NEW m \in TreeNodes(tree), tree.key[m] # 0, tree.key[m] \in taken'
      PROVE  tree.edge[m] = 0 \/ tree.key[m] \in taken
  <2>1. CASE tree.key[m] = tree.key[n]
    BY <1>1, <1>8, <2>1 DEF Covers
  <2> QED
    BY <1>1, <1>8, <2>1
<1> QED
  BY <1>1, <1>2, <1>4, <1>5, <1>6, <1>7, <1>8, TraceStays

LEMMA FollowEdgeKeeps == TrackerInv /\ FollowEdge => TrackerInv'
<1> SUFFICES ASSUME TrackerInv, FollowEdge
             PROVE  TrackerInv'
  OBVIOUS
<1>1. /\ TrackerTypeOK /\ ItemsAreCalls /\ TreeLinksAreReal
      /\ TraceIsConnected /\ TreeRunsOnly /\ CallsAreSettled
  BY DEF TrackerInv
<1>2. /\ program \in Programs /\ bounds \in TraceLimits
      /\ links \in [Traced -> Seq(Traced)]
      /\ DOMAIN depth \subseteq Traced /\ depth \in [DOMAIN depth -> Nat]
      /\ program.root \in DOMAIN depth /\ cut \in BOOLEAN
      /\ \A it \in Range(items) : it.id \in DOMAIN depth
  BY <1>1 DEF TrackerTypeOK, TraceTypeOK
<1>3. PICK n \in TreeNodes(tree) \ tree.builtins :
        /\ Takes(n)
        /\ tree.edge[n] # 0
        /\ LET id      == Item.id
               hops    == Hops(n, id)
               at      == IF hops THEN From(n) ELSE id
               d       == IF hops THEN Item.d + 1 ELSE Item.d
               reached == IF hops THEN WithDepth(depth, at, d) ELSE depth
           IN  /\ links' = AddLink(IF hops THEN AddLink(links, id, at) ELSE links, at, To(n))
               /\ depth' = IF To(n) = at THEN reached ELSE WithDepth(reached, To(n), d + 1)
               /\ IF Cardinality(DOMAIN depth') > bounds.reachable
                    THEN cut' = TRUE /\ items' = Tail(items)
                    ELSE items' = Tail(items) \o ItemsFor(n, To(n), d + 1) /\ UNCHANGED cut
        /\ UNCHANGED <<program, bounds>>
  BY DEF FollowEdge
<1>4. /\ items # <<>> /\ n = Item.node
      /\ taken' = taken \union ({tree.key[n]} \ {0})
      /\ program' = program /\ bounds' = bounds
  BY <1>3 DEF Takes
<1> DEFINE e == tree.edge[n]
<1>5. PICK id, to : id = Item.id /\ to = To(n)
  OBVIOUS
<1>6. PICK at, d, reached, l :
        /\ at = IF Hops(n, id) THEN From(n) ELSE id
        /\ d = IF Hops(n, id) THEN Item.d + 1 ELSE Item.d
        /\ reached = IF Hops(n, id) THEN WithDepth(depth, at, d) ELSE depth
        /\ l = IF Hops(n, id) THEN AddLink(links, id, at) ELSE links
  OBVIOUS
<1>7. /\ links' = AddLink(l, at, to)
      /\ depth' = IF to = at THEN reached ELSE WithDepth(reached, to, d + 1)
      /\ \/ cut' = TRUE /\ items' = Tail(items)
         \/ items' = QueueWith(n, to, d + 1) /\ cut' = cut
  BY <1>3, <1>5, <1>6 DEF QueueWith
<1>8. /\ id \in Traced /\ id \in DOMAIN depth /\ Item.d \in Nat
      /\ Range(items) = {Item} \union Range(Tail(items))
      /\ Tail(items) \in Seq(TreeItem)
  BY <1>1, <1>4, <1>5, ItemFacts
<1>9. /\ e \in DOMAIN program.edges
      /\ From(n) = Edge(e)[1] /\ to = Edge(e)[2]
      /\ From(n) \in Traced /\ to \in Traced /\ HasBody(From(n)) /\ Calls(From(n), to)
  <2>1. e \in DOMAIN program.edges
    BY <1>2, <1>3, TrackerTreeFacts
  <2>2. From(n) = Edge(e)[1] /\ to = Edge(e)[2]
    BY <1>5 DEF From, To
  <2> HIDE DEF e
  <2> QED
    BY <1>2, <2>1, <2>2, ProgramFacts, CallFacts
<1> HIDE DEF e
<1>10. /\ at \in Traced /\ d \in Nat
       /\ Hops(n, id) => at = From(n) /\ at # id /\ at # to
       /\ ~Hops(n, id) => at = id /\ From(n) \in {id, to}
  BY <1>5, <1>6, <1>8, <1>9 DEF Hops
<1>11. /\ l \in [Traced -> Seq(Traced)]
       /\ \A m \in Traced :
            Range(l[m]) = IF m = id /\ at # id THEN Range(links[m]) \union {at}
                                               ELSE Range(links[m])
       /\ (\A m \in Traced : IsInjective(links[m])) => \A m \in Traced : IsInjective(l[m])
  <2>1. CASE Hops(n, id)
    <3>1. /\ AddLink(links, id, at) \in [Traced -> Seq(Traced)]
          /\ \A m \in Traced :
               Range(AddLink(links, id, at)[m]) =
                 IF m = id /\ id # at THEN Range(links[m]) \union {at} ELSE Range(links[m])
          /\ (\A m \in Traced : IsInjective(links[m]))
               => \A m \in Traced : IsInjective(AddLink(links, id, at)[m])
      BY <1>2, <1>8, <1>10, LinkFacts
    <3>2. l = AddLink(links, id, at)
      BY <1>6, <2>1
    <3> QED
      BY <1>10, <2>1, <3>1, <3>2
  <2>2. CASE ~Hops(n, id)
    BY <1>2, <1>6, <1>10, <2>2
  <2> QED
    BY <2>1, <2>2
<1>12. /\ links' \in [Traced -> Seq(Traced)]
       /\ \A m \in Traced :
            Range(links'[m]) = IF m = at /\ at # to THEN Range(l[m]) \union {to}
                                                    ELSE Range(l[m])
       /\ (\A m \in Traced : IsInjective(l[m])) => \A m \in Traced : IsInjective(links'[m])
  <2>1. at \in Traced /\ to \in Traced /\ l \in [Traced -> Seq(Traced)]
    BY <1>9, <1>10, <1>11
  <2>2. /\ AddLink(l, at, to) \in [Traced -> Seq(Traced)]
        /\ \A m \in Traced :
             Range(AddLink(l, at, to)[m]) =
               IF m = at /\ at # to THEN Range(l[m]) \union {to} ELSE Range(l[m])
        /\ (\A m \in Traced : IsInjective(l[m]))
             => \A m \in Traced : IsInjective(AddLink(l, at, to)[m])
    BY ONLY <2>1, LinkFacts
  <2> QED
    BY <1>7, <2>2
<1>13. /\ DOMAIN reached = DOMAIN depth \union {at}
       /\ DOMAIN reached \subseteq Traced /\ reached \in [DOMAIN reached -> Nat]
  <2>1. CASE Hops(n, id)
    <3>1. PICK known : known = depth
      OBVIOUS
    <3>2. DOMAIN known \subseteq Traced /\ known \in [DOMAIN known -> Nat]
      BY <1>2, <3>1
    <3>3. /\ DOMAIN WithDepth(known, at, d) = DOMAIN known \union {at}
          /\ DOMAIN WithDepth(known, at, d) \subseteq Traced
          /\ WithDepth(known, at, d) \in [DOMAIN WithDepth(known, at, d) -> Nat]
      BY ONLY <1>10, <3>2, DepthFacts
    <3> QED
      BY <1>6, <2>1, <3>1, <3>3
  <2>2. CASE ~Hops(n, id)
    BY <1>2, <1>6, <1>8, <1>10, <2>2
  <2> QED
    BY <2>1, <2>2
<1>14. /\ DOMAIN depth' = DOMAIN depth \union {at, to}
       /\ DOMAIN depth' \subseteq Traced /\ depth' \in [DOMAIN depth' -> Nat]
  <2>1. CASE to = at
    BY <1>7, <1>13, <2>1
  <2>2. CASE to # at
    <3>1. PICK k \in Nat : k = d + 1
      BY <1>10
    <3>2. /\ DOMAIN WithDepth(reached, to, k) = DOMAIN reached \union {to}
          /\ DOMAIN WithDepth(reached, to, k) \subseteq Traced
          /\ WithDepth(reached, to, k) \in [DOMAIN WithDepth(reached, to, k) -> Nat]
      BY ONLY <1>9, <1>13, DepthFacts
    <3>3. depth' = WithDepth(reached, to, k)
      BY <1>7, <2>2, <3>1
    <3> QED
      BY <1>13, <3>2, <3>3
  <2> QED
    BY <2>1, <2>2
<1>15. PICK k \in Nat : k = d + 1
  BY <1>10
<1>16. /\ QueueWith(n, to, k) \in Seq(TreeItem)
       /\ \A it \in Range(QueueWith(n, to, k)) : it \in Range(items) \/ it.id = to
       /\ \A it \in Range(items) : it = Item \/ it \in Range(QueueWith(n, to, k))
       /\ \A i \in DOMAIN tree.kids[n] :
            \E it \in Range(QueueWith(n, to, k)) : it.node = tree.kids[n][i]
       /\ CallsOnly /\ In(n) = to => \A it \in Range(QueueWith(n, to, k)) :
            /\ it.id = tree.below[it.node]
            /\ tree.edge[it.node] # 0
                 => From(it.node) \in {it.id} \union Implementers(it.id)
  <2>1. /\ items # <<>> /\ n \in TreeNodes(tree) /\ to \in Traced
    BY <1>3, <1>4, <1>9
  <2> QED
    BY ONLY TrackerInv, <1>15, <2>1, ChildrenQueued
<1>17. In(n) = to
  <2>1. n # 0
    BY <1>2, <1>3, TrackerTreeFacts
  <2> QED
    BY <1>3, <1>5, <2>1 DEF In
<1>18. \/ cut' = TRUE /\ items' = Tail(items)
       \/ items' = QueueWith(n, to, k) /\ cut' = cut
  BY <1>7, <1>15
<1>19. /\ \A i, j : Calls(i, j)' <=> Calls(i, j)
       /\ \A i, j : Leads(i, j)' <=> Leads(i, j)
       /\ \A i : Implementers(i)' = Implementers(i)
       /\ CanRun' = CanRun
       /\ tree' = tree /\ TreeItem' = TreeItem
       /\ CallsOnly' <=> CallsOnly
       /\ Covers' <=> Covers
       /\ \A i : From(i)' = From(i)
       /\ \A i : Edge(i)' = Edge(i)
  BY <1>4, ProgramStays
(* The links: the first is an implementation, the second a call, or an     *)
(* implementation that calls itself.                                       *)
<1>20. CallsOnly => /\ at # id => Leads(id, at)
                    /\ at # to => Leads(at, to)
                    /\ From(n) \in {id} \union Implementers(id)
  <2> SUFFICES ASSUME CallsOnly
               PROVE  /\ at # id => Leads(id, at)
                      /\ at # to => Leads(at, to)
                      /\ From(n) \in {id} \union Implementers(id)
    OBVIOUS
  <2>1. From(n) \in {id} \union Implementers(id)
    BY <1>1, <1>3, <1>4, <1>5, <1>8 DEF ItemsAreCalls
  <2>2. CASE Hops(n, id)
    BY <1>9, <1>10, <2>1, <2>2 DEF Leads
  <2>3. CASE ~Hops(n, id)
    BY <1>9, <1>10, <2>1, <2>3 DEF Leads
  <2> QED
    BY <2>1, <2>2, <2>3
<1>21. TrackerTypeOK'
  <2>1. TraceTypeOK'
    <3>1. cut' \in BOOLEAN
      BY <1>2, <1>18
    <3> QED
      BY <1>2, <1>4, <1>12, <1>14, <3>1 DEF TraceTypeOK
  <2>2. items' \in Seq(TreeItem)
    BY <1>8, <1>16, <1>18
  <2>3. \A it \in Range(items') : it.id \in DOMAIN depth'
    BY <1>2, <1>8, <1>14, <1>16, <1>18
  <2> QED
    BY <1>19, <2>1, <2>2, <2>3 DEF TrackerTypeOK
<1>22. ItemsAreCalls'
  <2> SUFFICES ASSUME CallsOnly, NEW it \in Range(items')
               PROVE  /\ it.id = tree.below[it.node]
                      /\ tree.edge[it.node] # 0
                           => From(it.node) \in {it.id} \union Implementers(it.id)
    BY <1>19 DEF ItemsAreCalls
  <2>1. CASE it \in Range(items)
    BY <1>1, <2>1 DEF ItemsAreCalls
  <2>2. CASE it \notin Range(items)
    BY <1>8, <1>16, <1>17, <1>18, <2>2
  <2> QED
    BY <2>1, <2>2
<1>23. TreeLinksAreReal'
  <2> SUFFICES ASSUME CallsOnly
               PROVE  /\ \A m \in Traced : IsInjective(links'[m])
                      /\ \A m \in Traced : \A j \in Range(links'[m]) : j # m /\ Leads(m, j)
    BY <1>19 DEF TreeLinksAreReal, LinksAreReal
  <2>1. LinksAreReal
    BY <1>1 DEF TreeLinksAreReal
  <2>2. \A m \in Traced : IsInjective(links'[m])
    BY <1>11, <1>12, <2>1 DEF LinksAreReal
  <2>3. \A m \in Traced : \A j \in Range(l[m]) : j # m /\ Leads(m, j)
    BY <1>11, <1>20, <2>1 DEF LinksAreReal
  <2> QED
    BY <1>12, <1>20, <2>2, <2>3
<1>24. TraceIsConnected'
  <2> DEFINE S == DOMAIN depth
             U == S \union {at}
             root == program.root
  <2>1. Together(S, links, root)
    BY <1>1 DEF TraceIsConnected, HangsTogetherIn, Together
  <2>2. /\ root \in S /\ id \in S
        /\ \A i \in S : Range(links[i]) \subseteq Range(l[i])
        /\ at \in S \/ at \in Range(l[id])
    BY <1>2, <1>8, <1>11
  <2>3. Together(U, l, root)
    <3> HIDE DEF S, root
    <3> QED
      BY ONLY <2>1, <2>2, StillHangsTogether DEF U
  <2>4. /\ root \in U /\ at \in U
        /\ \A i \in U : Range(l[i]) \subseteq Range(links'[i])
        /\ to \in U \/ to \in Range(links'[at])
    BY <1>2, <1>8, <1>10, <1>12
  <2>5. PICK k2 : k2 = links'
    OBVIOUS
  <2>6. Together(U \union {to}, k2, root)
    <3>1. /\ root \in U /\ at \in U
          /\ \A i \in U : Range(l[i]) \subseteq Range(k2[i])
          /\ to \in U \/ to \in Range(k2[at])
      BY <2>4, <2>5
    <3> HIDE DEF U, root
    <3> QED
      BY ONLY <2>3, <3>1, StillHangsTogether
  <2>7. DOMAIN depth' = U \union {to} /\ root' = root
    BY <1>4, <1>14
  <2>8. root \in U \union {to}
    BY <2>4
  <2> QED
    BY <2>5, <2>6, <2>7, <2>8 DEF TraceIsConnected, HangsTogetherIn, Together
<1>25. TreeRunsOnly'
  <2> SUFFICES ASSUME CallsOnly
               PROVE  DOMAIN depth' \subseteq CanRun
    BY <1>19 DEF TreeRunsOnly
  <2>1. id \in CanRun
    BY <1>1, <1>8 DEF TreeRunsOnly
  <2>2. at \in CanRun
    BY <1>2, <1>20, <2>1, CanRunFacts
  <2>3. to \in CanRun
    BY <1>2, <1>20, <2>2, CanRunFacts
  <2> QED
    BY <1>1, <1>14, <2>2, <2>3 DEF TreeRunsOnly
<1>26. CallsAreSettled'
  <2> DEFINE Kept(x) == \E it \in Range(items') : tree.edge[it.node] = x
             Set(x) == /\ Edge(x)[1] \in DOMAIN depth' /\ Edge(x)[2] \in DOMAIN depth'
                       /\ Edge(x)[1] # Edge(x)[2]
                            => Edge(x)[2] \in Range(links'[Edge(x)[1]])
  <2> SUFFICES ASSUME ~cut', Covers
               PROVE  /\ \A f \in DOMAIN depth' : \A x \in DOMAIN program.edges :
                           Edge(x)[1] \in {f} \union Implementers(f) => Set(x) \/ Kept(x)
                      /\ \A f \in DOMAIN depth' : \A m \in Implementers(f) :
                           \E x \in DOMAIN program.edges : Edge(x)[1] = m
                      /\ \A m \in TreeNodes(tree) :
                           tree.key[m] # 0 /\ tree.key[m] \in taken' /\ tree.edge[m] # 0
                             => Set(tree.edge[m])
    BY <1>4, <1>19 DEF CallsAreSettled, Settled, Queued, Opened, TreeNodes
  <2>1. ~cut /\ items' = QueueWith(n, to, k) /\ CallsOnly
    BY <1>18 DEF Covers
  <2>2. /\ \A f \in DOMAIN depth : \A x \in DOMAIN program.edges :
             Edge(x)[1] \in {f} \union Implementers(f) => Settled(x) \/ Queued(x)
        /\ \A f \in DOMAIN depth : \A m \in Implementers(f) :
             \E x \in DOMAIN program.edges : Edge(x)[1] = m
        /\ \A m \in TreeNodes(tree) :
             Opened(m) /\ tree.edge[m] # 0 => Settled(tree.edge[m])
    BY <1>1, <2>1 DEF CallsAreSettled
  <2>3. ASSUME NEW x \in DOMAIN program.edges, Settled(x)
        PROVE  Set(x)
    <3>1. Edge(x)[1] \in Traced
      BY <1>2, <2>3, ProgramFacts
    <3> QED
      BY <1>11, <1>12, <1>14, <2>3, <3>1 DEF Settled
  <2>4. Set(e)
    <3>1. CASE Hops(n, id)
      BY <1>9, <1>10, <1>12, <1>14, <3>1
    <3>2. CASE ~Hops(n, id)
      BY <1>9, <1>10, <1>12, <1>14, <3>2
    <3> QED
      BY <3>1, <3>2
  <2>5. ASSUME NEW x \in DOMAIN program.edges, Queued(x)
        PROVE  Set(x) \/ Kept(x)
    <3>1. PICK it \in Range(items) : tree.edge[it.node] = x
      BY <2>5 DEF Queued
    <3>2. CASE it = Item
      BY <1>4, <2>4, <3>1, <3>2 DEF e
    <3>3. CASE it # Item
      BY <1>16, <2>1, <3>1, <3>3
    <3> QED
      BY <3>2, <3>3
  (* The children of the node are the calls of what it calls. *)
  <2>6. /\ \A x \in DOMAIN program.edges :
             Edge(x)[1] \in {to} \union Implementers(to) => Kept(x)
        /\ \A m \in Implementers(to) : \E x \in DOMAIN program.edges : Edge(x)[1] = m
    <3>1. n \in {0} \union {m \in TreeNodes(tree) : tree.edge[m] # 0}
      BY <1>3
    <3>2. \A x \in DOMAIN program.edges :
            Edge(x)[1] \in {to} \union Implementers(to)
              => \E i \in DOMAIN tree.kids[n] : tree.edge[tree.kids[n][i]] = x
      BY <1>17, <3>1 DEF Covers
    <3>3. \A m \in Implementers(to) : \E x \in DOMAIN program.edges : Edge(x)[1] = m
      BY <1>17, <3>1 DEF Covers
    <3> QED
      BY <1>16, <2>1, <3>2, <3>3
  <2>7. ASSUME NEW f \in DOMAIN depth'
        PROVE  /\ \A x \in DOMAIN program.edges :
                    Edge(x)[1] \in {f} \union Implementers(f) => Set(x) \/ Kept(x)
               /\ \A m \in Implementers(f) :
                    \E x \in DOMAIN program.edges : Edge(x)[1] = m
    <3> HIDE DEF Set, Kept
    <3>1. CASE f \in DOMAIN depth
      BY <2>2, <2>3, <2>5, <3>1
    <3>2. CASE f = to
      BY <2>6, <3>2
    (* An implementation, whose calls are those of the method it is of. *)
    <3>3. CASE f = at /\ f \notin DOMAIN depth
      <4>1. Hops(n, id) /\ at = From(n)
        BY <1>8, <1>10, <3>3
      <4>2. at \in Implementers(id) /\ Implementers(at) = {}
        BY <1>9, <1>10, <1>20, <2>1, <4>1 DEF Implementers
      <4> QED
        BY <1>8, <2>2, <2>3, <2>5, <3>3, <4>2
    <3> QED
      BY <1>14, <3>1, <3>2, <3>3
  <2>8. ASSUME NEW m \in TreeNodes(tree), tree.key[m] # 0, tree.key[m] \in taken',
               tree.edge[m] # 0
        PROVE  Set(tree.edge[m])
    <3>1. tree.edge[m] \in DOMAIN program.edges
      BY <1>2, <2>8, TrackerTreeFacts
    <3>2. CASE tree.key[m] \in taken
      <4>1. Settled(tree.edge[m])
        BY <2>2, <2>8, <3>2 DEF Opened
      <4> HIDE DEF Set
      <4> QED
        BY <2>3, <3>1, <4>1
    <3>3. CASE tree.key[m] = tree.key[n]
      <4>1. tree.edge[m] = e
        BY <1>3, <2>8, <3>3 DEF Covers, e
      <4> HIDE DEF Set
      <4> QED
        BY <2>4, <4>1
    <3> QED
      BY <1>4, <2>8, <3>2, <3>3
  <2> HIDE DEF Set, Kept
  <2> QED
    BY <2>7, <2>8
<1> QED
  BY <1>21, <1>22, <1>23, <1>24, <1>25, <1>26 DEF TrackerInv

(* What the walk over the tracker tree keeps holds in every state of it.   *)
THEOREM TrackerCorrect == TrackerSpec => []TrackerInv
<1>1. ASSUME TrackerInv, UNCHANGED trackerVars
      PROVE  TrackerInv'
  <2>1. /\ UNCHANGED <<program, bounds, links, depth, cut, items, taken>>
    BY <1>1 DEF trackerVars, traceVars
  <2>2. TrackerTypeOK /\ ItemsAreCalls /\ cut \in BOOLEAN
    BY <1>1 DEF TrackerInv, TrackerTypeOK, TraceTypeOK
  <2> QED
    BY <1>1, <2>1, <2>2, TraceStays DEF TrackerTypeOK, ItemsAreCalls, Queued
<1>2. TrackerInv /\ [TrackerNext]_trackerVars => TrackerInv'
  BY <1>1, DropDeepKeeps, SkipOpenedKeeps, OpenWrapperKeeps, SkipBuiltinKeeps,
     FollowEdgeKeeps DEF TrackerNext
<1> QED
  BY <1>2, TrackerInitial, PTL DEF TrackerSpec

(* In a tree of calls every link is a call or an implementation.           *)
THEOREM TrackerLinksAreReal == TrackerSpec => []TreeLinksAreReal
<1>1. TrackerInv => TreeLinksAreReal
  BY DEF TrackerInv
<1> QED
  BY <1>1, TrackerCorrect, PTL

(* Whatever the tree, what the trace has hangs together.                   *)
THEOREM TrackerIsConnected == TrackerSpec => []TraceIsConnected
<1>1. TrackerInv => TraceIsConnected
  BY DEF TrackerInv
<1> QED
  BY <1>1, TrackerCorrect, PTL

(* From a tree that has all calls the trace has all the handler can run.   *)
THEOREM TrackerIsComplete == TrackerSpec => []TreeTraceIsComplete
<1>1. ASSUME TrackerInv, WalkedTree, ~cut, Covers
      PROVE  /\ DOMAIN depth = CanRun
             /\ \A m \in DOMAIN depth : \A n \in Traced :
                  Calls(m, n) /\ n # m => n \in Range(links[m])
  <2>1. /\ program \in Programs /\ program.root \in DOMAIN depth
        /\ DOMAIN depth \subseteq Traced
    BY <1>1 DEF TrackerInv, TrackerTypeOK, TraceTypeOK
  <2>2. DOMAIN depth \subseteq CanRun
    BY <1>1 DEF TrackerInv, TreeRunsOnly, Covers
  <2>3. Range(items) = {}
    BY <1>1 DEF WalkedTree, Range
  <2>4. \A f \in DOMAIN depth : \A e \in DOMAIN program.edges :
          Edge(e)[1] \in {f} \union Implementers(f) => Settled(e)
    BY <1>1, <2>3 DEF TrackerInv, CallsAreSettled, Queued
  <2>5. \A f \in DOMAIN depth : \A m \in Implementers(f) :
          \E e \in DOMAIN program.edges : Edge(e)[1] = m
    BY <1>1 DEF TrackerInv, CallsAreSettled
  <2>6. ASSUME NEW m \in DOMAIN depth, NEW n, Calls(m, n)
        PROVE  n \in DOMAIN depth /\ (n # m => n \in Range(links[m]))
    <3>1. PICK e \in DOMAIN program.edges : Edge(e) = <<m, n>>
      BY <2>6 DEF Calls
    <3>2. Settled(e) /\ Edge(e)[1] = m /\ Edge(e)[2] = n
      BY <2>4, <3>1
    <3> QED
      BY <3>2 DEF Settled
  <2>7. ASSUME NEW m \in DOMAIN depth, NEW n \in Implementers(m)
        PROVE  n \in DOMAIN depth
    <3>1. PICK e \in DOMAIN program.edges : Edge(e)[1] = n
      BY <2>5
    <3>2. Settled(e)
      BY <2>4, <3>1
    <3> QED
      BY <3>1, <3>2 DEF Settled
  <2>8. CanRun \subseteq DOMAIN depth
    BY <2>1, <2>6, <2>7 DEF CanRun, Leads
  <2> QED
    BY <2>2, <2>6, <2>8
<1>2. TrackerInv => TreeTraceIsComplete
  BY <1>1 DEF TreeTraceIsComplete
<1> QED
  BY <1>2, TrackerCorrect, PTL

(* TrackerTrace!TrackerTraceIsRight for any program, tree and limits.      *)
THEOREM TrackerTraceRight == TrackerSpec => []TrackerTraceIsRight
  BY TrackerLinksAreReal, TrackerIsComplete, TrackerIsConnected, PTL
     DEF TrackerTraceIsRight

-----------------------------------------------------------------------------
(* TracePaths: what the list of call paths has.                            *)

Descent == [fn : Linked, todo : Seq(Linked)]

(* A way over links from the handler, through no function twice.           *)
IsWay(p) ==
  /\ p \in Seq(Linked) /\ p # <<>> /\ p[1] = handler
  /\ IsInjective(p)
  /\ \A i \in 1..(Len(p) - 1) : p[i + 1] \in Range(adj[p[i]])

Begins(q, p) == Len(p) <= Len(q) /\ \A j \in 1..Len(p) : q[j] = p[j]

(* q starts like the first i of calls and then turns to what the last of   *)
(* them has still to do.                                                   *)
TurnsAt(q, calls, i) ==
  /\ i < Len(q)
  /\ \A j \in 1..i : q[j] = calls[j].fn
  /\ q[i + 1] \in Range(calls[i].todo)

TodosAreOpen(calls) ==
  \A i \in DOMAIN calls :
    /\ IsInjective(calls[i].todo)
    /\ \A k \in Range(calls[i].todo) :
         /\ k \in Range(adj[calls[i].fn])
         /\ \A j \in 1..i : k # calls[j].fn
         /\ i < Len(calls) => k # calls[i + 1].fn

NoneAhead(calls, out) ==
  \A q \in Range(out) : \A i \in DOMAIN calls : ~TurnsAt(q, calls, i)

RestAhead(calls, out) ==
  \A q \in CallPaths(handler) :
    q \in Range(out) \/ \E i \in DOMAIN calls : TurnsAt(q, calls, i)

ListTypeOK ==
  /\ adj \in LinkGraphs /\ handler \in Handlers /\ caps \in PathLimits
  /\ descents \in Seq(Descent)
  /\ listed \in Seq(Seq(Linked))

ListInv ==
  /\ ListTypeOK
  /\ descents # <<>> => IsWay(Fns(descents))
  /\ TodosAreOpen(descents)
  /\ IsInjective(listed)
  /\ \A i \in DOMAIN listed : IsCallPath(listed[i], handler)
  /\ NoneAhead(descents, listed)
  /\ Len(listed) <= caps.list
  /\ (descents # <<>> \/ listed # <<>>) /\ ~Full => RestAhead(descents, listed)

LEMMA LinkGraphFacts ==
  ASSUME adj \in LinkGraphs, NEW n \in Linked
  PROVE  /\ adj[n] \in Seq(Linked) /\ IsInjective(adj[n])
         /\ Range(adj[n]) \subseteq Linked /\ n \notin Range(adj[n])
         /\ Len(adj[n]) \in Nat /\ DOMAIN adj[n] = 1..Len(adj[n])
<1>1. /\ adj[n] \in Seq(Linked) /\ IsInjective(adj[n])
      /\ n \notin Range(adj[n])
  BY LinkGraphsAssumption
<1>2. PICK s \in Seq(Linked) : s = adj[n]
  BY <1>1
<1>3. /\ Len(s) \in Nat /\ DOMAIN s = 1..Len(s)
      /\ \A i \in 1..Len(s) : s[i] \in Linked
  BY LenProperties, ElementOfSeq
<1>4. Range(s) \subseteq Linked
  BY <1>3 DEF Range
<1> QED
  BY <1>1, <1>2, <1>3, <1>4

LEMMA UnvisitedFacts ==
  ASSUME adj \in LinkGraphs, NEW n \in Linked, NEW path
  PROVE  /\ Unvisited(n, path) \in Seq(Linked)
         /\ IsInjective(Unvisited(n, path))
         /\ \A k : k \in Range(Unvisited(n, path)) <=> k \in Range(adj[n]) /\ k \notin Range(path)
<1> DEFINE S == {i \in DOMAIN adj[n] : adj[n][i] \notin Range(path)}
           places == InOrder(S)
           u == [i \in DOMAIN places |-> adj[n][places[i]]]
<1>1. Unvisited(n, path) = u
  BY DEF Unvisited
<1>2. PICK m \in Nat : DOMAIN adj[n] = 1..m
  BY LinkGraphFacts
<1>3. S \in SUBSET (1..m)
  BY <1>2
<1>4. \A i \in S : i \in DOMAIN adj[n] /\ adj[n][i] \notin Range(path)
  OBVIOUS
<1>5. \A i \in DOMAIN adj[n] : adj[n][i] \notin Range(path) => i \in S
  OBVIOUS
<1> HIDE DEF S
<1>6. /\ S \subseteq Nat /\ Range(places) = S
      /\ DOMAIN places = 1..Len(places) /\ Len(places) \in Nat
      /\ \A k \in DOMAIN places : places[k] \in S
  <2>1. S \subseteq Nat
    BY <1>3
  <2> QED
    BY <1>3, <2>1, ListsItsSet
<1>7. \A k \in DOMAIN places : \A j \in 1..(k - 1) : places[j] < places[k]
  <2>1. IsFiniteSet(S)
    <3>1. IsFiniteSet(1..m)
      BY FS_Interval
    <3> QED
      BY <1>3, <3>1, FS_Subset
  <2> QED
    BY <1>6, <2>1, InOrderFacts
<1> HIDE DEF places
<1>8. PICK l \in Nat : DOMAIN places = 1..l
  BY <1>6
<1>9. /\ DOMAIN u = 1..l
      /\ \A i \in 1..l : u[i] = adj[n][places[i]] /\ places[i] \in S
  BY <1>6, <1>8
<1>10. Range(adj[n]) \subseteq Linked /\ IsInjective(adj[n])
  BY LinkGraphFacts
<1>11. \A i \in 1..l : u[i] \in Linked
  BY <1>4, <1>9, <1>10 DEF Range
<1>12. u \in Seq(Linked)
  <2>1. u \in [1..l -> Linked]
    BY <1>8, <1>9, <1>11
  <2> HIDE DEF u
  <2> QED
    BY <2>1, SeqDef
<1>13. IsInjective(u)
  <2> SUFFICES ASSUME NEW i \in 1..l, NEW j \in 1..l, i # j
               PROVE  u[i] # u[j]
    BY <1>9 DEF IsInjective
  <2>1. places[i] # places[j]
    <3>1. places[i] \in Nat /\ places[j] \in Nat
      BY <1>6, <1>9
    <3>2. CASE i < j
      <4>1. i \in 1..(j - 1)
        BY <3>2
      <4> QED
        BY <1>7, <1>8, <3>1, <4>1
    <3>3. CASE j < i
      <4>1. j \in 1..(i - 1)
        BY <3>3
      <4> QED
        BY <1>7, <1>8, <3>1, <4>1
    <3> QED
      BY <3>2, <3>3
  <2> QED
    BY <1>4, <1>9, <1>10, <2>1 DEF IsInjective
<1>14. ASSUME NEW k \in Range(u)
       PROVE  k \in Range(adj[n]) /\ k \notin Range(path)
  <2>1. PICK i \in 1..l : k = u[i]
    BY <1>9, <1>14 DEF Range
  <2> QED
    BY <1>4, <1>9, <2>1 DEF Range
<1>15. ASSUME NEW k \in Range(adj[n]), k \notin Range(path)
       PROVE  k \in Range(u)
  <2>1. PICK i \in DOMAIN adj[n] : adj[n][i] = k
    BY <1>15 DEF Range
  <2>2. i \in S
    BY <1>5, <1>15, <2>1
  <2>3. PICK j \in 1..l : places[j] = i
    BY <1>6, <1>8, <2>2 DEF Range
  <2>4. u[j] = k
    BY <1>9, <2>1, <2>3
  <2> QED
    BY <1>9, <2>4 DEF Range
<1> HIDE DEF u
<1> QED
  BY <1>1, <1>12, <1>13, <1>14, <1>15

LEMMA FnsFacts ==
  ASSUME NEW calls \in Seq(Descent)
  PROVE  /\ Len(calls) \in Nat /\ DOMAIN calls = 1..Len(calls)
         /\ Fns(calls) \in Seq(Linked) /\ Len(Fns(calls)) = Len(calls)
         /\ DOMAIN Fns(calls) = DOMAIN calls
         /\ \A i \in DOMAIN calls :
              /\ Fns(calls)[i] = calls[i].fn
              /\ calls[i].fn \in Linked /\ calls[i].todo \in Seq(Linked)
<1>1. PICK l \in Nat : l = Len(calls)
  BY LenProperties
<1>2. DOMAIN calls = 1..l
  BY <1>1, LenProperties
<1>3. \A i \in 1..l : calls[i] \in Descent
  BY <1>1, ElementOfSeq
<1>4. \A i \in 1..l : calls[i].fn \in Linked /\ calls[i].todo \in Seq(Linked)
  BY <1>3 DEF Descent
<1>5. Fns(calls) = [i \in 1..l |-> calls[i].fn]
  BY <1>2 DEF Fns
<1>6. Fns(calls) \in [1..l -> Linked]
  BY <1>4, <1>5
<1>7. Fns(calls) \in Seq(Linked)
  BY <1>6, SeqDef
<1>8. Len(Fns(calls)) = l
  BY <1>6, <1>7, LenProperties
<1> QED
  BY <1>1, <1>2, <1>4, <1>5, <1>7, <1>8

(* The way on to n. *)
LEMMA OnwardFacts ==
  ASSUME NEW calls \in Seq(Descent), NEW n \in Linked
  PROVE  /\ Append(Fns(calls), n) \in Seq(Linked)
         /\ Len(Append(Fns(calls), n)) = Len(calls) + 1
         /\ DOMAIN Append(Fns(calls), n) = 1..(Len(calls) + 1)
         /\ \A j \in 1..Len(calls) : Append(Fns(calls), n)[j] = calls[j].fn
         /\ Append(Fns(calls), n)[Len(calls) + 1] = n
<1>1. PICK s \in Seq(Linked) : s = Fns(calls)
  BY FnsFacts
<1>2. PICK l \in Nat : l = Len(calls)
  BY FnsFacts
<1>3. /\ Len(s) = l /\ DOMAIN s = 1..l
      /\ \A j \in 1..l : s[j] = calls[j].fn
  BY <1>1, <1>2, FnsFacts
<1>4. /\ Append(s, n) \in Seq(Linked)
      /\ Len(Append(s, n)) = Len(s) + 1
      /\ \A i \in 1..Len(s) : Append(s, n)[i] = s[i]
      /\ Append(s, n)[Len(s) + 1] = n
  BY AppendProperties
<1>5. DOMAIN Append(s, n) = 1..(l + 1)
  BY <1>3, <1>4, LenProperties
<1> QED
  BY <1>1, <1>2, <1>3, <1>4, <1>5

LEMMA CallPathFacts ==
  ASSUME NEW root, NEW q \in CallPaths(root)
  PROVE  /\ q \in Seq(Linked) /\ Len(q) \in Nat /\ DOMAIN q = 1..Len(q) /\ q # <<>>
         /\ IsCallPath(q, root)
<1>1. q \in SeqOf(Linked, Cardinality(Linked)) /\ IsCallPath(q, root)
  BY DEF CallPaths
<1>2. PICK m \in 0..Cardinality(Linked) : q \in [1..m -> Linked]
  BY <1>1, Zenon DEF SeqOf
<1>3. Cardinality(Linked) \in Nat
  BY LinkedAssumption, FS_CardinalityType
<1>4. m \in Nat
  BY <1>2, <1>3
<1>5. q \in Seq(Linked)
  BY <1>2, <1>4, SeqDef
<1> QED
  BY <1>1, <1>5, LenProperties DEF IsCallPath

(* A way is no longer than there are functions.                            *)
LEMMA InjectiveIsShort ==
  ASSUME NEW p \in Seq(Linked), IsInjective(p)
  PROVE  p \in SeqOf(Linked, Cardinality(Linked))
<1>1. PICK m \in Nat : m = Len(p)
  BY LenProperties
<1>2. p \in [1..m -> Linked]
  BY <1>1, LenProperties
<1>3. p \in Injection(1..m, Linked)
  BY <1>2 DEF Injection, IsInjective
<1>4. IsFiniteSet(Linked) /\ Cardinality(Linked) \in Nat
  BY LinkedAssumption, FS_CardinalityType
<1>5. Cardinality(1..m) <= Cardinality(Linked) /\ Cardinality(1..m) = m
  BY <1>3, <1>4, FS_Injection, FS_Interval
<1>6. m \in 0..Cardinality(Linked)
  BY <1>4, <1>5
<1> QED
  BY <1>2, <1>6, Zenon DEF SeqOf

OpensAt(calls, n, out) ==
  /\ adj \in LinkGraphs /\ handler \in Linked
  /\ calls \in Seq(Descent) /\ n \in Linked /\ out \in Seq(Seq(Linked))
  /\ IsWay(Append(Fns(calls), n))
  /\ TodosAreOpen(calls)
  /\ calls # <<>> => n \notin Range(calls[Len(calls)].todo)
  /\ IsInjective(out)
  /\ \A i \in DOMAIN out : IsCallPath(out[i], handler)
  /\ NoneAhead(calls, out)
  /\ \A q \in Range(out) : ~Begins(q, Append(Fns(calls), n))

AllAhead(calls, n, out) ==
  \A q \in CallPaths(handler) :
    \/ q \in Range(out)
    \/ \E i \in DOMAIN calls : TurnsAt(q, calls, i)
    \/ Begins(q, Append(Fns(calls), n))

(* A way with nothing to go on to is a call path, and a new one.           *)
LEMMA LeafFacts ==
  ASSUME NEW calls, NEW n, NEW out, OpensAt(calls, n, out),
         Unvisited(n, Fns(calls)) = <<>>,
         NEW more, more = Append(out, Append(Fns(calls), n))
  PROVE  /\ more \in Seq(Seq(Linked)) /\ Len(more) = Len(out) + 1 /\ more # <<>>
         /\ IsInjective(more)
         /\ \A i \in DOMAIN more : IsCallPath(more[i], handler)
         /\ NoneAhead(calls, more)
         /\ AllAhead(calls, n, out) => RestAhead(calls, more)
<1>1. PICK p : p = Append(Fns(calls), n)
  OBVIOUS
<1>2. /\ adj \in LinkGraphs /\ calls \in Seq(Descent) /\ n \in Linked
      /\ out \in Seq(Seq(Linked)) /\ IsWay(p) /\ TodosAreOpen(calls)
      /\ calls # <<>> => n \notin Range(calls[Len(calls)].todo)
      /\ IsInjective(out)
      /\ \A i \in DOMAIN out : IsCallPath(out[i], handler)
      /\ NoneAhead(calls, out)
      /\ \A q \in Range(out) : ~Begins(q, p)
  BY <1>1 DEF OpensAt
<1>3. PICK l \in Nat : l = Len(calls)
  BY <1>2, FnsFacts
<1>4. /\ p \in Seq(Linked) /\ Len(p) = l + 1 /\ DOMAIN p = 1..(l + 1)
      /\ \A j \in 1..l : p[j] = calls[j].fn
      /\ p[l + 1] = n
  <2>1. calls \in Seq(Descent) /\ n \in Linked
    BY <1>2
  <2>2. /\ Append(Fns(calls), n) \in Seq(Linked)
        /\ Len(Append(Fns(calls), n)) = Len(calls) + 1
        /\ DOMAIN Append(Fns(calls), n) = 1..(Len(calls) + 1)
        /\ \A j \in 1..Len(calls) : Append(Fns(calls), n)[j] = calls[j].fn
        /\ Append(Fns(calls), n)[Len(calls) + 1] = n
    BY ONLY <2>1, OnwardFacts
  <2> QED
    BY <1>1, <1>3, <2>2
<1>5. DOMAIN calls = 1..l /\ Range(Fns(calls)) = {calls[j].fn : j \in 1..l}
  <2>1. DOMAIN calls = 1..l /\ DOMAIN Fns(calls) = 1..l
        /\ \A j \in 1..l : Fns(calls)[j] = calls[j].fn
    BY <1>2, <1>3, FnsFacts
  <2> QED
    BY <2>1 DEF Range
<1>6. \A k \in Range(adj[n]) : \E j \in 1..l : k = p[j]
  <2>1. \A k : k \in Range(<<>>) <=> k \in Range(adj[n]) /\ k \notin Range(Fns(calls))
    BY <1>2, UnvisitedFacts
  <2>2. \A k : k \notin Range(<<>>)
    BY DEF Range
  <2> QED
    BY <1>4, <1>5, <2>1, <2>2
<1>7. /\ IsInjective(p) /\ p # <<>> /\ p[1] = handler
      /\ \A i \in 1..(Len(p) - 1) : p[i + 1] \in Range(adj[p[i]])
  BY <1>2 DEF IsWay
<1>8. IsCallPath(p, handler)
  <2>1. Last(p) = n
    BY <1>4 DEF Last
  <2>2. \A j \in 1..l : j \in DOMAIN p
    BY <1>4
  <2>3. Range(adj[n]) \subseteq Range(p)
    BY <1>6, <2>2 DEF Range
  <2> QED
    BY <1>7, <2>1, <2>3 DEF IsCallPath
<1>9. p \notin Range(out)
  <2>1. Begins(p, p)
    BY <1>4 DEF Begins
  <2> QED
    BY <1>2, <2>1
<1>10. /\ more \in Seq(Seq(Linked)) /\ Range(more) = Range(out) \union {p}
       /\ IsInjective(more)
  <2>1. /\ out \in Seq(Seq(Linked)) /\ p \in Seq(Linked) /\ more = Append(out, p)
        /\ IsInjective(out) /\ p \notin Range(out)
    BY <1>1, <1>2, <1>4, <1>9
  <2>2. /\ Append(out, p) \in Seq(Seq(Linked))
        /\ Range(Append(out, p)) = Range(out) \union {p}
        /\ IsInjective(out) /\ p \notin Range(out) => IsInjective(Append(out, p))
    BY ONLY <2>1, AppendedFacts
  <2> QED
    BY <2>1, <2>2
<1>11. /\ Len(more) = Len(out) + 1 /\ more # <<>>
       /\ \A i \in DOMAIN more : IsCallPath(more[i], handler)
  <2>1. PICK m \in Nat : m = Len(out)
    BY <1>2, LenProperties
  <2>2. /\ Len(more) = m + 1
        /\ \A i \in 1..m : more[i] = out[i]
        /\ more[m + 1] = p
    BY <1>1, <1>2, <1>4, <2>1, AppendProperties
  <2>3. DOMAIN more = 1..(m + 1) /\ DOMAIN out = 1..m
    BY <1>2, <1>10, <2>1, <2>2, LenProperties
  <2>4. \A i \in 1..(m + 1) : i \in 1..m \/ i = m + 1
    OBVIOUS
  <2>5. \A i \in DOMAIN more : IsCallPath(more[i], handler)
    BY <1>2, <1>8, <2>2, <2>3, <2>4
  <2>6. m + 1 # 0 /\ Len(<<>>) = 0
    BY EmptySeq
  <2> QED
    BY <2>1, <2>2, <2>5, <2>6
<1>12. NoneAhead(calls, more)
  <2> SUFFICES ASSUME NEW i \in 1..l, TurnsAt(p, calls, i)
               PROVE  FALSE
    BY <1>2, <1>5, <1>10 DEF NoneAhead
  <2>1. p[i + 1] \in Range(calls[i].todo)
    BY DEF TurnsAt
  <2>2. CASE i = l
    <3>1. calls # <<>>
      BY <1>3, <2>2, EmptySeq
    <3> QED
      BY <1>2, <1>3, <1>4, <2>1, <2>2, <3>1
  <2>3. CASE i # l
    <3>1. i + 1 \in 1..l /\ i < l
      BY <2>3
    <3>2. p[i + 1] # calls[i + 1].fn
      BY <1>2, <1>3, <1>5, <2>1, <3>1 DEF TodosAreOpen
    <3> QED
      BY <1>4, <3>1, <3>2
  <2> QED
    BY <2>2, <2>3
<1>13. ASSUME AllAhead(calls, n, out)
       PROVE  RestAhead(calls, more)
  <2> SUFFICES ASSUME NEW q \in CallPaths(handler), Begins(q, p)
               PROVE  q = p
    BY <1>1, <1>10, <1>13 DEF AllAhead, RestAhead
  <2>1. /\ q \in Seq(Linked) /\ Len(q) \in Nat /\ DOMAIN q = 1..Len(q)
        /\ IsCallPath(q, handler)
    BY <1>2, CallPathFacts
  <2>2. PICK m \in Nat : m = Len(q)
    BY <2>1
  <2>3. l + 1 <= m /\ \A j \in 1..(l + 1) : q[j] = p[j]
    BY <1>4, <2>2 DEF Begins
  <2>4. /\ IsInjective(q) /\ \A i \in 1..(m - 1) : q[i + 1] \in Range(adj[q[i]])
    BY <2>1, <2>2 DEF IsCallPath
  <2>5. ~(l + 1 < m)
    <3> SUFFICES ASSUME l + 1 < m
                 PROVE  FALSE
      OBVIOUS
    <3>1. l + 1 \in 1..(m - 1) /\ l + 1 \in 1..(l + 1) /\ (l + 1) + 1 \in 1..m
      OBVIOUS
    <3>2. q[(l + 1) + 1] \in Range(adj[n])
      BY <1>4, <2>3, <2>4, <3>1
    <3>3. PICK j \in 1..l : q[(l + 1) + 1] = p[j]
      BY <1>6, <3>2
    <3>4. j \in 1..(l + 1) /\ j \in 1..m /\ j # (l + 1) + 1
      BY <3>1
    <3>5. q[(l + 1) + 1] = q[j]
      BY <2>3, <3>3, <3>4
    <3> QED
      BY <2>1, <2>2, <2>4, <3>1, <3>4, <3>5 DEF IsInjective
  <2>6. m = l + 1
    BY <2>3, <2>5
  <2> QED
    BY <1>4, <2>1, <2>2, <2>3, <2>6, SeqEqual
<1> QED
  BY <1>10, <1>11, <1>12, <1>13

(* Otherwise the way is walked on.                                         *)
LEMMA BranchFacts ==
  ASSUME NEW calls, NEW n, NEW out, OpensAt(calls, n, out),
         NEW u, u = Unvisited(n, Fns(calls)), u # <<>>,
         NEW below, below = Append(calls, [fn |-> n, todo |-> u])
  PROVE  /\ below \in Seq(Descent) /\ below # <<>>
         /\ IsWay(Fns(below))
         /\ TodosAreOpen(below)
         /\ NoneAhead(below, out)
         /\ AllAhead(calls, n, out) => RestAhead(below, out)
<1>1. PICK p : p = Append(Fns(calls), n)
  OBVIOUS
<1>2. /\ adj \in LinkGraphs /\ calls \in Seq(Descent) /\ n \in Linked
      /\ out \in Seq(Seq(Linked)) /\ IsWay(p) /\ TodosAreOpen(calls)
      /\ calls # <<>> => n \notin Range(calls[Len(calls)].todo)
      /\ NoneAhead(calls, out)
      /\ \A q \in Range(out) : ~Begins(q, p)
  BY <1>1 DEF OpensAt
<1>3. PICK l \in Nat : l = Len(calls)
  BY <1>2, FnsFacts
<1>4. /\ p \in Seq(Linked) /\ Len(p) = l + 1 /\ DOMAIN p = 1..(l + 1)
      /\ \A j \in 1..l : p[j] = calls[j].fn
      /\ p[l + 1] = n
  <2>1. calls \in Seq(Descent) /\ n \in Linked
    BY <1>2
  <2>2. /\ Append(Fns(calls), n) \in Seq(Linked)
        /\ Len(Append(Fns(calls), n)) = Len(calls) + 1
        /\ DOMAIN Append(Fns(calls), n) = 1..(Len(calls) + 1)
        /\ \A j \in 1..Len(calls) : Append(Fns(calls), n)[j] = calls[j].fn
        /\ Append(Fns(calls), n)[Len(calls) + 1] = n
    BY ONLY <2>1, OnwardFacts
  <2> QED
    BY <1>1, <1>3, <2>2
<1>5. DOMAIN calls = 1..l /\ Range(Fns(calls)) = {calls[j].fn : j \in 1..l}
  <2>1. DOMAIN calls = 1..l /\ DOMAIN Fns(calls) = 1..l
        /\ \A j \in 1..l : Fns(calls)[j] = calls[j].fn
    BY <1>2, <1>3, FnsFacts
  <2> QED
    BY <2>1 DEF Range
<1>6. /\ u \in Seq(Linked) /\ IsInjective(u)
      /\ \A k : k \in Range(u) <=> k \in Range(adj[n]) /\ \A j \in 1..l : k # calls[j].fn
  <2>1. /\ u \in Seq(Linked) /\ IsInjective(u)
        /\ \A k : k \in Range(u) <=> k \in Range(adj[n]) /\ k \notin Range(Fns(calls))
    BY <1>2, UnvisitedFacts
  <2> QED
    BY <1>5, <2>1
<1>7. PICK f \in Descent : f = [fn |-> n, todo |-> u] /\ f.fn = n /\ f.todo = u
  <2>1. [fn |-> n, todo |-> u] \in Descent
    BY <1>2, <1>6 DEF Descent
  <2> QED
    BY <2>1
<1>8. /\ below \in Seq(Descent) /\ Len(below) = l + 1 /\ DOMAIN below = 1..(l + 1)
      /\ \A i \in 1..l : below[i] = calls[i]
      /\ below[l + 1].fn = n /\ below[l + 1].todo = u
  <2>1. below = Append(calls, f)
    BY <1>7
  <2>2. /\ below \in Seq(Descent) /\ Len(below) = l + 1
        /\ \A i \in 1..l : below[i] = calls[i]
        /\ below[l + 1] = f
    BY <1>2, <1>3, <2>1, AppendProperties
  <2>3. DOMAIN below = 1..(l + 1)
    BY <2>2, LenProperties
  <2> QED
    BY <1>7, <2>2, <2>3
<1>9. below # <<>>
  <2>1. l + 1 # 0
    OBVIOUS
  <2> QED
    BY <1>8, <2>1, EmptySeq
<1>10. IsWay(Fns(below))
  <2>1. /\ Fns(below) \in Seq(Linked) /\ Len(Fns(below)) = l + 1
        /\ \A i \in 1..(l + 1) : Fns(below)[i] = below[i].fn
    BY <1>8, FnsFacts
  <2>2. \A i \in 1..(l + 1) : Fns(below)[i] = p[i]
    <3> TAKE i \in 1..(l + 1)
    <3>1. i \in 1..l \/ i = l + 1
      OBVIOUS
    <3> QED
      BY <1>4, <1>8, <2>1, <3>1
  <2>3. Fns(below) = p
    BY <1>4, <2>1, <2>2, SeqEqual
  <2> QED
    BY <1>2, <2>3
<1>11. TodosAreOpen(below)
  <2> SUFFICES ASSUME NEW i \in 1..(l + 1)
               PROVE  /\ IsInjective(below[i].todo)
                      /\ \A k \in Range(below[i].todo) :
                           /\ k \in Range(adj[below[i].fn])
                           /\ \A j \in 1..i : k # below[j].fn
                           /\ i < l + 1 => k # below[i + 1].fn
    BY <1>8 DEF TodosAreOpen
  <2>1. CASE i = l + 1
    <3>1. \A k \in Range(u) : k # n
      BY <1>2, <1>6, LinkGraphFacts
    <3>2. \A j \in 1..i : j \in 1..l \/ j = l + 1
      BY <2>1
    <3> QED
      BY <1>6, <1>8, <2>1, <3>1, <3>2
  <2>2. CASE i \in 1..l
    <3>1. /\ IsInjective(calls[i].todo)
          /\ \A k \in Range(calls[i].todo) :
               /\ k \in Range(adj[calls[i].fn])
               /\ \A j \in 1..i : k # calls[j].fn
               /\ i < l => k # calls[i + 1].fn
      BY <1>2, <1>3, <1>5, <2>2 DEF TodosAreOpen
    <3>2. \A j \in 1..i : j \in 1..l
      BY <2>2
    <3>3. \A k \in Range(calls[i].todo) : k # below[i + 1].fn
      <4>1. CASE i = l
        <5>1. calls # <<>>
          BY <1>3, <2>2, <4>1, EmptySeq
        <5> QED
          BY <1>2, <1>3, <1>8, <4>1, <5>1
      <4>2. CASE i # l
        <5>1. i < l /\ i + 1 \in 1..l
          BY <2>2, <4>2
        <5> QED
          BY <1>8, <3>1, <5>1
      <4> QED
        BY <4>1, <4>2
    <3> QED
      BY <1>8, <2>2, <3>1, <3>2, <3>3
  <2>3. i \in 1..l \/ i = l + 1
    OBVIOUS
  <2> QED
    BY <2>1, <2>2, <2>3
<1>12. \A q : \A i \in 1..l : TurnsAt(q, below, i) <=> TurnsAt(q, calls, i)
  <2> TAKE q
  <2> TAKE i \in 1..l
  <2>1. \A j \in 1..i : j \in 1..l
    OBVIOUS
  <2> QED
    BY <1>8, <2>1 DEF TurnsAt
<1>13. NoneAhead(below, out)
  <2> SUFFICES ASSUME NEW q \in Range(out), NEW i \in 1..(l + 1), TurnsAt(q, below, i)
               PROVE  FALSE
    BY <1>8 DEF NoneAhead
  <2>1. CASE i \in 1..l
    BY <1>2, <1>5, <1>12, <2>1 DEF NoneAhead
  <2>2. CASE i = l + 1
    <3>1. l + 1 < Len(q) /\ \A j \in 1..(l + 1) : q[j] = below[j].fn
      BY <2>2 DEF TurnsAt
    <3>2. \A j \in 1..(l + 1) : q[j] = p[j]
      <4> TAKE j \in 1..(l + 1)
      <4>1. j \in 1..l \/ j = l + 1
        OBVIOUS
      <4> QED
        BY <1>4, <1>8, <3>1, <4>1
    <3>3. Len(q) \in Nat
      <4>1. q \in Seq(Linked)
        <5>1. PICK j \in DOMAIN out : q = out[j]
          BY DEF Range
        <5> QED
          BY <1>2, <5>1, LenProperties, ElementOfSeq
      <4> QED
        BY <4>1, LenProperties
    <3>4. l + 1 <= Len(q)
      BY <3>1, <3>3
    <3> QED
      BY <1>2, <1>4, <3>2, <3>4 DEF Begins
  <2>3. i \in 1..l \/ i = l + 1
    OBVIOUS
  <2> QED
    BY <2>1, <2>2, <2>3
<1>14. ASSUME AllAhead(calls, n, out)
       PROVE  RestAhead(below, out)
  <2> SUFFICES ASSUME NEW q \in CallPaths(handler)
               PROVE  q \in Range(out) \/ \E i \in 1..(l + 1) : TurnsAt(q, below, i)
    BY <1>8 DEF RestAhead
  <2>1. \A i \in 1..l : i \in 1..(l + 1)
    OBVIOUS
  <2>2. CASE \E i \in DOMAIN calls : TurnsAt(q, calls, i)
    BY <1>5, <1>12, <2>1, <2>2
  <2>3. CASE Begins(q, p)
    <3>1. /\ q \in Seq(Linked) /\ Len(q) \in Nat /\ DOMAIN q = 1..Len(q)
          /\ IsCallPath(q, handler)
      BY <1>2, CallPathFacts
    <3>2. PICK m \in Nat : m = Len(q)
      BY <3>1
    <3>3. l + 1 <= m /\ \A j \in 1..(l + 1) : q[j] = p[j]
      BY <1>4, <2>3, <3>2 DEF Begins
    <3>4. /\ IsInjective(q) /\ \A i \in 1..(m - 1) : q[i + 1] \in Range(adj[q[i]])
          /\ Range(adj[q[m]]) \subseteq Range(q)
      BY <3>1, <3>2 DEF IsCallPath, Last
    <3>5. q[l + 1] = n /\ \A j \in 1..l : q[j] = calls[j].fn
      <4>1. l + 1 \in 1..(l + 1) /\ \A j \in 1..l : j \in 1..(l + 1)
        OBVIOUS
      <4> QED
        BY <1>4, <3>3, <4>1
    <3>6. m # l + 1
      <4> SUFFICES ASSUME m = l + 1
                   PROVE  FALSE
        OBVIOUS
      <4>1. PICK k : k \in Range(u)
        <5>1. PICK j \in Nat : j = Len(u)
          BY <1>6, LenProperties
        <5>2. j # 0 /\ DOMAIN u = 1..j
          BY <1>6, <5>1, EmptySeq, LenProperties
        <5>3. 1 \in 1..j
          BY <5>2
        <5> QED
          BY <5>2, <5>3 DEF Range
      <4>2. k \in Range(adj[n]) /\ k # n /\ \A j \in 1..l : k # calls[j].fn
        BY <1>2, <1>6, <4>1, LinkGraphFacts
      <4>3. PICK j \in 1..(l + 1) : k = q[j]
        <5>1. Range(adj[n]) \subseteq Range(q)
          BY <3>4, <3>5
        <5>2. DOMAIN q = 1..(l + 1)
          BY <3>1, <3>2
        <5> QED
          BY <4>2, <5>1, <5>2 DEF Range
      <4>4. j \in 1..l \/ j = l + 1
        OBVIOUS
      <4> QED
        BY <3>5, <4>2, <4>3, <4>4
    <3>7. l + 1 < m /\ l + 1 \in 1..(m - 1)
      BY <3>3, <3>6
    <3>8. q[(l + 1) + 1] \in Range(adj[n])
      BY <3>4, <3>5, <3>7
    <3>9. \A j \in 1..l : q[(l + 1) + 1] # calls[j].fn
      <4> TAKE j \in 1..l
      <4>1. j \in 1..m /\ (l + 1) + 1 \in 1..m /\ j # (l + 1) + 1
        BY <3>7
      <4> QED
        BY <3>1, <3>2, <3>4, <3>5, <4>1 DEF IsInjective
    <3>10. q[(l + 1) + 1] \in Range(below[l + 1].todo)
      BY <1>6, <1>8, <3>8, <3>9
    <3>11. \A j \in 1..(l + 1) : q[j] = below[j].fn
      <4> TAKE j \in 1..(l + 1)
      <4>1. j \in 1..l \/ j = l + 1
        OBVIOUS
      <4> QED
        BY <1>8, <3>5, <4>1
    <3>12. TurnsAt(q, below, l + 1)
      BY <3>2, <3>7, <3>10, <3>11 DEF TurnsAt
    <3> QED
      BY <3>12
  <2> QED
    BY <1>1, <1>14, <2>2, <2>3 DEF AllAhead
<1> QED
  BY <1>8, <1>9, <1>10, <1>11, <1>13, <1>14

LEMMA FrontFacts ==
  ASSUME NEW S, NEW s \in Seq(S), s # <<>>
  PROVE  /\ Len(s) \in Nat /\ Len(s) # 0 /\ DOMAIN s = 1..Len(s)
         /\ Len(s) \in DOMAIN s /\ Last(s) = s[Len(s)] /\ Last(s) \in S
         /\ Front(s) \in Seq(S) /\ Len(Front(s)) = Len(s) - 1
         /\ DOMAIN Front(s) = 1..(Len(s) - 1)
         /\ \A i \in 1..(Len(s) - 1) : Front(s)[i] = s[i]
<1>1. PICK l \in Nat : l = Len(s)
  BY LenProperties
<1>2. l # 0 /\ DOMAIN s = 1..l
  BY <1>1, EmptySeq, LenProperties
<1>3. l \in 1..l /\ 1 \in 1..l /\ l - 1 \in Int /\ l - 1 \in Nat
  BY <1>2
<1>4. PICK f : f = SubSeq(s, 1, l - 1)
  OBVIOUS
<1>5. /\ f \in Seq(S)
      /\ Len(f) = IF 1 <= l - 1 THEN l - 1 - 1 + 1 ELSE 0
      /\ \A i \in 1..(l - 1 - 1 + 1) : f[i] = s[1 + i - 1]
  <2>1. \A i \in 1..(l - 1) : s[i] \in S
    <3> TAKE i \in 1..(l - 1)
    <3>1. i \in 1..l
      BY <1>3
    <3> QED
      BY <1>1, <3>1, ElementOfSeq
  <2> QED
    BY <1>1, <1>3, <1>4, <2>1, SubSeqProperties
<1>6. /\ Len(f) = l - 1 /\ \A i \in 1..(l - 1) : f[i] = s[i]
  <2>1. (IF 1 <= l - 1 THEN l - 1 - 1 + 1 ELSE 0) = l - 1
    BY <1>2
  <2>2. l - 1 - 1 + 1 = l - 1
    BY <1>2
  <2>3. \A i \in 1..(l - 1) : 1 + i - 1 = i
    OBVIOUS
  <2> QED
    BY <1>5, <2>1, <2>2, <2>3
<1>7. DOMAIN f = 1..(l - 1)
  BY <1>5, <1>6, LenProperties
<1>8. s[l] \in S
  BY <1>1, <1>3, ElementOfSeq
<1>9. Front(s) = f /\ Last(s) = s[l]
  BY <1>1, <1>4 DEF Front, Last
<1> QED
  BY <1>1, <1>2, <1>3, <1>5, <1>6, <1>7, <1>8, <1>9

LEMMA InjectiveTail ==
  ASSUME NEW S, NEW s \in Seq(S), s # <<>>, IsInjective(s)
  PROVE  IsInjective(Tail(s)) /\ Head(s) \notin Range(Tail(s))
<1>1. /\ Head(s) = s[1] /\ Tail(s) \in Seq(S)
      /\ Len(Tail(s)) = Len(s) - 1
      /\ \A i \in 1..(Len(s) - 1) : Tail(s)[i] = s[i + 1]
  BY HeadTailProperties
<1>2. PICK l \in Nat : l = Len(s)
  BY LenProperties
<1>3. l # 0 /\ DOMAIN s = 1..l
  BY <1>2, EmptySeq, LenProperties
<1>4. PICK t \in Seq(S) : t = Tail(s)
  BY <1>1
<1>5. DOMAIN t = 1..(l - 1) /\ \A i \in 1..(l - 1) : t[i] = s[i + 1]
  BY <1>1, <1>2, <1>4, LenProperties
<1>6. 1 \in 1..l /\ \A i \in 1..(l - 1) : i + 1 \in 1..l /\ i + 1 # 1
  BY <1>3
<1>7. \A i, j \in 1..l : s[i] = s[j] => i = j
  BY <1>3 DEF IsInjective
<1>8. IsInjective(t)
  <2> SUFFICES ASSUME NEW i \in 1..(l - 1), NEW j \in 1..(l - 1), t[i] = t[j]
               PROVE  i = j
    BY <1>5 DEF IsInjective
  <2>1. i + 1 = j + 1
    BY <1>5, <1>6, <1>7
  <2> QED
    BY <2>1
<1>9. s[1] \notin Range(t)
  <2> SUFFICES ASSUME NEW i \in 1..(l - 1), s[1] = t[i]
               PROVE  FALSE
    BY <1>5 DEF Range
  <2> QED
    BY <1>5, <1>6, <1>7
<1> QED
  BY <1>1, <1>4, <1>8, <1>9

LEMMA ListInitial == PathsInit => ListInv
<1> SUFFICES ASSUME PathsInit
             PROVE  ListInv
  OBVIOUS
<1>1. /\ adj \in LinkGraphs /\ handler \in Handlers /\ caps \in PathLimits
      /\ descents = <<>> /\ listed = <<>>
  BY DEF PathsInit, NoPathsYet
<1>2. /\ <<>> \in Seq(Descent) /\ <<>> \in Seq(Seq(Linked)) /\ Len(<<>>) = 0
      /\ DOMAIN <<>> = {}
  BY EmptySeq
<1>3. caps.list \in Nat
  BY <1>1, PathLimitsAssumption
<1>4. ListTypeOK
  BY <1>1, <1>2 DEF ListTypeOK
<1>5. TodosAreOpen(descents) /\ NoneAhead(descents, listed)
  BY <1>1, <1>2 DEF TodosAreOpen, NoneAhead
<1>6. IsInjective(listed) /\ \A i \in DOMAIN listed : IsCallPath(listed[i], handler)
  BY <1>1, <1>2 DEF IsInjective
<1>7. Len(listed) <= caps.list
  BY <1>1, <1>2, <1>3
<1> QED
  BY <1>1, <1>4, <1>5, <1>6, <1>7 DEF ListInv

LEMMA ListStays == ListInv /\ UNCHANGED <<givenVars, descents, listed>> => ListInv'
<1> SUFFICES ASSUME ListInv, UNCHANGED <<givenVars, descents, listed>>
             PROVE  ListInv'
  OBVIOUS
<1>1. /\ adj' = adj /\ handler' = handler /\ caps' = caps
      /\ descents' = descents /\ listed' = listed
  BY DEF givenVars
<1>2. ListTypeOK'
  BY <1>1 DEF ListInv, ListTypeOK
<1>3. (descents # <<>> => IsWay(Fns(descents)))'
  BY <1>1 DEF ListInv, IsWay, Fns
<1>4. TodosAreOpen(descents)' /\ NoneAhead(descents, listed)'
  BY <1>1 DEF ListInv, TodosAreOpen, NoneAhead, TurnsAt
<1>5. IsInjective(listed)' /\ (\A i \in DOMAIN listed : IsCallPath(listed[i], handler))'
  BY <1>1 DEF ListInv, IsInjective, IsCallPath
<1>6. (Len(listed) <= caps.list)'
  BY <1>1 DEF ListInv
<1>7. CallPaths(handler)' = CallPaths(handler)
  BY <1>1 DEF CallPaths, IsCallPath
<1>8. ((descents # <<>> \/ listed # <<>>) /\ ~Full => RestAhead(descents, listed))'
  BY <1>1, <1>7 DEF ListInv, Full, RestAhead, TurnsAt
<1> QED
  BY <1>2, <1>3, <1>4, <1>5, <1>6, <1>8 DEF ListInv

LEMMA EnterKeeps ==
  ASSUME NEW calls, NEW n, OpensAt(calls, n, listed), AllAhead(calls, n, listed),
         handler \in Handlers, caps \in PathLimits, ~Full,
         calls # <<>> => IsWay(Fns(calls)),
         Enter(n, calls), UNCHANGED givenVars
  PROVE  ListInv'
<1>1. adj' = adj /\ handler' = handler /\ caps' = caps
  BY DEF givenVars
<1>2. /\ adj \in LinkGraphs /\ listed \in Seq(Seq(Linked)) /\ calls \in Seq(Descent)
      /\ TodosAreOpen(calls) /\ IsInjective(listed)
      /\ \A i \in DOMAIN listed : IsCallPath(listed[i], handler)
  BY DEF OpensAt
<1>3. PICK limit, m \in Nat : limit = caps.list /\ m = Len(listed)
  BY <1>2, PathLimitsAssumption, LenProperties
<1>4. m < limit
  BY <1>3 DEF Full
<1>5. CallPaths(handler)' = CallPaths(handler)
  BY <1>1 DEF CallPaths, IsCallPath
<1>6. CASE Unvisited(n, Fns(calls)) = <<>>
  <2>1. /\ listed' = Append(listed, Append(Fns(calls), n)) /\ descents' = calls
    BY <1>6 DEF Enter
  <2>2. PICK more : more = Append(listed, Append(Fns(calls), n))
    OBVIOUS
  <2>3. /\ more \in Seq(Seq(Linked)) /\ Len(more) = Len(listed) + 1 /\ more # <<>>
        /\ IsInjective(more)
        /\ \A i \in DOMAIN more : IsCallPath(more[i], handler)
        /\ NoneAhead(calls, more)
        /\ RestAhead(calls, more)
    BY <1>6, <2>2, LeafFacts
  <2>4. listed' = more
    BY <2>1, <2>2
  <2>5. ListTypeOK'
    BY <1>1, <1>2, <2>1, <2>3, <2>4 DEF ListTypeOK
  <2>6. (descents # <<>> => IsWay(Fns(descents)))'
    BY <1>1, <2>1 DEF IsWay, Fns
  <2>7. TodosAreOpen(descents)' /\ NoneAhead(descents, listed)'
    BY <1>1, <1>2, <2>1, <2>3, <2>4 DEF TodosAreOpen, NoneAhead, TurnsAt
  <2>8. IsInjective(listed)' /\ (\A i \in DOMAIN listed : IsCallPath(listed[i], handler))'
    BY <1>1, <2>3, <2>4 DEF IsInjective, IsCallPath
  <2>9. (Len(listed) <= caps.list)'
    BY <1>1, <1>3, <1>4, <2>3, <2>4
  <2>10. RestAhead(descents, listed)'
    BY <1>1, <1>5, <2>1, <2>3, <2>4 DEF RestAhead, TurnsAt
  <2> QED
    BY <2>5, <2>6, <2>7, <2>8, <2>9, <2>10 DEF ListInv
<1>7. CASE Unvisited(n, Fns(calls)) # <<>>
  <2>1. PICK u : u = Unvisited(n, Fns(calls))
    OBVIOUS
  <2>2. PICK below : below = Append(calls, [fn |-> n, todo |-> u])
    OBVIOUS
  <2>3. descents' = below /\ listed' = listed
    BY <1>7, <2>1, <2>2 DEF Enter
  <2>4. /\ below \in Seq(Descent) /\ below # <<>>
        /\ IsWay(Fns(below))
        /\ TodosAreOpen(below)
        /\ NoneAhead(below, listed)
        /\ RestAhead(below, listed)
    BY <1>7, <2>1, <2>2, BranchFacts
  <2>5. ListTypeOK'
    BY <1>1, <1>2, <2>3, <2>4 DEF ListTypeOK
  <2>6. (descents # <<>> => IsWay(Fns(descents)))'
    BY <1>1, <2>3, <2>4 DEF IsWay, Fns
  <2>7. TodosAreOpen(descents)' /\ NoneAhead(descents, listed)'
    BY <1>1, <2>3, <2>4 DEF TodosAreOpen, NoneAhead, TurnsAt
  <2>8. IsInjective(listed)' /\ (\A i \in DOMAIN listed : IsCallPath(listed[i], handler))'
    BY <1>1, <1>2, <2>3 DEF IsInjective, IsCallPath
  <2>9. (Len(listed) <= caps.list)'
    BY <1>1, <1>3, <1>4, <2>3
  <2>10. RestAhead(descents, listed)'
    BY <1>1, <1>5, <2>3, <2>4 DEF RestAhead, TurnsAt
  <2> QED
    BY <2>5, <2>6, <2>7, <2>8, <2>9, <2>10 DEF ListInv
<1> QED
  BY <1>6, <1>7

LEMMA StartListKeeps == ListInv /\ StartList => ListInv'
<1> SUFFICES ASSUME ListInv, StartList
             PROVE  ListInv'
  OBVIOUS
<1>1. /\ descents = <<>> /\ listed = <<>> /\ Enter(handler, <<>>)
      /\ UNCHANGED givenVars
  BY DEF StartList
<1>2. /\ adj \in LinkGraphs /\ handler \in Handlers /\ caps \in PathLimits
      /\ handler \in Linked
  BY LinkedAssumption DEF ListInv, ListTypeOK
<1>3. PICK calls : calls = <<>>
  OBVIOUS
<1>4. /\ calls \in Seq(Descent) /\ Len(calls) = 0 /\ DOMAIN calls = {}
      /\ listed \in Seq(Seq(Linked)) /\ Len(listed) = 0 /\ DOMAIN listed = {}
  BY <1>1, <1>3, EmptySeq
<1>5. Range(listed) = {}
  BY <1>4 DEF Range
<1>6. PICK p : p = Append(Fns(calls), handler)
  OBVIOUS
<1>7. p \in Seq(Linked) /\ Len(p) = 1 /\ DOMAIN p = 1..1 /\ p[1] = handler
  <2>1. calls \in Seq(Descent) /\ handler \in Linked
    BY <1>2, <1>4
  <2>2. /\ p \in Seq(Linked) /\ Len(p) = Len(calls) + 1
        /\ DOMAIN p = 1..(Len(calls) + 1) /\ p[Len(calls) + 1] = handler
    BY <1>6, <2>1, OnwardFacts
  <2> QED
    BY <1>4, <2>2
<1>8. IsWay(p)
  <2>1. p # <<>>
    BY <1>7, EmptySeq
  <2>2. IsInjective(p) /\ 1..(Len(p) - 1) = {}
    BY <1>7 DEF IsInjective
  <2> QED
    BY <1>7, <2>1, <2>2 DEF IsWay
<1>9. OpensAt(calls, handler, listed)
  <2>1. TodosAreOpen(calls) /\ NoneAhead(calls, listed) /\ IsInjective(listed)
    BY <1>4 DEF TodosAreOpen, NoneAhead, IsInjective
  <2> QED
    BY <1>2, <1>3, <1>4, <1>5, <1>6, <1>8, <2>1 DEF OpensAt
<1>10. AllAhead(calls, handler, listed)
  <2> SUFFICES ASSUME NEW q \in CallPaths(handler)
               PROVE  Begins(q, p)
    BY <1>6 DEF AllAhead
  <2>1. q \in Seq(Linked) /\ Len(q) \in Nat /\ q # <<>> /\ q[1] = handler
    BY <1>2, CallPathFacts DEF IsCallPath
  <2>2. Len(q) # 0
    BY <2>1, EmptySeq
  <2>3. 1 <= Len(q)
    BY <2>1, <2>2
  <2>4. \A j \in 1..1 : q[j] = p[j]
    BY <1>7, <2>1
  <2> QED
    BY <1>7, <2>3, <2>4 DEF Begins
<1>11. ~Full
  <2>1. caps.list \in Nat \ {0}
    BY <1>2, PathLimitsAssumption
  <2> QED
    BY <1>4, <2>1 DEF Full
<1>12. Enter(handler, calls)
  BY <1>1, <1>3
<1> QED
  BY <1>1, <1>2, <1>3, <1>9, <1>10, <1>11, <1>12, EnterKeeps

LEMMA DescendKeeps == ListInv /\ Descend => ListInv'
<1> SUFFICES ASSUME ListInv, Descend
             PROVE  ListInv'
  OBVIOUS
<1>1. /\ adj \in LinkGraphs /\ handler \in Handlers /\ caps \in PathLimits
      /\ descents \in Seq(Descent) /\ listed \in Seq(Seq(Linked))
      /\ handler \in Linked
      /\ descents # <<>> /\ ~Full /\ UNCHANGED givenVars
      /\ IsWay(Fns(descents)) /\ TodosAreOpen(descents)
      /\ IsInjective(listed)
      /\ \A i \in DOMAIN listed : IsCallPath(listed[i], handler)
      /\ NoneAhead(descents, listed)
      /\ RestAhead(descents, listed)
  BY LinkedAssumption DEF ListInv, ListTypeOK, Descend
<1>2. PICK l \in Nat : l = Len(descents)
  BY <1>1, FnsFacts
<1>3. l # 0 /\ DOMAIN descents = 1..l
  BY <1>1, <1>2, FnsFacts, EmptySeq
<1>4. l \in 1..l
  BY <1>3
<1>5. PICK todo \in Seq(Linked) : todo = descents[l].todo
  BY <1>1, <1>3, <1>4, FnsFacts
<1>6. PICK n, rest : n = Head(todo) /\ rest = Tail(todo)
  OBVIOUS
<1>7. /\ todo # <<>> /\ Enter(n, [descents EXCEPT ![l].todo = Tail(@)])
  BY <1>2, <1>5, <1>6 DEF Descend, Last
<1>8. PICK calls : calls = [descents EXCEPT ![l].todo = Tail(@)]
  OBVIOUS
<1>9. /\ n \in Linked /\ rest \in Seq(Linked)
      /\ Range(todo) = {n} \union Range(rest)
  BY <1>6, <1>7, HeadTailRange
<1>10. /\ \A i \in 1..l : descents[i] \in Descent
       /\ \A i \in 1..l : descents[i].fn \in Linked
  BY <1>1, <1>2, <1>3, FnsFacts, ElementOfSeq
<1>11. /\ calls \in Seq(Descent) /\ Len(calls) = l /\ DOMAIN calls = 1..l
       /\ \A i \in 1..l : i # l => calls[i] = descents[i]
       /\ \A i \in 1..l : calls[i].fn = descents[i].fn
       /\ calls[l].todo = rest
  <2>1. PICK f : f = [descents[l] EXCEPT !.todo = rest]
    OBVIOUS
  <2>2. f \in Descent /\ f.fn = descents[l].fn /\ f.todo = rest
    BY <1>4, <1>9, <1>10, <2>1 DEF Descent
  <2>3. calls = [descents EXCEPT ![l] = f]
    BY <1>3, <1>4, <1>5, <1>6, <1>8, <2>1
  <2>4. /\ DOMAIN calls = 1..l /\ calls[l] = f
        /\ \A i \in 1..l : i # l => calls[i] = descents[i]
    BY <1>3, <1>4, <2>3
  <2>5. calls \in [1..l -> Descent]
    BY <1>3, <1>10, <2>2, <2>3, <2>4
  <2>6. calls \in Seq(Descent)
    BY <2>5, SeqDef
  <2>7. Len(calls) = l
    BY <2>4, <2>6, LenProperties
  <2> QED
    BY <2>2, <2>4, <2>6, <2>7
<1>12. Fns(calls) = Fns(descents)
  <2>1. /\ DOMAIN Fns(calls) = 1..l /\ DOMAIN Fns(descents) = 1..l
        /\ Fns(calls) \in Seq(Linked) /\ Fns(descents) \in Seq(Linked)
        /\ Len(Fns(calls)) = l /\ Len(Fns(descents)) = l
    BY <1>1, <1>2, <1>3, <1>11, FnsFacts
  <2>2. \A i \in 1..l : Fns(calls)[i] = Fns(descents)[i]
    BY <1>1, <1>3, <1>11, FnsFacts
  <2> QED
    BY <2>1, <2>2, SeqEqual
<1>13. PICK p : p = Append(Fns(calls), n)
  OBVIOUS
<1>14. /\ p \in Seq(Linked) /\ Len(p) = l + 1 /\ DOMAIN p = 1..(l + 1)
       /\ \A j \in 1..l : p[j] = descents[j].fn
       /\ p[l + 1] = n
  BY <1>9, <1>11, <1>13, OnwardFacts
<1>15. /\ IsInjective(todo)
       /\ \A k \in Range(todo) :
            k \in Range(adj[descents[l].fn]) /\ \A j \in 1..l : k # descents[j].fn
  BY <1>1, <1>3, <1>4, <1>5 DEF TodosAreOpen
<1>16. IsInjective(rest) /\ n \notin Range(rest)
  BY <1>6, <1>7, <1>15, InjectiveTail
<1>17. IsWay(p)
  <2>1. PICK w : w = Fns(descents)
    OBVIOUS
  <2>2. /\ DOMAIN w = 1..l /\ Len(w) = l
        /\ \A j \in 1..l : w[j] = descents[j].fn
    BY <1>1, <1>2, <1>3, <2>1, FnsFacts
  <2>3. /\ w[1] = handler /\ IsInjective(w)
        /\ \A i \in 1..(l - 1) : w[i + 1] \in Range(adj[w[i]])
    BY <1>1, <2>1, <2>2 DEF IsWay
  <2>4. \A i \in 1..(l + 1) : i \in 1..l \/ i = l + 1
    OBVIOUS
  <2>5. \A j \in 1..l : p[j] = w[j] /\ p[j] # n
    BY <1>9, <1>14, <1>15, <2>2
  <2>6. IsInjective(p)
    <3>1. \A i, j \in 1..l : w[i] = w[j] => i = j
      BY <2>2, <2>3 DEF IsInjective
    <3>2. \A i, j \in 1..(l + 1) : p[i] = p[j] => i = j
      BY <1>14, <2>4, <2>5, <3>1
    <3> QED
      BY <1>14, <3>2 DEF IsInjective
  <2>7. p[1] = handler
    <3>1. 1 \in 1..l
      BY <1>3
    <3> QED
      BY <2>3, <2>5, <3>1
  <2>8. ASSUME NEW i \in 1..((l + 1) - 1)
        PROVE  p[i + 1] \in Range(adj[p[i]])
    <3>1. CASE i = l
      BY <1>4, <1>9, <1>14, <1>15, <3>1
    <3>2. CASE i # l
      <4>1. i \in 1..(l - 1) /\ i \in 1..l /\ i + 1 \in 1..l
        BY <3>2
      <4> QED
        BY <2>3, <2>5, <4>1
    <3> QED
      BY <3>1, <3>2
  <2>9. p # <<>>
    <3>1. l + 1 # 0
      OBVIOUS
    <3> QED
      BY <1>14, <3>1, EmptySeq
  <2> QED
    BY <1>14, <2>6, <2>7, <2>8, <2>9 DEF IsWay
<1>18. TodosAreOpen(calls)
  <2> SUFFICES ASSUME NEW i \in 1..l
               PROVE  /\ IsInjective(calls[i].todo)
                      /\ \A k \in Range(calls[i].todo) :
                           /\ k \in Range(adj[calls[i].fn])
                           /\ \A j \in 1..i : k # calls[j].fn
                           /\ i < l => k # calls[i + 1].fn
    BY <1>11 DEF TodosAreOpen
  <2>1. \A j \in 1..i : j \in 1..l
    OBVIOUS
  <2>2. CASE i = l
    <3>1. ~(i < l)
      BY <2>2
    <3> QED
      BY <1>9, <1>11, <1>15, <1>16, <2>1, <2>2, <3>1
  <2>3. CASE i # l
    <3>1. /\ IsInjective(descents[i].todo)
          /\ \A k \in Range(descents[i].todo) :
               /\ k \in Range(adj[descents[i].fn])
               /\ \A j \in 1..i : k # descents[j].fn
               /\ i < l => k # descents[i + 1].fn
      BY <1>1, <1>2, <1>3 DEF TodosAreOpen
    <3>2. i < l => i + 1 \in 1..l
      OBVIOUS
    <3> QED
      BY <1>11, <2>1, <2>3, <3>1, <3>2
  <2> QED
    BY <2>2, <2>3
<1>19. \A q : \A i \in 1..l : TurnsAt(q, calls, i) => TurnsAt(q, descents, i)
  <2> TAKE q
  <2> TAKE i \in 1..l
  <2>1. \A j \in 1..i : j \in 1..l
    OBVIOUS
  <2>2. Range(calls[i].todo) \subseteq Range(descents[i].todo)
    BY <1>5, <1>9, <1>11
  <2> QED
    BY <1>11, <2>1, <2>2 DEF TurnsAt
<1>20. NoneAhead(calls, listed)
  BY <1>1, <1>3, <1>11, <1>19 DEF NoneAhead
<1>21. ASSUME NEW q \in Range(listed)
       PROVE  ~Begins(q, p)
  <2> SUFFICES ASSUME Begins(q, p)
               PROVE  FALSE
    OBVIOUS
  <2>1. q \in Seq(Linked)
    <3>1. PICK j \in DOMAIN listed : q = listed[j]
      BY DEF Range
    <3> QED
      BY <1>1, <3>1, LenProperties, ElementOfSeq
  <2>2. Len(q) \in Nat
    BY <2>1, LenProperties
  <2>3. l + 1 <= Len(q) /\ \A j \in 1..(l + 1) : q[j] = p[j]
    BY <1>14 DEF Begins
  <2>4. /\ l < Len(q) /\ \A j \in 1..l : j \in 1..(l + 1)
        /\ l + 1 \in 1..(l + 1)
    BY <2>2, <2>3
  <2>5. TurnsAt(q, descents, l)
    BY <1>5, <1>9, <1>14, <2>3, <2>4 DEF TurnsAt
  <2> QED
    BY <1>1, <1>3, <1>4, <2>5 DEF NoneAhead
<1>22. OpensAt(calls, n, listed)
  BY <1>1, <1>9, <1>11, <1>13, <1>16, <1>17, <1>18, <1>20, <1>21 DEF OpensAt
<1>23. AllAhead(calls, n, listed)
  <2> SUFFICES ASSUME NEW q \in CallPaths(handler), NEW i \in 1..l, TurnsAt(q, descents, i)
               PROVE  TurnsAt(q, calls, i) \/ Begins(q, p)
    BY <1>1, <1>3, <1>11, <1>13 DEF AllAhead, RestAhead
  <2>1. /\ i < Len(q) /\ \A j \in 1..i : q[j] = descents[j].fn
        /\ q[i + 1] \in Range(descents[i].todo)
    BY DEF TurnsAt
  <2>2. \A j \in 1..i : j \in 1..l
    OBVIOUS
  <2>3. CASE i # l \/ q[i + 1] # n
    BY <1>5, <1>9, <1>11, <2>1, <2>2, <2>3 DEF TurnsAt
  <2>4. CASE i = l /\ q[i + 1] = n
    <3>1. Len(q) \in Nat
      BY <1>1, CallPathFacts
    <3>2. l + 1 <= Len(q)
      BY <2>1, <2>4, <3>1
    <3>3. \A j \in 1..(l + 1) : q[j] = p[j]
      <4> TAKE j \in 1..(l + 1)
      <4>1. j \in 1..l \/ j = l + 1
        OBVIOUS
      <4> QED
        BY <1>14, <2>1, <2>4, <4>1
    <3> QED
      BY <1>14, <3>2, <3>3 DEF Begins
  <2> QED
    BY <2>3, <2>4
<1>24. calls # <<>> => IsWay(Fns(calls))
  BY <1>1, <1>12
<1>25. Enter(n, calls)
  BY <1>7, <1>8
<1> QED
  BY <1>1, <1>22, <1>23, <1>24, <1>25, EnterKeeps

LEMMA AscendKeeps == ListInv /\ Ascend => ListInv'
<1> SUFFICES ASSUME ListInv, Ascend
             PROVE  ListInv'
  OBVIOUS
<1>1. /\ adj \in LinkGraphs /\ handler \in Handlers /\ caps \in PathLimits
      /\ descents \in Seq(Descent) /\ listed \in Seq(Seq(Linked))
      /\ descents # <<>>
      /\ IsWay(Fns(descents)) /\ TodosAreOpen(descents)
      /\ IsInjective(listed)
      /\ \A i \in DOMAIN listed : IsCallPath(listed[i], handler)
      /\ NoneAhead(descents, listed)
      /\ ~Full => RestAhead(descents, listed)
      /\ Len(listed) <= caps.list
  BY DEF ListInv, ListTypeOK, Ascend
<1>2. /\ adj' = adj /\ handler' = handler /\ caps' = caps /\ listed' = listed
      /\ descents' = Front(descents)
      /\ Last(descents).todo = <<>> \/ Full
  BY DEF Ascend, givenVars
<1>3. PICK l \in Nat : l = Len(descents)
  BY <1>1, FnsFacts
<1>4. PICK f : f = Front(descents)
  OBVIOUS
<1>5. /\ l # 0 /\ DOMAIN descents = 1..l /\ Last(descents) = descents[l]
      /\ f \in Seq(Descent) /\ Len(f) = l - 1 /\ DOMAIN f = 1..(l - 1)
      /\ \A i \in 1..(l - 1) : f[i] = descents[i]
  BY <1>1, <1>3, <1>4, FrontFacts
<1>6. /\ \A i \in 1..(l - 1) : i \in 1..l /\ i < l
      /\ \A i \in 1..(l - 1) : \A j \in 1..i : j \in 1..(l - 1)
      /\ \A i \in 1..l : i \in 1..(l - 1) \/ i = l
  BY <1>5
<1>7. ListTypeOK'
  BY <1>1, <1>2, <1>4, <1>5 DEF ListTypeOK
<1>8. f # <<>> => IsWay(Fns(f))
  <2> SUFFICES ASSUME f # <<>>
               PROVE  IsWay(Fns(f))
    OBVIOUS
  <2>1. PICK w, v : w = Fns(descents) /\ v = Fns(f)
    OBVIOUS
  <2>2. /\ DOMAIN w = 1..l /\ Len(w) = l
        /\ \A j \in 1..l : w[j] = descents[j].fn
    BY <1>1, <1>3, <1>5, <2>1, FnsFacts
  <2>3. /\ v \in Seq(Linked) /\ DOMAIN v = 1..(l - 1) /\ Len(v) = l - 1
        /\ \A j \in 1..(l - 1) : v[j] = f[j].fn
    BY <1>5, <2>1, FnsFacts
  <2>4. /\ w[1] = handler /\ IsInjective(w)
        /\ \A i \in 1..(l - 1) : w[i + 1] \in Range(adj[w[i]])
    BY <1>1, <2>1, <2>2 DEF IsWay
  <2>5. \A j \in 1..(l - 1) : v[j] = w[j]
    BY <1>5, <1>6, <2>2, <2>3
  <2>6. l - 1 # 0
    BY <1>5, EmptySeq
  <2>7. v # <<>>
    BY <2>3, <2>6, EmptySeq
  <2>8. 1 \in 1..(l - 1)
    BY <1>5, <2>6
  <2>9. IsInjective(v)
    BY <1>6, <2>2, <2>3, <2>4, <2>5 DEF IsInjective
  <2>10. ASSUME NEW i \in 1..((l - 1) - 1)
         PROVE  v[i + 1] \in Range(adj[v[i]])
    <3>1. i \in 1..(l - 1) /\ i + 1 \in 1..(l - 1)
      BY <1>5
    <3> QED
      BY <2>4, <2>5, <3>1
  <2> QED
    BY <2>1, <2>3, <2>4, <2>5, <2>7, <2>8, <2>9, <2>10 DEF IsWay
<1>9. TodosAreOpen(f)
  <2> SUFFICES ASSUME NEW i \in 1..(l - 1)
               PROVE  /\ IsInjective(f[i].todo)
                      /\ \A k \in Range(f[i].todo) :
                           /\ k \in Range(adj[f[i].fn])
                           /\ \A j \in 1..i : k # f[j].fn
                           /\ i < l - 1 => k # f[i + 1].fn
    BY <1>5 DEF TodosAreOpen
  <2>1. /\ IsInjective(descents[i].todo)
        /\ \A k \in Range(descents[i].todo) :
             /\ k \in Range(adj[descents[i].fn])
             /\ \A j \in 1..i : k # descents[j].fn
             /\ i < l => k # descents[i + 1].fn
    BY <1>1, <1>3, <1>5, <1>6 DEF TodosAreOpen
  <2>2. i < l - 1 => i + 1 \in 1..(l - 1)
    BY <1>5
  <2> QED
    BY <1>5, <1>6, <2>1, <2>2
<1>10. \A q : \A i \in 1..(l - 1) : TurnsAt(q, f, i) <=> TurnsAt(q, descents, i)
  BY <1>5, <1>6 DEF TurnsAt
<1>11. NoneAhead(f, listed)
  BY <1>1, <1>5, <1>6, <1>10 DEF NoneAhead
<1>12. ~Full => RestAhead(f, listed)
  <2> SUFFICES ASSUME ~Full, NEW q \in CallPaths(handler), NEW i \in 1..l,
                      TurnsAt(q, descents, i)
               PROVE  i \in 1..(l - 1)
    BY <1>1, <1>5, <1>10 DEF RestAhead
  <2>1. CASE i = l
    <3>1. Range(descents[l].todo) = {}
      BY <1>2, <1>5 DEF Range
    <3> QED
      BY <2>1, <3>1 DEF TurnsAt
  <2> QED
    BY <1>6, <2>1
<1>13. CallPaths(handler)' = CallPaths(handler)
  BY <1>2 DEF CallPaths, IsCallPath
<1>14. (descents # <<>> => IsWay(Fns(descents)))'
  BY <1>2, <1>4, <1>8 DEF IsWay, Fns
<1>15. TodosAreOpen(descents)' /\ NoneAhead(descents, listed)'
  BY <1>2, <1>4, <1>9, <1>11 DEF TodosAreOpen, NoneAhead, TurnsAt
<1>16. IsInjective(listed)' /\ (\A i \in DOMAIN listed : IsCallPath(listed[i], handler))'
  BY <1>1, <1>2 DEF IsInjective, IsCallPath
<1>17. (Len(listed) <= caps.list)'
  BY <1>1, <1>2
<1>18. (~Full => RestAhead(descents, listed))'
  BY <1>2, <1>4, <1>12, <1>13 DEF RestAhead, TurnsAt, Full
<1> QED
  BY <1>7, <1>14, <1>15, <1>16, <1>17, <1>18 DEF ListInv

LEMMA CountsLeaveTheList ==
  CountStep => UNCHANGED <<givenVars, descents, listed>>
BY DEF CountStep, StartCount, CountCycle, CountKnown, CountCall, CountReturn

(* What enumeratePaths keeps holds in every state of both walks.           *)
THEOREM ListCorrect == PathsSpec => []ListInv
<1>1. ListInv /\ UNCHANGED pathVars => ListInv'
  BY ListStays DEF pathVars
<1>2. ListInv /\ CountStep => ListInv'
  BY ListStays, CountsLeaveTheList
<1>3. ListInv /\ ListStep => ListInv'
  BY StartListKeeps, DescendKeeps, AscendKeeps DEF ListStep
<1>4. ListInv /\ [PathsNext]_pathVars => ListInv'
  BY <1>1, <1>2, <1>3 DEF PathsNext
<1> QED
  BY <1>4, ListInitial, PTL DEF PathsSpec

-----------------------------------------------------------------------------
(* There are finitely many call paths: each is told by which function it   *)
(* has at which place.                                                     *)
LEMMA CallPathsFinite ==
  ASSUME NEW root
  PROVE  IsFiniteSet(CallPaths(root)) /\ Cardinality(CallPaths(root)) \in Nat
<1>1. PICK n \in Nat : n = Cardinality(Linked)
  BY LinkedAssumption, FS_CardinalityType
<1>2. PICK T : T = (1..n) \X Linked
  OBVIOUS
<1>3. PICK places : places = [p \in CallPaths(root) |-> {<<i, p[i]>> : i \in DOMAIN p}]
  OBVIOUS
<1>4. IsFiniteSet(SUBSET T)
  <2>1. IsFiniteSet(1..n) /\ IsFiniteSet(Linked)
    BY LinkedAssumption, FS_Interval
  <2>2. IsFiniteSet(T)
    BY <1>2, <2>1, FS_Product
  <2> QED
    BY <2>2, FS_SUBSET
<1>5. ASSUME NEW p \in CallPaths(root)
      PROVE  \E m \in 0..n : p \in [1..m -> Linked]
  <2>1. p \in SeqOf(Linked, n)
    BY <1>1, <1>5 DEF CallPaths
  <2> QED
    BY <2>1, Zenon DEF SeqOf
<1>6. ASSUME NEW p \in CallPaths(root)
      PROVE  places[p] \in SUBSET T
  <2>1. PICK m \in 0..n : p \in [1..m -> Linked]
    BY <1>5, <1>6
  <2>2. \A i \in 1..m : i \in 1..n /\ p[i] \in Linked
    BY <1>1, <2>1
  <2>3. places[p] = {<<i, p[i]>> : i \in 1..m}
    BY <1>3, <1>6, <2>1
  <2> QED
    BY <1>2, <2>2, <2>3
<1>7. ASSUME NEW p \in CallPaths(root), NEW q \in CallPaths(root), places[p] = places[q]
      PROVE  p = q
  <2>1. places[p] = {<<i, p[i]>> : i \in DOMAIN p} /\ places[q] = {<<i, q[i]>> : i \in DOMAIN q}
    BY <1>3
  <2>2. ASSUME NEW i \in DOMAIN p
        PROVE  i \in DOMAIN q /\ p[i] = q[i]
    <3>1. <<i, p[i]>> \in {<<j, q[j]>> : j \in DOMAIN q}
      BY <1>7, <2>1, <2>2
    <3>2. PICK j \in DOMAIN q : <<i, p[i]>> = <<j, q[j]>>
      BY <3>1
    <3> QED
      BY <3>2
  <2>3. ASSUME NEW i \in DOMAIN q
        PROVE  i \in DOMAIN p
    <3>1. <<i, q[i]>> \in {<<j, p[j]>> : j \in DOMAIN p}
      BY <1>7, <2>1, <2>3
    <3>2. PICK j \in DOMAIN p : <<i, q[i]>> = <<j, p[j]>>
      BY <3>1
    <3> QED
      BY <3>2
  <2>4. PICK m \in 0..n : p \in [1..m -> Linked]
    BY <1>5
  <2>5. PICK l \in 0..n : q \in [1..l -> Linked]
    BY <1>5
  <2>6. DOMAIN p = DOMAIN q
    BY <2>2, <2>3
  <2> QED
    BY <2>2, <2>4, <2>5, <2>6
<1>8. places \in Injection(CallPaths(root), SUBSET T)
  <2>1. places \in [CallPaths(root) -> SUBSET T]
    BY <1>3, <1>6
  <2> QED
    BY <1>7, <2>1 DEF Injection, IsInjective
<1>9. IsFiniteSet(CallPaths(root))
  BY <1>4, <1>8, FS_Injection
<1> QED
  BY <1>9, FS_CardinalityType

(* A list without repetition is as long as its range is large.             *)
LEMMA InjectiveRange ==
  ASSUME NEW S, NEW s \in Seq(S), IsInjective(s)
  PROVE  IsFiniteSet(Range(s)) /\ Cardinality(Range(s)) = Len(s)
<1>1. PICK n \in Nat : n = Len(s)
  BY LenProperties
<1>2. DOMAIN s = 1..n
  BY <1>1, LenProperties
<1>3. s \in [1..n -> Range(s)]
  <2>1. s \in [1..n -> S]
    BY <1>1, LenProperties
  <2>2. \A i \in 1..n : s[i] \in Range(s)
    BY <1>2 DEF Range
  <2> QED
    BY <2>1, <2>2
<1>4. s \in Bijection(1..n, Range(s))
  BY <1>2, <1>3 DEF Bijection, Injection, Surjection, Range, IsInjective
<1>5. IsFiniteSet(1..n) /\ Cardinality(1..n) = n
  BY FS_Interval
<1>6. ExistsBijection(1..n, Range(s))
  BY <1>4 DEF ExistsBijection
<1> QED
  BY <1>1, <1>5, <1>6, FS_Bijection

(* TracePaths!SampleIsRight for every trace: the sample on the insight page  *)
(* has only call paths of the handler, none twice, and all of them or as   *)
(* many as it may have, with recursion or without (metrics.go:687-725).    *)
THEOREM ListRight == PathsSpec => []SampleIsRight
<1>1. ListInv => SampleIsRight
  <2> SUFFICES ASSUME ListInv
               PROVE  SampleIsRight
    OBVIOUS
  <2>1. /\ adj \in LinkGraphs /\ caps \in PathLimits
        /\ listed \in Seq(Seq(Linked)) /\ IsInjective(listed)
        /\ \A i \in DOMAIN listed : IsCallPath(listed[i], handler)
        /\ Len(listed) <= caps.list
    BY DEF ListInv, ListTypeOK
  <2>2. PICK m, limit, all \in Nat :
          m = Len(listed) /\ limit = caps.list /\ all = Cardinality(CallPaths(handler))
    BY <2>1, PathLimitsAssumption, CallPathsFinite, LenProperties
  <2>3. ASSUME NEW i \in DOMAIN listed
        PROVE  listed[i] \in Seq(Linked)
    BY <2>1, ElementOfSeq, LenProperties
  <2>4. Range(listed) \subseteq CallPaths(handler)
    <3> SUFFICES ASSUME NEW i \in DOMAIN listed
                 PROVE  listed[i] \in CallPaths(handler)
      BY DEF Range
    <3>1. IsInjective(listed[i]) /\ IsCallPath(listed[i], handler)
      BY <2>1 DEF IsCallPath
    <3> QED
      BY <2>3, <3>1, InjectiveIsShort DEF CallPaths
  <2>5. m <= all
    <3>1. IsFiniteSet(CallPaths(handler))
      BY CallPathsFinite
    <3>2. Cardinality(Range(listed)) <= Cardinality(CallPaths(handler))
      BY <2>4, <3>1, FS_Subset
    <3> QED
      BY <2>1, <2>2, <3>2, InjectiveRange
  <2>6. ASSUME AllListed
        PROVE  Len(listed) = AtMost(Cardinality(CallPaths(handler)), caps.list)
    <3>1. CASE Full
      <4>1. m = limit
        BY <2>1, <2>2, <3>1 DEF Full
      <4> QED
        BY <2>2, <2>5, <4>1 DEF AtMost
    <3>2. CASE ~Full
      <4>1. RestAhead(descents, listed) /\ descents = <<>>
        BY <2>6, <3>2 DEF ListInv, AllListed
      <4>2. DOMAIN descents = {}
        BY <4>1, EmptySeq
      <4>3. Range(listed) = CallPaths(handler)
        BY <2>4, <4>1, <4>2 DEF RestAhead
      <4>4. m = all /\ m < limit
        <5>1. m = all
          BY <2>1, <2>2, <4>3, InjectiveRange
        <5> QED
          BY <2>2, <3>2, <5>1 DEF Full
      <4> QED
        BY <2>2, <4>4 DEF AtMost
    <3> QED
      BY <3>1, <3>2
  <2> QED
    BY <2>1, <2>3, <2>6 DEF SampleIsRight
<1> QED
  BY <1>1, ListCorrect, PTL

-----------------------------------------------------------------------------
(* TracePaths: the number of call paths of a trace without recursion.      *)

GoesOverLinks(p) == \A i \in 1..(Len(p) - 1) : p[i + 1] \in Range(adj[p[i]])

(* Without recursion a call path is a way over links to a leaf.            *)
Straight(p, n) ==
  /\ p \in Seq(Linked) /\ p # <<>> /\ p[1] = n
  /\ GoesOverLinks(p)
  /\ adj[Last(p)] = <<>>

(* No way leads back: what it has between the two would call itself.       *)
LEMMA NoLinkBack ==
  ASSUME Acyclic, NEW p \in Seq(Linked), GoesOverLinks(p),
         NEW i \in 1..Len(p), NEW j \in 1..i
  PROVE  p[j] \notin Range(adj[p[i]])
<1> SUFFICES ASSUME p[j] \in Range(adj[p[i]])
             PROVE  FALSE
  OBVIOUS
<1>1. PICK l \in Nat : l = Len(p)
  BY LenProperties
<1>2. i \in 1..l /\ i \in Nat /\ j \in Nat /\ j <= i
  BY <1>1
<1>3. PICK S : S = {p[m] : m \in j..i}
  OBVIOUS
<1>4. \A m \in j..i : m \in 1..l /\ p[m] \in Linked
  <2> TAKE m \in j..i
  <2>1. m \in 1..l
    BY <1>2
  <2> QED
    BY <1>1, <2>1, ElementOfSeq
<1>5. S \in SUBSET Linked /\ S # {}
  <2>1. j \in j..i
    BY <1>2
  <2> QED
    BY <1>3, <1>4, <2>1
<1>6. PICK n \in S : Range(adj[n]) \intersect S = {}
  BY <1>5 DEF Acyclic
<1>7. PICK m \in j..i : n = p[m]
  BY <1>3
<1>8. CASE m = i
  <2>1. p[j] \in S
    <3>1. j \in j..i
      BY <1>2
    <3> QED
      BY <1>3, <3>1
  <2> QED
    BY <1>6, <1>7, <1>8, <2>1
<1>9. CASE m # i
  <2>1. m \in 1..(l - 1) /\ m + 1 \in j..i
    BY <1>2, <1>9
  <2>2. p[m + 1] \in Range(adj[p[m]])
    BY <1>1, <2>1 DEF GoesOverLinks
  <2>3. p[m + 1] \in S
    BY <1>3, <2>1
  <2> QED
    BY <1>6, <1>7, <2>2, <2>3
<1> QED
  BY <1>8, <1>9

LEMMA WaysDoNotRepeat ==
  ASSUME Acyclic, NEW p \in Seq(Linked), GoesOverLinks(p)
  PROVE  IsInjective(p)
<1>1. PICK l \in Nat : l = Len(p)
  BY LenProperties
<1>2. ASSUME NEW i \in 1..l, NEW j \in 1..l, i < j
      PROVE  p[i] # p[j]
  <2>1. j - 1 \in 1..(l - 1) /\ j - 1 \in 1..l /\ i \in 1..(j - 1) /\ (j - 1) + 1 = j
    BY <1>2
  <2>2. p[(j - 1) + 1] \in Range(adj[p[j - 1]])
    BY <1>1, <2>1 DEF GoesOverLinks
  <2>3. p[i] \notin Range(adj[p[j - 1]])
    BY <1>1, <2>1, NoLinkBack
  <2> QED
    BY <2>1, <2>2, <2>3
<1>3. DOMAIN p = 1..l
  BY <1>1, LenProperties
<1>4. ASSUME NEW i \in 1..l, NEW j \in 1..l, p[i] = p[j]
      PROVE  i = j
  <2>1. i < j \/ j < i \/ i = j
    OBVIOUS
  <2> QED
    BY <1>2, <1>4, <2>1
<1> QED
  BY <1>3, <1>4 DEF IsInjective

LEMMA CallPathsAreStraight ==
  ASSUME adj \in LinkGraphs, Acyclic, NEW n \in Linked, NEW p
  PROVE  p \in CallPaths(n) <=> Straight(p, n)
<1>1. ASSUME p \in CallPaths(n)
      PROVE  Straight(p, n)
  <2>1. /\ p \in Seq(Linked) /\ Len(p) \in Nat /\ DOMAIN p = 1..Len(p) /\ p # <<>>
        /\ IsCallPath(p, n)
    BY <1>1, CallPathFacts
  <2>2. p[1] = n /\ GoesOverLinks(p) /\ Range(adj[Last(p)]) \subseteq Range(p)
    BY <2>1 DEF IsCallPath, GoesOverLinks
  <2>3. Len(p) \in 1..Len(p) /\ Last(p) = p[Len(p)] /\ Last(p) \in Linked
    BY <2>1, FrontFacts
  <2>4. \A j \in 1..Len(p) : p[j] \notin Range(adj[p[Len(p)]])
    BY <2>1, <2>2, <2>3, NoLinkBack
  <2>5. Range(adj[Last(p)]) = {}
    BY <2>1, <2>2, <2>3, <2>4 DEF Range
  <2>6. adj[Last(p)] = <<>>
    <3>1. PICK s \in Seq(Linked) : s = adj[Last(p)]
      BY <2>3, LinkGraphFacts
    <3>2. s = <<>>
      <4> SUFFICES ASSUME s # <<>>
                   PROVE  FALSE
        OBVIOUS
      <4>1. Head(s) \in Range(s)
        BY HeadTailRange
      <4> QED
        BY <2>5, <3>1, <4>1
    <3> QED
      BY <3>1, <3>2
  <2> QED
    BY <2>1, <2>2, <2>6 DEF Straight
<1>2. ASSUME Straight(p, n)
      PROVE  p \in CallPaths(n)
  <2>1. /\ p \in Seq(Linked) /\ p # <<>> /\ p[1] = n /\ GoesOverLinks(p)
        /\ adj[Last(p)] = <<>>
    BY <1>2 DEF Straight
  <2>2. IsInjective(p)
    BY <2>1, WaysDoNotRepeat
  <2>3. Range(adj[Last(p)]) = {}
    BY <2>1, EmptySeq DEF Range
  <2>4. IsCallPath(p, n)
    BY <2>1, <2>2, <2>3 DEF IsCallPath, GoesOverLinks
  <2> QED
    BY <2>1, <2>2, <2>4, InjectiveIsShort DEF CallPaths
<1> QED
  BY <1>1, <1>2

(* A leaf has one.                                                         *)
LEMMA LeafHasOne ==
  ASSUME adj \in LinkGraphs, Acyclic, NEW n \in Linked, adj[n] = <<>>
  PROVE  Cardinality(CallPaths(n)) = 1
<1>1. ASSUME NEW p, Straight(p, n)
      PROVE  p = <<n>>
  <2>1. /\ p \in Seq(Linked) /\ p # <<>> /\ p[1] = n /\ GoesOverLinks(p)
    BY <1>1 DEF Straight
  <2>2. PICK l \in Nat : l = Len(p)
    BY <2>1, LenProperties
  <2>3. l # 0
    BY <2>1, <2>2, EmptySeq
  <2>4. l = 1
    <3> SUFFICES ASSUME l # 1
                 PROVE  FALSE
      OBVIOUS
    <3>1. 1 \in 1..(l - 1)
      BY <2>3
    <3>2. p[1 + 1] \in Range(adj[n])
      BY <2>1, <2>2, <3>1 DEF GoesOverLinks
    <3>3. Range(adj[n]) = {}
      BY EmptySeq DEF Range
    <3> QED
      BY <3>2, <3>3
  <2>5. p \in [1..1 -> Linked]
    BY <2>1, <2>2, <2>4, LenProperties
  <2> QED
    BY <2>1, <2>5
<1>2. Straight(<<n>>, n)
  <2>1. <<n>> \in Seq(Linked) /\ <<n>> # <<>> /\ <<n>>[1] = n /\ Len(<<n>>) = 1
    OBVIOUS
  <2>2. Last(<<n>>) = n
    BY <2>1 DEF Last
  <2>3. GoesOverLinks(<<n>>)
    BY <2>1 DEF GoesOverLinks
  <2> QED
    BY <2>1, <2>2, <2>3 DEF Straight
<1>3. CallPaths(n) = {<<n>>}
  BY <1>1, <1>2, CallPathsAreStraight
<1> QED
  BY <1>3, FS_Singleton

(* The call paths of n that go to k first, and to one of its first i - 1   *)
(* callees.                                                                *)
Turning(n, k) == {p \in CallPaths(n) : Len(p) >= 2 /\ p[2] = k}

Turned(n, i) ==
  {p \in CallPaths(n) : Len(p) >= 2 /\ \E j \in 1..(i - 1) : p[2] = adj[n][j]}

LEMMA TailIsStraight ==
  ASSUME NEW n, NEW k, NEW p, Straight(p, n), Len(p) >= 2, p[2] = k
  PROVE  Straight(Tail(p), k) /\ p = <<n>> \o Tail(p)
<1>1. /\ p \in Seq(Linked) /\ p # <<>> /\ p[1] = n /\ GoesOverLinks(p)
      /\ adj[Last(p)] = <<>>
  BY DEF Straight
<1>2. PICK l \in Nat : l = Len(p) /\ l >= 2
  BY <1>1, LenProperties
<1>3. PICK t : t = Tail(p)
  OBVIOUS
<1>4. /\ t \in Seq(Linked) /\ Len(t) = l - 1
      /\ \A i \in 1..(l - 1) : t[i] = p[i + 1]
  BY <1>1, <1>2, <1>3, HeadTailProperties
<1>5. 1 \in 1..(l - 1) /\ l - 1 \in 1..(l - 1) /\ 1 + 1 = 2 /\ (l - 1) + 1 = l
  BY <1>2
<1>6. t # <<>> /\ t[1] = k
  BY <1>2, <1>4, <1>5, EmptySeq
<1>7. GoesOverLinks(t)
  <2> SUFFICES ASSUME NEW i \in 1..(l - 1 - 1)
               PROVE  t[i + 1] \in Range(adj[t[i]])
    BY <1>4 DEF GoesOverLinks
  <2>1. i \in 1..(l - 1) /\ i + 1 \in 1..(l - 1)
    BY <1>2
  <2>2. t[i] = p[i + 1] /\ t[i + 1] = p[(i + 1) + 1]
    BY <1>4, <2>1
  <2>3. p[(i + 1) + 1] \in Range(adj[p[i + 1]])
    BY <1>1, <1>2, <2>1 DEF GoesOverLinks
  <2> QED
    BY <2>2, <2>3
<1>8. Last(t) = Last(p)
  BY <1>2, <1>4, <1>5 DEF Last
<1>9. p = <<n>> \o t
  <2>1. n \in Linked
    <3>1. 1 \in 1..l
      BY <1>2
    <3> QED
      BY <1>1, <1>2, <3>1, ElementOfSeq
  <2>2. PICK h \in Seq(Linked) : h = <<n>> /\ Len(h) = 1 /\ h[1] = n
    <3>1. <<n>> \in Seq(Linked) /\ Len(<<n>>) = 1 /\ <<n>>[1] = n
      BY <2>1
    <3> QED
      BY <3>1
  <2>3. PICK q : q = h \o t
    OBVIOUS
  <2>4. /\ q \in Seq(Linked) /\ Len(q) = 1 + (l - 1)
        /\ \A i \in 1..(1 + (l - 1)) : q[i] = IF i <= 1 THEN h[i] ELSE t[i - 1]
    BY <1>4, <2>2, <2>3, ConcatProperties
  <2>5. Len(q) = l
    BY <1>2, <2>4
  <2>6. ASSUME NEW i \in 1..l
        PROVE  q[i] = p[i]
    <3>1. i \in 1..(1 + (l - 1))
      BY <1>2
    <3>2. CASE i = 1
      BY <1>1, <2>2, <2>4, <3>1, <3>2
    <3>3. CASE i # 1
      <4>1. ~(i <= 1) /\ i - 1 \in 1..(l - 1) /\ (i - 1) + 1 = i
        BY <1>2, <3>3
      <4>2. q[i] = t[i - 1]
        BY <2>4, <3>1, <4>1
      <4>3. t[i - 1] = p[(i - 1) + 1]
        BY <1>4, <4>1
      <4> QED
        BY <4>1, <4>2, <4>3
    <3> QED
      BY <3>2, <3>3
  <2>7. q = p
    BY <1>1, <1>2, <2>4, <2>5, <2>6, SeqEqual
  <2> QED
    BY <2>2, <2>3, <2>7
<1> QED
  BY <1>1, <1>3, <1>4, <1>6, <1>7, <1>8, <1>9 DEF Straight

LEMMA StraightOnward ==
  ASSUME NEW n \in Linked, NEW k \in Range(adj[n]), NEW t, Straight(t, k)
  PROVE  /\ Straight(<<n>> \o t, n) /\ Len(<<n>> \o t) >= 2 /\ (<<n>> \o t)[2] = k
         /\ Tail(<<n>> \o t) = t
<1>1. /\ t \in Seq(Linked) /\ t # <<>> /\ t[1] = k /\ GoesOverLinks(t)
      /\ adj[Last(t)] = <<>>
  BY DEF Straight
<1>2. PICK l \in Nat : l = Len(t)
  BY <1>1, LenProperties
<1>3. l # 0
  BY <1>1, <1>2, EmptySeq
<1>4. PICK h \in Seq(Linked) : h = <<n>> /\ Len(h) = 1 /\ h[1] = n
  <2>1. <<n>> \in Seq(Linked) /\ Len(<<n>>) = 1 /\ <<n>>[1] = n
    OBVIOUS
  <2> QED
    BY <2>1
<1>5. PICK p : p = h \o t
  OBVIOUS
<1>6. /\ p \in Seq(Linked) /\ Len(p) = 1 + l
      /\ \A i \in 1..(1 + l) : p[i] = IF i <= 1 THEN h[i] ELSE t[i - 1]
  BY <1>1, <1>2, <1>4, <1>5, ConcatProperties
<1>7. p[1] = n
  <2>1. 1 \in 1..(1 + l) /\ 1 <= 1
    BY <1>2
  <2> QED
    BY <1>4, <1>6, <2>1
<1>8. ASSUME NEW i \in 1..l
      PROVE  p[i + 1] = t[i]
  <2>1. i + 1 \in 1..(1 + l) /\ ~(i + 1 <= 1) /\ (i + 1) - 1 = i
    OBVIOUS
  <2>2. p[i + 1] = t[(i + 1) - 1]
    BY <1>6, <2>1
  <2> QED
    BY <2>1, <2>2
<1>9. p # <<>> /\ Len(p) >= 2 /\ p[2] = k
  <2>1. 1 \in 1..l /\ 1 + 1 = 2 /\ 1 + l >= 2
    BY <1>3
  <2>2. p[1 + 1] = t[1]
    BY <1>8, <2>1
  <2> QED
    BY <1>1, <1>2, <1>6, <2>1, <2>2, EmptySeq
<1>10. GoesOverLinks(p)
  <2> SUFFICES ASSUME NEW i \in 1..(1 + l - 1)
               PROVE  p[i + 1] \in Range(adj[p[i]])
    BY <1>6 DEF GoesOverLinks
  <2>1. i \in 1..l
    BY <1>2
  <2>2. CASE i = 1
    BY <1>1, <1>7, <1>8, <2>1, <2>2
  <2>3. CASE i # 1
    <3>1. i - 1 \in 1..l /\ (i - 1) + 1 = i /\ i - 1 \in 1..(l - 1)
      BY <2>1, <2>3
    <3>2. p[i + 1] = t[i] /\ p[(i - 1) + 1] = t[i - 1]
      BY <1>8, <2>1, <3>1
    <3>3. t[(i - 1) + 1] \in Range(adj[t[i - 1]])
      BY <1>1, <1>2, <3>1 DEF GoesOverLinks
    <3> QED
      BY <3>1, <3>2, <3>3
  <2> QED
    BY <2>2, <2>3
<1>11. Last(p) = Last(t)
  <2>1. l \in 1..l /\ 1 + l = l + 1
    BY <1>3
  <2>2. p[l + 1] = t[l]
    BY <1>8, <2>1
  <2> QED
    BY <1>2, <1>6, <2>1, <2>2 DEF Last
<1>12. Tail(p) = t
  <2>1. PICK r : r = Tail(p)
    OBVIOUS
  <2>2. /\ r \in Seq(Linked) /\ Len(r) = Len(p) - 1
        /\ \A i \in 1..Len(r) : r[i] = p[i + 1]
    BY <1>6, <1>9, <2>1, HeadTailProperties
  <2>3. Len(r) = l
    BY <1>2, <1>6, <2>2
  <2>4. \A i \in 1..Len(r) : r[i] = t[i]
    BY <1>8, <2>2, <2>3
  <2>5. r = t
    BY <1>1, <1>2, <2>2, <2>3, <2>4, SeqEqual
  <2> QED
    BY <2>1, <2>5
<1> QED
  BY <1>1, <1>4, <1>5, <1>6, <1>7, <1>9, <1>10, <1>11, <1>12 DEF Straight

(* A callee has as many as go to it first.                                 *)
LEMMA TurningHasAsMany ==
  ASSUME adj \in LinkGraphs, Acyclic, NEW n \in Linked, NEW k \in Range(adj[n])
  PROVE  /\ IsFiniteSet(Turning(n, k))
         /\ Cardinality(Turning(n, k)) = Cardinality(CallPaths(k))
<1>1. k \in Linked
  BY LinkGraphFacts
<1>2. PICK rest : rest = [p \in Turning(n, k) |-> Tail(p)]
  OBVIOUS
<1>3. ASSUME NEW p \in Turning(n, k)
      PROVE  rest[p] \in CallPaths(k) /\ p = <<n>> \o rest[p]
  <2>1. p \in CallPaths(n) /\ Len(p) >= 2 /\ p[2] = k
    BY <1>3 DEF Turning
  <2>2. Straight(p, n)
    BY <2>1, CallPathsAreStraight
  <2>3. Straight(Tail(p), k) /\ p = <<n>> \o Tail(p)
    BY <2>1, <2>2, TailIsStraight
  <2> QED
    BY <1>1, <1>2, <1>3, <2>3, CallPathsAreStraight
<1>4. ASSUME NEW t \in CallPaths(k)
      PROVE  \E p \in Turning(n, k) : rest[p] = t
  <2>1. Straight(t, k)
    BY <1>1, <1>4, CallPathsAreStraight
  <2>2. PICK p : p = <<n>> \o t
    OBVIOUS
  <2>3. Straight(p, n) /\ Len(p) >= 2 /\ p[2] = k /\ Tail(p) = t
    BY <2>1, <2>2, StraightOnward
  <2>4. p \in Turning(n, k)
    BY <2>3, CallPathsAreStraight DEF Turning
  <2> QED
    BY <1>2, <2>3, <2>4
<1>5. rest \in [Turning(n, k) -> CallPaths(k)]
  BY <1>2, <1>3
<1>6. \A p, q \in Turning(n, k) : rest[p] = rest[q] => p = q
  BY <1>3
<1>7. rest \in Injection(Turning(n, k), CallPaths(k))
  BY <1>5, <1>6 DEF Injection, IsInjective
<1>8. rest \in Surjection(Turning(n, k), CallPaths(k))
  BY <1>4, <1>5 DEF Surjection
<1>9. IsFiniteSet(CallPaths(k))
  BY CallPathsFinite
<1> QED
  BY <1>7, <1>8, <1>9, FS_Injection

Ways(n) == Cardinality(CallPaths(n))

LEMMA CalleeHasFewer ==
  ASSUME adj \in LinkGraphs, Acyclic, NEW n \in Linked, NEW k \in Range(adj[n])
  PROVE  Ways(k) <= Ways(n)
<1>1. Turning(n, k) \in SUBSET CallPaths(n) /\ IsFiniteSet(CallPaths(n))
  BY CallPathsFinite DEF Turning
<1>2. Cardinality(Turning(n, k)) <= Cardinality(CallPaths(n))
  BY <1>1, FS_Subset
<1> QED
  BY <1>2, TurningHasAsMany DEF Ways

(* A callee's call paths go on from n.                                     *)
LEMMA EachHasOne ==
  ASSUME adj \in LinkGraphs, Acyclic, NEW n \in Linked
  PROVE  Ways(n) \in Nat /\ Ways(n) >= 1
<1>1. PICK S : S = {m \in Linked : CallPaths(m) = {}}
  OBVIOUS
<1>2. S = {}
  <2> SUFFICES ASSUME S # {}
               PROVE  FALSE
    OBVIOUS
  <2>1. S \in SUBSET Linked
    BY <1>1
  <2>2. PICK m \in S : Range(adj[m]) \intersect S = {}
    BY <2>1 DEF Acyclic
  <2>3. m \in Linked /\ CallPaths(m) = {}
    BY <1>1
  <2>4. CASE adj[m] = <<>>
    <3>1. Cardinality(CallPaths(m)) = 1
      BY <2>3, <2>4, LeafHasOne
    <3> QED
      BY <2>3, <3>1, FS_EmptySet
  <2>5. CASE adj[m] # <<>>
    <3>1. PICK k : k \in Range(adj[m])
      <4>1. PICK s \in Seq(Linked) : s = adj[m]
        BY <2>3, LinkGraphFacts
      <4>2. Head(s) \in Range(s)
        BY <2>5, <4>1, HeadTailRange
      <4> QED
        BY <4>1, <4>2
    <3>2. k \in Linked /\ k \notin S
      BY <2>2, <2>3, <3>1, LinkGraphFacts
    <3>3. CallPaths(k) # {}
      BY <1>1, <3>2
    <3>4. PICK t : t \in CallPaths(k)
      BY <3>3
    <3>5. Straight(t, k)
      BY <3>2, <3>4, CallPathsAreStraight
    <3>6. Straight(<<m>> \o t, m)
      BY <2>3, <3>1, <3>5, StraightOnward
    <3> QED
      BY <2>3, <3>6, CallPathsAreStraight
  <2> QED
    BY <2>4, <2>5
<1>3. CallPaths(n) # {}
  BY <1>1, <1>2
<1>4. IsFiniteSet(CallPaths(n)) /\ Cardinality(CallPaths(n)) \in Nat
  BY CallPathsFinite
<1>5. Cardinality(CallPaths(n)) # 0
  BY <1>3, <1>4, FS_EmptySet
<1> QED
  BY <1>4, <1>5 DEF Ways

(* Those that go to the callees one after the other.                       *)
LEMMA TurnedFacts ==
  ASSUME NEW n \in Linked, NEW i \in Nat
  PROVE  /\ IsFiniteSet(Turned(n, i)) /\ Cardinality(Turned(n, i)) \in Nat
         /\ Cardinality(Turned(n, i)) <= Ways(n)
<1>1. Turned(n, i) \in SUBSET CallPaths(n) /\ IsFiniteSet(CallPaths(n))
  BY CallPathsFinite DEF Turned
<1> QED
  BY <1>1, FS_Subset, FS_CardinalityType DEF Ways

LEMMA NoneTurnedFirst ==
  ASSUME NEW n \in Linked
  PROVE  Cardinality(Turned(n, 1)) = 0
<1>1. Turned(n, 1) = {}
  BY DEF Turned
<1> QED
  BY <1>1, FS_EmptySet

LEMMA NextTurns ==
  ASSUME adj \in LinkGraphs, Acyclic, NEW n \in Linked, NEW i \in 1..Len(adj[n])
  PROVE  Cardinality(Turned(n, i + 1)) = Cardinality(Turned(n, i)) + Ways(adj[n][i])
<1>1. PICK l \in Nat : l = Len(adj[n]) /\ DOMAIN adj[n] = 1..l
  BY LinkGraphFacts
<1>2. i \in 1..l /\ i \in Nat
  BY <1>1
<1>3. PICK k : k = adj[n][i]
  OBVIOUS
<1>4. k \in Range(adj[n]) /\ \A j \in 1..(i - 1) : adj[n][j] # k
  <2>1. IsInjective(adj[n])
    BY LinkGraphFacts
  <2>2. \A j \in 1..(i - 1) : j \in 1..l /\ j # i
    BY <1>2
  <2> QED
    BY <1>1, <1>2, <1>3, <2>1, <2>2 DEF Range, IsInjective
<1>5. Turned(n, i + 1) = Turned(n, i) \union Turning(n, k)
  <2>1. \A j : j \in 1..((i + 1) - 1) <=> j \in 1..(i - 1) \/ j = i
    BY <1>2
  <2> QED
    BY <1>3, <2>1 DEF Turned, Turning
<1>6. Turned(n, i) \intersect Turning(n, k) = {}
  BY <1>4 DEF Turned, Turning
<1>7. IsFiniteSet(Turned(n, i)) /\ Cardinality(Turned(n, i)) \in Nat
  BY <1>2, TurnedFacts
<1>8. IsFiniteSet(Turning(n, k)) /\ Cardinality(Turning(n, k)) = Ways(k)
  BY <1>4, TurningHasAsMany DEF Ways
<1>9. /\ Cardinality(Turned(n, i) \union Turning(n, k))
           = Cardinality(Turned(n, i)) + Cardinality(Turning(n, k))
             - Cardinality(Turned(n, i) \intersect Turning(n, k))
      /\ Cardinality(Turned(n, i) \intersect Turning(n, k)) = 0
  BY <1>6, <1>7, <1>8, FS_Union, FS_EmptySet
<1>10. Ways(k) \in Nat
  <2>1. k \in Linked
    BY <1>4, LinkGraphFacts
  <2> QED
    BY <2>1, CallPathsFinite DEF Ways
<1>11. PICK a, b \in Nat : a = Cardinality(Turned(n, i)) /\ b = Ways(k)
  BY <1>7, <1>10
<1>12. Cardinality(Turned(n, i + 1)) = a + b - 0
  BY <1>5, <1>8, <1>9, <1>11
<1>13. a + b - 0 = a + b
  OBVIOUS
<1> QED
  BY <1>3, <1>11, <1>12, <1>13

LEMMA AllTurned ==
  ASSUME adj \in LinkGraphs, NEW n \in Linked, Acyclic, adj[n] # <<>>
  PROVE  Cardinality(Turned(n, Len(adj[n]) + 1)) = Ways(n)
<1>1. PICK l \in Nat : l = Len(adj[n]) /\ DOMAIN adj[n] = 1..l
  BY LinkGraphFacts
<1>2. ASSUME NEW p \in CallPaths(n)
      PROVE  Len(p) >= 2 /\ \E j \in 1..l : p[2] = adj[n][j]
  <2>1. Straight(p, n)
    BY <1>2, CallPathsAreStraight
  <2>2. /\ p \in Seq(Linked) /\ p # <<>> /\ p[1] = n /\ GoesOverLinks(p)
        /\ adj[Last(p)] = <<>>
    BY <2>1 DEF Straight
  <2>3. PICK m \in Nat : m = Len(p)
    BY <2>2, LenProperties
  <2>4. m # 0
    BY <2>2, <2>3, EmptySeq
  <2>5. m # 1
    <3> SUFFICES ASSUME m = 1
                 PROVE  FALSE
      OBVIOUS
    <3>1. Last(p) = n
      BY <2>2, <2>3 DEF Last
    <3> QED
      BY <2>2, <3>1
  <2>6. 1 \in 1..(m - 1) /\ 1 + 1 = 2 /\ m >= 2
    BY <2>4, <2>5
  <2>7. p[1 + 1] \in Range(adj[p[1]])
    BY <2>2, <2>3, <2>6 DEF GoesOverLinks
  <2>8. p[2] \in Range(adj[n])
    BY <2>2, <2>6, <2>7
  <2> QED
    BY <1>1, <2>3, <2>6, <2>8 DEF Range
<1>3. 1..((l + 1) - 1) = 1..l
  BY <1>1
<1>4. Turned(n, l + 1) = CallPaths(n)
  BY <1>2, <1>3 DEF Turned
<1> QED
  BY <1>1, <1>4 DEF Ways

-----------------------------------------------------------------------------
(* countPaths without recursion: the functions on the stack are a way from *)
(* the handler, and the sum of each is the number of call paths that turn  *)
(* to the callees it has been through.                                     *)

CountCalls == [fn : Linked, next : Nat \ {0}, sum : Nat]

OnStack(calls) ==
  /\ calls \in Seq(CountCalls)
  /\ calls # <<>> => calls[1].fn = handler
  /\ \A i \in DOMAIN calls :
       /\ adj[calls[i].fn] # <<>>
       /\ calls[i].next <= Len(adj[calls[i].fn]) + 1
       /\ Ways(calls[i].fn) <= Ways(handler)
  /\ \A i \in 1..(Len(calls) - 1) :
       /\ calls[i].next <= Len(adj[calls[i].fn])
       /\ adj[calls[i].fn][calls[i].next] = calls[i + 1].fn

SumsAreRight(calls) ==
  \A i \in DOMAIN calls :
    /\ calls[i].sum = Cardinality(Turned(calls[i].fn, calls[i].next))
    /\ calls[i].sum < caps.count

StopsAtLimit(calls) ==
  /\ calls # <<>> =>
       /\ Last(calls).sum = caps.count
       /\ Last(calls).next = Len(adj[Last(calls).fn]) + 1
  /\ Ways(handler) >= caps.count

KnowsWays(known) ==
  /\ DOMAIN known \subseteq Linked
  /\ \A m \in DOMAIN known : known[m] = Ways(m) /\ known[m] < caps.count

CountsRight(calls, known, over, result) ==
  /\ KnowsWays(known)
  /\ OnStack(calls)
  /\ over \in BOOLEAN
  /\ ~over => SumsAreRight(calls)
  /\ over => StopsAtLimit(calls)
  /\ result = 0 /\ calls = <<>> => ~over
  /\ result # 0 =>
       /\ calls = <<>>
       /\ result = AtMost(Ways(handler), caps.count)
       /\ over <=> Ways(handler) >= caps.count

CountInv ==
  /\ adj \in LinkGraphs /\ handler \in Handlers /\ caps \in PathLimits
  /\ Acyclic => CountsRight(frames, memo, truncated, counted)

LEMMA CountHolds ==
  ASSUME adj \in LinkGraphs, handler \in Handlers, caps \in PathLimits,
         UNCHANGED givenVars,
         Acyclic => CountsRight(frames', memo', truncated', counted')
  PROVE  CountInv'
<1>1. adj' = adj /\ handler' = handler /\ caps' = caps
  BY DEF givenVars
<1>2. PICK calls, known, over, result :
        calls = frames' /\ known = memo' /\ over = truncated' /\ result = counted'
  OBVIOUS
<1>3. Acyclic' = Acyclic
  BY <1>1 DEF Acyclic
<1>4. \A n : CallPaths(n)' = CallPaths(n)
  BY <1>1 DEF CallPaths, IsCallPath
<1>5. \A n : Ways(n)' = Ways(n)
  BY <1>4 DEF Ways
<1>6. \A n, i : Turned(n, i)' = Turned(n, i)
  BY <1>1, <1>4 DEF Turned
<1>7. KnowsWays(known)' = KnowsWays(known)
  BY <1>1, <1>5 DEF KnowsWays
<1>8. OnStack(calls)' = OnStack(calls)
  BY <1>1, <1>5 DEF OnStack
<1>9. SumsAreRight(calls)' = SumsAreRight(calls)
  BY <1>1, <1>6 DEF SumsAreRight
<1>10. StopsAtLimit(calls)' = StopsAtLimit(calls)
  BY <1>1, <1>5 DEF StopsAtLimit
<1>11. ASSUME CountsRight(calls, known, over, result)
       PROVE  CountsRight(calls, known, over, result)'
  BY <1>1, <1>5, <1>7, <1>8, <1>9, <1>10, <1>11 DEF CountsRight
<1>12. CountsRight(frames, memo, truncated, counted)' = CountsRight(calls, known, over, result)'
  BY <1>2 DEF CountsRight, KnowsWays, OnStack, SumsAreRight, StopsAtLimit
<1> QED
  BY <1>1, <1>2, <1>3, <1>11, <1>12 DEF CountInv

LEMMA CountInitial == PathsInit => CountInv
<1> SUFFICES ASSUME PathsInit
             PROVE  CountInv
  OBVIOUS
<1>1. /\ adj \in LinkGraphs /\ handler \in Handlers /\ caps \in PathLimits
      /\ frames = <<>> /\ memo = <<>> /\ truncated = FALSE /\ counted = 0
  BY DEF PathsInit, NoPathsYet
<1>2. <<>> \in Seq(CountCalls) /\ Len(<<>>) = 0 /\ DOMAIN <<>> = {} /\ 1..(0 - 1) = {}
  BY EmptySeq
<1>3. KnowsWays(memo)
  BY <1>1, <1>2 DEF KnowsWays
<1>4. OnStack(frames)
  BY <1>1, <1>2 DEF OnStack
<1>5. SumsAreRight(frames)
  BY <1>1, <1>2 DEF SumsAreRight
<1> QED
  BY <1>1, <1>3, <1>4, <1>5 DEF CountInv, CountsRight

LEMMA ChangesTop ==
  ASSUME NEW S, NEW calls \in Seq(S), calls # <<>>, NEW g \in S
  PROVE  LET new == [calls EXCEPT ![Len(calls)] = g]
         IN  /\ new \in Seq(S) /\ Len(new) = Len(calls) /\ DOMAIN new = DOMAIN calls
             /\ Last(new) = g /\ new # <<>> /\ new[Len(calls)] = g
             /\ \A i \in DOMAIN calls : i # Len(calls) => new[i] = calls[i]
<1>1. PICK l \in Nat : l = Len(calls) /\ l # 0 /\ DOMAIN calls = 1..l
  BY FrontFacts
<1>2. PICK new : new = [calls EXCEPT ![l] = g]
  OBVIOUS
<1>3. calls \in [1..l -> S] /\ l \in 1..l
  BY <1>1, LenProperties
<1>4. new \in [1..l -> S]
  BY <1>2, <1>3
<1>5. new \in Seq(S)
  BY <1>4, SeqDef
<1>6. Len(new) = l
  <2>1. Len(new) \in Nat /\ DOMAIN new = 1..Len(new)
    BY <1>5, LenProperties
  <2> QED
    BY <1>4, <2>1
<1>7. new # <<>>
  BY <1>1, <1>6, EmptySeq
<1>8. new[l] = g /\ \A i \in 1..l : i # l => new[i] = calls[i]
  BY <1>2, <1>3
<1>9. Last(new) = g
  BY <1>6, <1>8 DEF Last
<1> QED
  BY <1>1, <1>2, <1>4, <1>5, <1>6, <1>7, <1>8, <1>9

LEMMA OnStackStays ==
  ASSUME NEW calls, OnStack(calls), calls # <<>>, NEW g \in CountCalls,
         g.fn = Last(calls).fn, g.next <= Len(adj[g.fn]) + 1
  PROVE  OnStack([calls EXCEPT ![Len(calls)] = g])
<1>1. calls \in Seq(CountCalls)
  BY DEF OnStack
<1>2. PICK l \in Nat : l = Len(calls) /\ l # 0 /\ DOMAIN calls = 1..l /\ Last(calls) = calls[l]
  BY <1>1, FrontFacts
<1>3. PICK new : new = [calls EXCEPT ![l] = g]
  OBVIOUS
<1>4. /\ new \in Seq(CountCalls) /\ Len(new) = l /\ DOMAIN new = 1..l
      /\ new[l] = g
      /\ \A i \in 1..l : i # l => new[i] = calls[i]
  BY <1>1, <1>2, <1>3, ChangesTop
<1>5. \A i \in 1..l : new[i].fn = calls[i].fn
  BY <1>2, <1>4
<1>6. new # <<>> => new[1].fn = handler
  <2>1. 1 \in 1..l
    BY <1>2
  <2> QED
    BY <1>5, <2>1 DEF OnStack
<1>7. ASSUME NEW i \in 1..l
      PROVE  /\ adj[new[i].fn] # <<>>
             /\ new[i].next <= Len(adj[new[i].fn]) + 1
             /\ Ways(new[i].fn) <= Ways(handler)
  <2>1. /\ adj[calls[i].fn] # <<>>
        /\ calls[i].next <= Len(adj[calls[i].fn]) + 1
        /\ Ways(calls[i].fn) <= Ways(handler)
    BY <1>2 DEF OnStack
  <2>2. CASE i = l
    BY <1>2, <1>4, <2>1, <2>2
  <2>3. CASE i # l
    BY <1>4, <2>1, <2>3
  <2> QED
    BY <2>2, <2>3
<1>8. ASSUME NEW i \in 1..(l - 1)
      PROVE  /\ new[i].next <= Len(adj[new[i].fn])
             /\ adj[new[i].fn][new[i].next] = new[i + 1].fn
  <2>1. i \in 1..l /\ i # l /\ i + 1 \in 1..l
    BY <1>2
  <2>2. /\ calls[i].next <= Len(adj[calls[i].fn])
        /\ adj[calls[i].fn][calls[i].next] = calls[i + 1].fn
    BY <1>2 DEF OnStack
  <2>3. new[i] = calls[i] /\ new[i + 1].fn = calls[i + 1].fn
    BY <1>4, <1>5, <2>1
  <2> QED
    BY <2>2, <2>3
<1> QED
  BY <1>2, <1>3, <1>4, <1>6, <1>7, <1>8 DEF OnStack

LEMMA LimitFacts ==
  ASSUME caps \in PathLimits
  PROVE  caps.count \in Nat /\ caps.count >= 2
BY PathLimitsAssumption

LEMMA StackFacts ==
  ASSUME NEW calls, OnStack(calls), calls # <<>>
  PROVE  /\ Len(calls) \in Nat /\ Len(calls) # 0 /\ DOMAIN calls = 1..Len(calls)
         /\ Last(calls) = calls[Len(calls)] /\ Last(calls) \in CountCalls
         /\ Last(calls).fn \in Linked /\ Last(calls).sum \in Nat
         /\ Last(calls).next \in Nat \ {0}
         /\ adj[Last(calls).fn] # <<>>
         /\ Last(calls).next <= Len(adj[Last(calls).fn]) + 1
         /\ Ways(Last(calls).fn) <= Ways(handler)
<1>1. calls \in Seq(CountCalls)
  BY DEF OnStack
<1>2. /\ Len(calls) \in Nat /\ Len(calls) # 0 /\ DOMAIN calls = 1..Len(calls)
      /\ Last(calls) = calls[Len(calls)] /\ Last(calls) \in CountCalls
      /\ Len(calls) \in DOMAIN calls
  BY <1>1, FrontFacts
<1>3. /\ adj[Last(calls).fn] # <<>>
      /\ Last(calls).next <= Len(adj[Last(calls).fn]) + 1
      /\ Ways(Last(calls).fn) <= Ways(handler)
  BY <1>2 DEF OnStack
<1> QED
  BY <1>2, <1>3 DEF CountCalls

(* v is added for the callee the function on top is at: its number of call *)
(* paths, or the limit, once that is reached.                              *)
AddsRight(calls, v, over) ==
  /\ OnStack(calls) /\ calls # <<>>
  /\ Last(calls).next <= Len(adj[Last(calls).fn])
  /\ v \in Nat /\ over \in BOOLEAN
  /\ ~over => SumsAreRight(calls) /\ v = Ways(adj[Last(calls).fn][Last(calls).next])
  /\ over => v = caps.count /\ Ways(handler) >= caps.count

LEMMA AddedFacts ==
  ASSUME adj \in LinkGraphs, handler \in Handlers, caps \in PathLimits, Acyclic,
         NEW calls, NEW v, NEW over, AddsRight(calls, v, over),
         NEW known, KnowsWays(known)
  PROVE  /\ Reaches(Last(calls).sum + v) =>
              CountsRight([calls EXCEPT ![Len(calls)] = Added(@, v)], known, TRUE, 0)
         /\ ~Reaches(Last(calls).sum + v) =>
              ~over /\ CountsRight([calls EXCEPT ![Len(calls)] = Added(@, v)], known, FALSE, 0)
<1>1. /\ OnStack(calls) /\ calls # <<>>
      /\ Last(calls).next <= Len(adj[Last(calls).fn])
      /\ v \in Nat /\ over \in BOOLEAN
  BY DEF AddsRight
<1>2. PICK l \in Nat : l = Len(calls) /\ l # 0
  BY <1>1, StackFacts
<1>3. PICK f : f = calls[l] /\ f = Last(calls)
  BY <1>1, <1>2, StackFacts
<1>4. PICK n : n = f.fn
  OBVIOUS
<1>5. PICK i : i = f.next
  OBVIOUS
<1>6. PICK s : s = f.sum
  OBVIOUS
<1>7. /\ f \in CountCalls /\ n \in Linked /\ s \in Nat /\ i \in Nat \ {0}
      /\ Ways(n) <= Ways(handler) /\ DOMAIN calls = 1..l
  BY <1>1, <1>2, <1>3, <1>4, <1>5, <1>6, StackFacts
<1>8. PICK m \in Nat : m = Len(adj[n])
  BY <1>7, LinkGraphFacts
<1>9. i \in 1..m /\ i + 1 <= m + 1 /\ i + 1 \in Nat \ {0} /\ m + 1 \in Nat \ {0}
  BY <1>1, <1>3, <1>4, <1>5, <1>7, <1>8
<1>10. PICK c \in Nat : c = caps.count /\ c >= 2
  BY LimitFacts
<1>11. PICK g : g = Added(f, v)
  OBVIOUS
<1>12. PICK new : new = [calls EXCEPT ![l] = g]
  OBVIOUS
<1>13. new = [calls EXCEPT ![Len(calls)] = Added(@, v)]
  BY <1>2, <1>3, <1>11, <1>12
<1>14. CASE s + v >= c
  <2>1. g = [f EXCEPT !.sum = c, !.next = m + 1]
    BY <1>4, <1>6, <1>8, <1>10, <1>11, <1>14 DEF Added, Reaches
  <2>2. g \in CountCalls /\ g.fn = n /\ g.sum = c /\ g.next = m + 1
    BY <1>4, <1>7, <1>9, <2>1 DEF CountCalls
  <2>3. g.next <= m + 1
    BY <1>8, <2>2
  <2>4. Ways(handler) >= c
    <3>1. CASE over
      BY <1>10, <3>1 DEF AddsRight
    <3>2. CASE ~over
      <4>1. s = Cardinality(Turned(n, i)) /\ v = Ways(adj[n][i])
        <5>1. SumsAreRight(calls) /\ v = Ways(adj[n][i])
          BY <1>3, <1>4, <1>5, <3>2 DEF AddsRight
        <5>2. l \in DOMAIN calls
          BY <1>2, <1>7
        <5> QED
          BY <1>3, <1>4, <1>5, <1>6, <5>1, <5>2 DEF SumsAreRight
      <4>2. Cardinality(Turned(n, i + 1)) = s + v
        BY <1>7, <1>8, <1>9, <4>1, NextTurns
      <4>3. Cardinality(Turned(n, i + 1)) <= Ways(n)
        BY <1>7, <1>9, TurnedFacts
      <4>4. PICK w, h \in Nat : w = Ways(n) /\ h = Ways(handler)
        BY <1>7, CallPathsFinite DEF Ways
      <4> QED
        BY <1>1, <1>7, <1>10, <1>14, <4>2, <4>3, <4>4
    <3> QED
      BY <1>1, <3>1, <3>2
  <2>5. OnStack(new)
    BY <1>1, <1>2, <1>3, <1>4, <1>7, <1>8, <1>12, <2>2, <2>3, OnStackStays
  <2>6. Last(new) = g
    <3>1. calls \in Seq(CountCalls) /\ calls # <<>> /\ g \in CountCalls
      BY <1>1, <2>2 DEF OnStack
    <3>2. Last([calls EXCEPT ![Len(calls)] = g]) = g
      BY <3>1, ChangesTop
    <3> QED
      BY <1>2, <1>12, <3>2
  <2>7. StopsAtLimit(new)
    BY <1>8, <1>10, <2>2, <2>4, <2>6 DEF StopsAtLimit
  <2>8. Reaches(Last(calls).sum + v)
    BY <1>3, <1>6, <1>10, <1>14 DEF Reaches
  <2>9. new # <<>>
    BY <1>1, <1>2, <1>7, <1>12, <2>2, ChangesTop
  <2>10. CountsRight(new, known, TRUE, 0)
    BY <2>5, <2>7, <2>9 DEF CountsRight
  <2> QED
    BY <1>13, <2>8, <2>10
<1>15. CASE ~(s + v >= c)
  <2>1. g = [f EXCEPT !.sum = s + v, !.next = i + 1]
    BY <1>5, <1>6, <1>10, <1>11, <1>15 DEF Added, Reaches
  <2>2. g \in CountCalls /\ g.fn = n /\ g.sum = s + v /\ g.next = i + 1
    <3>1. s + v \in Nat
      BY <1>1, <1>7
    <3> QED
      BY <1>4, <1>7, <1>9, <2>1, <3>1 DEF CountCalls
  <2>3. g.next <= m + 1
    BY <1>9, <2>2
  <2>4. ~over
    <3> SUFFICES ASSUME over
                 PROVE  FALSE
      OBVIOUS
    <3>1. v = c
      BY <1>10 DEF AddsRight
    <3> QED
      BY <1>7, <1>10, <1>15, <3>1
  <2>5. OnStack(new)
    BY <1>1, <1>2, <1>3, <1>4, <1>7, <1>8, <1>12, <2>2, <2>3, OnStackStays
  <2>6. SumsAreRight(calls) /\ v = Ways(adj[n][i])
    BY <1>3, <1>4, <1>5, <2>4 DEF AddsRight
  <2>7. g.sum = Cardinality(Turned(g.fn, g.next)) /\ g.sum < caps.count
    <3>1. l \in DOMAIN calls
      BY <1>2, <1>7
    <3>2. s = Cardinality(Turned(n, i))
      BY <1>3, <1>4, <1>5, <1>6, <2>6, <3>1 DEF SumsAreRight
    <3>3. Cardinality(Turned(n, i + 1)) = s + v
      BY <1>7, <1>8, <1>9, <2>6, <3>2, NextTurns
    <3>4. s + v < c
      BY <1>1, <1>7, <1>10, <1>15
    <3> QED
      BY <1>10, <2>2, <3>3, <3>4
  <2>8. SumsAreRight(new)
    <3> SUFFICES ASSUME NEW j \in 1..l
                 PROVE  /\ new[j].sum = Cardinality(Turned(new[j].fn, new[j].next))
                        /\ new[j].sum < caps.count
      BY <1>7, <1>12 DEF SumsAreRight
    <3>1. CASE j = l
      BY <1>2, <1>7, <1>12, <2>7, <3>1
    <3>2. CASE j # l
      <4>1. new[j] = calls[j]
        BY <1>7, <1>12, <3>2
      <4> QED
        BY <1>7, <2>6, <4>1 DEF SumsAreRight
    <3> QED
      BY <3>1, <3>2
  <2>9. new # <<>>
    BY <1>1, <1>2, <1>7, <1>12, <2>2, ChangesTop
  <2>10. CountsRight(new, known, FALSE, 0)
    BY <2>5, <2>8, <2>9 DEF CountsRight
  <2>11. ~Reaches(Last(calls).sum + v)
    BY <1>3, <1>6, <1>10, <1>15 DEF Reaches
  <2> QED
    BY <1>13, <2>4, <2>10, <2>11
<1> QED
  BY <1>14, <1>15

LEMMA StartCountKeeps == CountInv /\ StartCount => CountInv'
<1> SUFFICES ASSUME CountInv, StartCount
             PROVE  CountInv'
  OBVIOUS
<1>1. /\ adj \in LinkGraphs /\ handler \in Handlers /\ caps \in PathLimits
      /\ handler \in Linked
  BY LinkedAssumption DEF CountInv
<1>2. /\ counted = 0 /\ frames = <<>> /\ memo' = memo /\ truncated' = truncated
      /\ UNCHANGED givenVars
  BY DEF StartCount
<1>3. ASSUME Acyclic
      PROVE  CountsRight(frames', memo', truncated', counted')
  <2>1. KnowsWays(memo) /\ OnStack(frames) /\ truncated = FALSE
    BY <1>2, <1>3 DEF CountInv, CountsRight
  <2>2. PICK c \in Nat : c = caps.count /\ c >= 2
    BY <1>1, LimitFacts
  <2>3. PICK w \in Nat : w = Ways(handler) /\ w >= 1
    BY <1>1, <1>3, EachHasOne
  <2>4. CASE HasCount(handler)
    <3>1. counted' = Value(handler) /\ frames' = frames
      BY <2>4 DEF StartCount
    <3>2. Value(handler) = w /\ w < c
      <4>1. CASE handler \in DOMAIN memo
        BY <2>1, <2>2, <2>3, <4>1 DEF Value, KnowsWays
      <4>2. CASE handler \notin DOMAIN memo
        <5>1. Value(handler) = 1 /\ adj[handler] = <<>>
          BY <2>4, <4>2 DEF Value, HasCount
        <5>2. Ways(handler) = 1
          BY <1>1, <1>3, <5>1, LeafHasOne DEF Ways
        <5> QED
          BY <2>2, <2>3, <5>1, <5>2
      <4> QED
        BY <4>1, <4>2
    <3>3. AtMost(Ways(handler), caps.count) = w /\ ~(Ways(handler) >= caps.count)
      BY <2>2, <2>3, <3>2 DEF AtMost
    <3>4. SumsAreRight(frames)
      BY <1>2, EmptySeq DEF SumsAreRight
    <3>5. CountsRight(frames, memo, FALSE, w)
      BY <1>2, <2>1, <3>3, <3>4 DEF CountsRight
    <3> QED
      BY <1>2, <2>1, <3>1, <3>2, <3>5
  <2>5. CASE ~HasCount(handler)
    <3>1. frames' = <<CountFrame(handler)>> /\ counted' = 0
      BY <1>2, <2>5 DEF StartCount
    <3>2. PICK calls : calls = <<CountFrame(handler)>>
      OBVIOUS
    <3>3. /\ CountFrame(handler) \in CountCalls /\ CountFrame(handler).fn = handler
          /\ CountFrame(handler).next = 1 /\ CountFrame(handler).sum = 0
      BY <1>1 DEF CountFrame, CountCalls
    <3>4. /\ calls \in Seq(CountCalls) /\ Len(calls) = 1 /\ DOMAIN calls = 1..1
          /\ calls[1] = CountFrame(handler) /\ calls # <<>>
      BY <3>2, <3>3
    <3>5. PICK m \in Nat : m = Len(adj[handler])
      BY <1>1, LinkGraphFacts
    <3>6. adj[handler] # <<>>
      BY <2>5 DEF HasCount
    <3>7. OnStack(calls)
      <4>1. \A i \in 1..1 : i = 1
        OBVIOUS
      <4>2. 1..(1 - 1) = {} /\ 1 <= m + 1 /\ Ways(handler) <= Ways(handler)
        BY <2>3, <3>5
      <4> QED
        BY <3>3, <3>4, <3>5, <3>6, <4>1, <4>2 DEF OnStack
    <3>8. SumsAreRight(calls)
      <4>1. \A i \in 1..1 : i = 1
        OBVIOUS
      <4>2. Cardinality(Turned(handler, 1)) = 0 /\ 0 < c
        BY <1>1, <2>2, NoneTurnedFirst
      <4> QED
        BY <2>2, <3>3, <3>4, <4>1, <4>2 DEF SumsAreRight
    <3>9. CountsRight(calls, memo, FALSE, 0)
      BY <2>1, <3>4, <3>7, <3>8 DEF CountsRight
    <3> QED
      BY <1>2, <2>1, <3>1, <3>2, <3>9
  <2> QED
    BY <2>4, <2>5
<1> QED
  BY <1>1, <1>2, <1>3, CountHolds

(* What holds while a count is on its way.                                 *)
LEMMA UnderWay ==
  ASSUME CountInv, Acyclic, frames # <<>>
  PROVE  /\ KnowsWays(memo) /\ OnStack(frames) /\ truncated \in BOOLEAN
         /\ ~truncated => SumsAreRight(frames)
         /\ truncated => StopsAtLimit(frames)
         /\ counted = 0
BY DEF CountInv, CountsRight

(* At the limit no function goes on to another callee.                     *)
LEMMA AtCalleeFacts ==
  ASSUME CountInv, Acyclic, NEW k, AtCallee(k)
  PROVE  /\ truncated = FALSE /\ k \in Range(adj[Last(frames).fn]) /\ k \in Linked
         /\ Last(frames).fn \in Linked
         /\ Last(frames).next \in 1..Len(adj[Last(frames).fn])
         /\ k \notin Range(Fns(frames))
<1>1. frames # <<>> /\ adj \in LinkGraphs
  BY DEF AtCallee, CountInv
<1>2. OnStack(frames) /\ truncated \in BOOLEAN /\ (truncated => StopsAtLimit(frames))
  BY <1>1, UnderWay
<1>3. PICK n, i : n = Last(frames).fn /\ i = Last(frames).next
  OBVIOUS
<1>4. n \in Linked /\ i \in Nat \ {0}
  BY <1>1, <1>2, <1>3, StackFacts
<1>5. PICK m \in Nat : m = Len(adj[n]) /\ DOMAIN adj[n] = 1..m
  BY <1>1, <1>4, LinkGraphFacts
<1>6. i <= m /\ k = adj[n][i]
  BY <1>3, <1>5 DEF AtCallee
<1>7. i \in 1..m
  BY <1>4, <1>6
<1>8. k \in Range(adj[n]) /\ k \in Linked
  <2>1. k \in Range(adj[n])
    BY <1>5, <1>6, <1>7 DEF Range
  <2> QED
    BY <1>1, <1>4, <2>1, LinkGraphFacts
<1>9. ~truncated
  <2> SUFFICES ASSUME truncated
               PROVE  FALSE
    OBVIOUS
  <2>1. i = m + 1
    BY <1>1, <1>2, <1>3, <1>5 DEF StopsAtLimit
  <2> QED
    BY <1>5, <1>6, <2>1
<1>10. k \notin Range(Fns(frames))
  <2>1. PICK l \in Nat : l = Len(frames) /\ l # 0 /\ DOMAIN frames = 1..l
    BY <1>1, <1>2, StackFacts
  <2>2. PICK p : p = Fns(frames)
    OBVIOUS
  <2>3. DOMAIN p = 1..l /\ \A j \in 1..l : p[j] = frames[j].fn
    BY <2>1, <2>2 DEF Fns
  <2>4. \A j \in 1..l : frames[j] \in CountCalls
    BY <1>2, <2>1, ElementOfSeq DEF OnStack
  <2>5. p \in [1..l -> Linked]
    <3>1. p = [j \in 1..l |-> frames[j].fn]
      BY <2>1, <2>2 DEF Fns
    <3>2. \A j \in 1..l : frames[j].fn \in Linked
      BY <2>4 DEF CountCalls
    <3> QED
      BY <3>1, <3>2
  <2>6. p \in Seq(Linked) /\ Len(p) = l
    <3>1. p \in Seq(Linked)
      BY <2>5, SeqDef
    <3>2. Len(p) \in Nat /\ DOMAIN p = 1..Len(p)
      BY <3>1, LenProperties
    <3> QED
      BY <2>3, <3>1, <3>2
  <2>7. GoesOverLinks(p)
    <3> SUFFICES ASSUME NEW j \in 1..(l - 1)
                 PROVE  p[j + 1] \in Range(adj[p[j]])
      BY <2>6 DEF GoesOverLinks
    <3>1. j \in 1..l /\ j + 1 \in 1..l
      BY <2>1
    <3>2. /\ frames[j].next <= Len(adj[frames[j].fn])
          /\ adj[frames[j].fn][frames[j].next] = frames[j + 1].fn
      BY <1>2, <2>1 DEF OnStack
    <3>3. frames[j].next \in Nat \ {0} /\ frames[j].fn \in Linked
      BY <2>4, <3>1 DEF CountCalls
    <3>4. PICK a, b : a = frames[j].fn /\ b = frames[j].next
      OBVIOUS
    <3>5. PICK h \in Nat : h = Len(adj[a]) /\ DOMAIN adj[a] = 1..h
      BY <1>1, <3>3, <3>4, LinkGraphFacts
    <3>6. b \in 1..h
      BY <3>2, <3>3, <3>4, <3>5
    <3>7. adj[a][b] \in Range(adj[a])
      BY <3>5, <3>6 DEF Range
    <3> QED
      BY <2>3, <3>1, <3>2, <3>4, <3>7
  <2>8. Last(frames) = frames[l]
    BY <2>1 DEF Last
  <2>9. l \in 1..l /\ p[l] = n
    BY <1>3, <2>1, <2>3, <2>8
  <2>10. \A j \in 1..l : p[j] \notin Range(adj[n])
    BY <2>6, <2>7, <2>9, NoLinkBack
  <2> QED
    BY <1>8, <2>2, <2>3, <2>10 DEF Range
<1> QED
  BY <1>2, <1>3, <1>4, <1>5, <1>7, <1>8, <1>9, <1>10

LEMMA CountCycleKeeps == CountInv /\ CountCycle => CountInv'
<1> SUFFICES ASSUME CountInv, CountCycle
             PROVE  CountInv'
  OBVIOUS
<1>1. PICK k \in Linked : AtCallee(k) /\ k \in Range(Fns(frames))
  BY DEF CountCycle
<1>2. ~Acyclic
  BY <1>1, AtCalleeFacts
<1>3. UNCHANGED givenVars
  BY DEF CountCycle
<1> QED
  BY <1>2, <1>3, CountHolds DEF CountInv

LEMMA CountKnownKeeps == CountInv /\ CountKnown => CountInv'
<1> SUFFICES ASSUME CountInv, CountKnown
             PROVE  CountInv'
  OBVIOUS
<1>1. PICK k \in Linked : AtCallee(k) /\ HasCount(k) /\ AddsOn(frames, Value(k))
  BY DEF CountKnown
<1>2. UNCHANGED givenVars /\ memo' = memo /\ counted' = counted
  BY DEF CountKnown
<1>3. adj \in LinkGraphs /\ handler \in Handlers /\ caps \in PathLimits /\ frames # <<>>
  BY <1>1 DEF CountInv, AtCallee
<1>4. ASSUME Acyclic
      PROVE  CountsRight(frames', memo', truncated', counted')
  <2>1. /\ KnowsWays(memo) /\ OnStack(frames) /\ truncated \in BOOLEAN
        /\ ~truncated => SumsAreRight(frames)
        /\ counted = 0
    BY <1>3, <1>4, UnderWay
  <2>2. /\ truncated = FALSE /\ k \in Range(adj[Last(frames).fn])
        /\ Last(frames).next \in 1..Len(adj[Last(frames).fn])
        /\ Last(frames).fn \in Linked
    BY <1>1, <1>4, AtCalleeFacts
  <2>3. PICK v : v = Value(k)
    OBVIOUS
  <2>4. v = Ways(k)
    <3>1. CASE k \in DOMAIN memo
      BY <2>1, <2>3, <3>1 DEF Value, KnowsWays
    <3>2. CASE k \notin DOMAIN memo
      <4>1. v = 1 /\ adj[k] = <<>>
        BY <1>1, <2>3, <3>2 DEF Value, HasCount
      <4>2. Ways(k) = 1
        BY <1>3, <1>4, <4>1, LeafHasOne DEF Ways
      <4> QED
        BY <4>1, <4>2
    <3> QED
      BY <3>1, <3>2
  <2>5. v \in Nat
    BY <2>4, CallPathsFinite DEF Ways
  <2>6. Last(frames).next <= Len(adj[Last(frames).fn])
    BY <1>1 DEF AtCallee
  <2>7. k = adj[Last(frames).fn][Last(frames).next]
    BY <1>1 DEF AtCallee
  <2>8. AddsRight(frames, v, truncated)
    BY <1>3, <2>1, <2>2, <2>4, <2>5, <2>6, <2>7 DEF AddsRight
  <2>9. /\ Reaches(Last(frames).sum + v) =>
             CountsRight([frames EXCEPT ![Len(frames)] = Added(@, v)], memo, TRUE, 0)
        /\ ~Reaches(Last(frames).sum + v) =>
             CountsRight([frames EXCEPT ![Len(frames)] = Added(@, v)], memo, FALSE, 0)
    BY <1>3, <1>4, <2>1, <2>8, AddedFacts
  <2>10. /\ frames' = [frames EXCEPT ![Len(frames)] = Added(@, v)]
         /\ truncated' = (truncated \/ Reaches(Last(frames).sum + v))
    BY <1>1, <2>3 DEF AddsOn
  <2>11. CASE Reaches(Last(frames).sum + v)
    <3>1. truncated' = TRUE
      BY <2>10, <2>11
    <3> QED
      BY <1>2, <2>1, <2>9, <2>10, <2>11, <3>1
  <2>12. CASE ~Reaches(Last(frames).sum + v)
    <3>1. truncated' = FALSE
      BY <2>2, <2>10, <2>12
    <3> QED
      BY <1>2, <2>1, <2>9, <2>10, <2>12, <3>1
  <2> QED
    BY <2>11, <2>12
<1> QED
  BY <1>2, <1>3, <1>4, CountHolds

LEMMA CountCallKeeps == CountInv /\ CountCall => CountInv'
<1> SUFFICES ASSUME CountInv, CountCall
             PROVE  CountInv'
  OBVIOUS
<1>1. PICK k \in Linked : /\ AtCallee(k) /\ ~HasCount(k)
                          /\ frames' = Append(frames, CountFrame(k))
  BY DEF CountCall
<1>2. UNCHANGED givenVars /\ memo' = memo /\ counted' = counted /\ truncated' = truncated
  BY DEF CountCall
<1>3. adj \in LinkGraphs /\ handler \in Handlers /\ caps \in PathLimits /\ frames # <<>>
  BY <1>1 DEF CountInv, AtCallee
<1>4. ASSUME Acyclic
      PROVE  CountsRight(frames', memo', truncated', counted')
  <2>1. /\ KnowsWays(memo) /\ OnStack(frames) /\ truncated \in BOOLEAN
        /\ ~truncated => SumsAreRight(frames)
        /\ counted = 0
    BY <1>3, <1>4, UnderWay
  <2>2. /\ truncated = FALSE /\ k \in Range(adj[Last(frames).fn])
        /\ Last(frames).fn \in Linked
    BY <1>1, <1>4, AtCalleeFacts
  <2>3. /\ frames \in Seq(CountCalls)
        /\ frames[1].fn = handler
    BY <1>3, <2>1 DEF OnStack
  <2>4. PICK l \in Nat : l = Len(frames) /\ l # 0 /\ DOMAIN frames = 1..l
    BY <1>3, <2>1, StackFacts
  <2>5. PICK g : g = CountFrame(k)
    OBVIOUS
  <2>6. g \in CountCalls /\ g.fn = k /\ g.next = 1 /\ g.sum = 0
    BY <2>5 DEF CountFrame, CountCalls
  <2>7. PICK new : new = Append(frames, g)
    OBVIOUS
  <2>8. /\ new \in Seq(CountCalls) /\ Len(new) = l + 1 /\ DOMAIN new = 1..(l + 1)
        /\ \A i \in 1..l : new[i] = frames[i]
        /\ new[l + 1] = g
    <3>1. /\ new \in Seq(CountCalls) /\ Len(new) = l + 1
          /\ \A i \in 1..l : new[i] = frames[i]
          /\ new[l + 1] = g
      BY <2>3, <2>4, <2>6, <2>7, AppendProperties
    <3> QED
      BY <3>1, LenProperties
  <2>9. new # <<>>
    BY <2>4, <2>8, EmptySeq
  <2>10. adj[k] # <<>>
    BY <1>1 DEF HasCount
  <2>11. Ways(k) <= Ways(handler)
    <3>1. Ways(k) <= Ways(Last(frames).fn)
      BY <1>3, <1>4, <2>2, CalleeHasFewer
    <3>2. Ways(Last(frames).fn) <= Ways(handler)
      BY <1>3, <2>1, StackFacts
    <3>3. PICK a, b, c \in Nat : a = Ways(k) /\ b = Ways(Last(frames).fn) /\ c = Ways(handler)
      BY CallPathsFinite DEF Ways
    <3> QED
      BY <3>1, <3>2, <3>3
  <2>12. \A i \in 1..(l + 1) : i \in 1..l \/ i = l + 1
    BY <2>4
  <2>13. OnStack(new)
    <3>1. new[1].fn = handler
      <4>1. 1 \in 1..l
        BY <2>4
      <4> QED
        BY <2>3, <2>8, <4>1
    <3>2. ASSUME NEW i \in 1..(l + 1)
          PROVE  /\ adj[new[i].fn] # <<>>
                 /\ new[i].next <= Len(adj[new[i].fn]) + 1
                 /\ Ways(new[i].fn) <= Ways(handler)
      <4>1. CASE i \in 1..l
        <5>1. /\ adj[frames[i].fn] # <<>>
              /\ frames[i].next <= Len(adj[frames[i].fn]) + 1
              /\ Ways(frames[i].fn) <= Ways(handler)
          BY <2>1, <2>4, <4>1 DEF OnStack
        <5> QED
          BY <2>8, <4>1, <5>1
      <4>2. CASE i = l + 1
        <5>1. PICK m \in Nat : m = Len(adj[k])
          BY <1>3, LinkGraphFacts
        <5>2. 1 <= m + 1
          BY <5>1
        <5> QED
          BY <2>6, <2>8, <2>10, <2>11, <4>2, <5>1, <5>2
      <4> QED
        BY <2>12, <4>1, <4>2
    <3>3. ASSUME NEW i \in 1..((l + 1) - 1)
          PROVE  /\ new[i].next <= Len(adj[new[i].fn])
                 /\ adj[new[i].fn][new[i].next] = new[i + 1].fn
      <4>1. i \in 1..l /\ (i # l => i \in 1..(l - 1) /\ i + 1 \in 1..l)
        BY <2>4
      <4>2. new[i] = frames[i]
        BY <2>8, <4>1
      <4>3. CASE i = l
        <5>1. /\ Last(frames).next <= Len(adj[Last(frames).fn])
              /\ k = adj[Last(frames).fn][Last(frames).next]
          BY <1>1 DEF AtCallee
        <5>2. Last(frames) = frames[l]
          BY <2>4 DEF Last
        <5> QED
          BY <2>6, <2>8, <4>2, <4>3, <5>1, <5>2
      <4>4. CASE i # l
        <5>1. /\ frames[i].next <= Len(adj[frames[i].fn])
              /\ adj[frames[i].fn][frames[i].next] = frames[i + 1].fn
          BY <2>1, <2>4, <4>1, <4>4 DEF OnStack
        <5>2. new[i + 1] = frames[i + 1]
          BY <2>8, <4>1, <4>4
        <5> QED
          BY <4>2, <5>1, <5>2
      <4> QED
        BY <4>3, <4>4
    <3> QED
      BY <2>8, <3>1, <3>2, <3>3 DEF OnStack
  <2>14. SumsAreRight(new)
    <3> SUFFICES ASSUME NEW i \in 1..(l + 1)
                 PROVE  /\ new[i].sum = Cardinality(Turned(new[i].fn, new[i].next))
                        /\ new[i].sum < caps.count
      BY <2>8 DEF SumsAreRight
    <3>1. CASE i \in 1..l
      BY <2>1, <2>2, <2>4, <2>8, <3>1 DEF SumsAreRight
    <3>2. CASE i = l + 1
      <4>1. 0 < caps.count
        BY <1>3, LimitFacts
      <4>2. Cardinality(Turned(k, 1)) = 0
        BY NoneTurnedFirst
      <4> QED
        BY <2>6, <2>8, <3>2, <4>1, <4>2
    <3> QED
      BY <2>12, <3>1, <3>2
  <2>15. CountsRight(new, memo, FALSE, 0)
    BY <2>1, <2>9, <2>13, <2>14 DEF CountsRight
  <2> QED
    BY <1>1, <1>2, <2>1, <2>2, <2>5, <2>7, <2>15
<1> QED
  BY <1>2, <1>3, <1>4, CountHolds

(* The function on top returns to its caller, which is at it.              *)
LEMMA CallerFacts ==
  ASSUME NEW calls, OnStack(calls), calls # <<>>, Len(calls) # 1
  PROVE  /\ OnStack(Front(calls)) /\ Front(calls) # <<>>
         /\ Last(Front(calls)).next <= Len(adj[Last(Front(calls)).fn])
         /\ adj[Last(Front(calls)).fn][Last(Front(calls)).next] = Last(calls).fn
         /\ SumsAreRight(calls) => SumsAreRight(Front(calls))
<1>1. calls \in Seq(CountCalls) /\ calls[1].fn = handler
  BY DEF OnStack
<1>2. PICK l \in Nat : l = Len(calls) /\ l # 0 /\ DOMAIN calls = 1..l /\ Last(calls) = calls[l]
  BY <1>1, FrontFacts
<1>3. PICK new : new = Front(calls)
  OBVIOUS
<1>4. /\ new \in Seq(CountCalls) /\ Len(new) = l - 1 /\ DOMAIN new = 1..(l - 1)
      /\ \A i \in 1..(l - 1) : new[i] = calls[i]
  BY <1>1, <1>2, <1>3, FrontFacts
<1>5. l - 1 \in 1..(l - 1) /\ 1 \in 1..(l - 1) /\ (l - 1) + 1 = l
  BY <1>2
<1>6. new # <<>> /\ Last(new) = calls[l - 1]
  BY <1>4, <1>5, EmptySeq DEF Last
<1>7. \A i \in 1..(l - 1) : i \in DOMAIN calls
  BY <1>2
<1>8. \A i \in 1..((l - 1) - 1) : i \in 1..(l - 1) /\ i + 1 \in 1..(l - 1)
  BY <1>2
<1>9. OnStack(new)
  <2>1. new[1].fn = handler
    BY <1>1, <1>4, <1>5
  <2>2. ASSUME NEW i \in 1..(l - 1)
        PROVE  /\ adj[new[i].fn] # <<>>
               /\ new[i].next <= Len(adj[new[i].fn]) + 1
               /\ Ways(new[i].fn) <= Ways(handler)
    BY <1>4, <1>7 DEF OnStack
  <2>3. ASSUME NEW i \in 1..((l - 1) - 1)
        PROVE  /\ new[i].next <= Len(adj[new[i].fn])
               /\ adj[new[i].fn][new[i].next] = new[i + 1].fn
    <3>1. new[i] = calls[i] /\ new[i + 1] = calls[i + 1]
      BY <1>4, <1>8
    <3>2. /\ calls[i].next <= Len(adj[calls[i].fn])
          /\ adj[calls[i].fn][calls[i].next] = calls[i + 1].fn
      BY <1>2, <1>8 DEF OnStack
    <3> QED
      BY <3>1, <3>2
  <2> QED
    BY <1>4, <2>1, <2>2, <2>3 DEF OnStack
<1>10. /\ calls[l - 1].next <= Len(adj[calls[l - 1].fn])
       /\ adj[calls[l - 1].fn][calls[l - 1].next] = calls[l].fn
  <2>1. /\ calls[l - 1].next <= Len(adj[calls[l - 1].fn])
        /\ adj[calls[l - 1].fn][calls[l - 1].next] = calls[(l - 1) + 1].fn
    BY <1>2, <1>5 DEF OnStack
  <2> QED
    BY <1>5, <2>1
<1>11. SumsAreRight(calls) => SumsAreRight(new)
  BY <1>4, <1>7 DEF SumsAreRight
<1> QED
  BY <1>2, <1>3, <1>6, <1>9, <1>10, <1>11

LEMMA CountReturnKeeps == CountInv /\ CountReturn => CountInv'
<1> SUFFICES ASSUME CountInv, CountReturn
             PROVE  CountInv'
  OBVIOUS
<1>1. frames # <<>> /\ UNCHANGED givenVars
  BY DEF CountReturn
<1>2. adj \in LinkGraphs /\ handler \in Handlers /\ caps \in PathLimits
  BY DEF CountInv
<1>3. PICK f : f = Last(frames)
  OBVIOUS
<1>4. PICK n : n = f.fn
  OBVIOUS
<1>5. PICK total : total = IF f.sum = 0 THEN 1 ELSE f.sum
  OBVIOUS
<1>6. /\ f.next > Len(adj[n])
      /\ memo' = IF truncated THEN memo
                 ELSE [m \in DOMAIN memo \union {n} |-> IF m = n THEN total ELSE memo[m]]
      /\ Len(frames) = 1 => counted' = total /\ frames' = <<>> /\ truncated' = truncated
      /\ Len(frames) # 1 => AddsOn(Front(frames), total) /\ counted' = counted
  BY <1>3, <1>4, <1>5 DEF CountReturn
<1>7. ASSUME Acyclic
      PROVE  CountsRight(frames', memo', truncated', counted')
  <2>1. /\ KnowsWays(memo) /\ OnStack(frames) /\ truncated \in BOOLEAN
        /\ ~truncated => SumsAreRight(frames)
        /\ truncated => StopsAtLimit(frames)
        /\ counted = 0
    BY <1>1, <1>7, UnderWay
  <2>2. PICK l \in Nat : l = Len(frames) /\ l # 0 /\ DOMAIN frames = 1..l /\ f = frames[l]
    BY <1>1, <1>3, <2>1, StackFacts
  <2>3. /\ n \in Linked /\ f.sum \in Nat /\ f.next \in Nat
        /\ adj[n] # <<>> /\ f.next <= Len(adj[n]) + 1
    BY <1>1, <1>3, <1>4, <2>1, StackFacts
  <2>4. PICK c \in Nat : c = caps.count /\ c >= 2
    BY <1>2, LimitFacts
  <2>5. PICK w, h \in Nat : w = Ways(n) /\ h = Ways(handler) /\ w >= 1
    <3>1. Ways(n) \in Nat /\ Ways(n) >= 1 /\ Ways(handler) \in Nat
      BY <1>2, <1>7, <2>3, EachHasOne, CallPathsFinite DEF Ways
    <3> QED
      BY <3>1
  <2>6. f.next = Len(adj[n]) + 1
    <3>1. PICK m \in Nat : m = Len(adj[n])
      BY <1>2, <2>3, LinkGraphFacts
    <3> QED
      BY <1>6, <2>3, <3>1
  <2>7. ASSUME ~truncated
        PROVE  total = w /\ w < c
    <3>1. SumsAreRight(frames) /\ l \in DOMAIN frames
      BY <2>1, <2>2, <2>7
    <3>2. f.sum = Cardinality(Turned(n, f.next)) /\ f.sum < c
      BY <1>4, <2>2, <2>4, <3>1 DEF SumsAreRight
    <3>3. Cardinality(Turned(n, Len(adj[n]) + 1)) = Ways(n)
      BY <1>2, <1>7, <2>3, AllTurned
    <3>4. f.sum = w
      BY <2>5, <2>6, <3>2, <3>3
    <3> QED
      BY <1>5, <2>5, <3>2, <3>4
  <2>8. ASSUME truncated
        PROVE  total = c /\ h >= c
    <3>1. f.sum = c /\ h >= c
      BY <1>1, <1>3, <2>1, <2>4, <2>5, <2>8 DEF StopsAtLimit
    <3> QED
      BY <1>5, <2>4, <3>1
  <2>9. KnowsWays(memo')
    <3>1. CASE truncated
      BY <1>6, <2>1, <3>1
    <3>2. CASE ~truncated
      <4>1. memo' = [m \in DOMAIN memo \union {n} |-> IF m = n THEN total ELSE memo[m]]
        BY <1>6, <3>2
      <4>2. DOMAIN memo' = DOMAIN memo \union {n}
        BY <4>1
      <4>3. ASSUME NEW m \in DOMAIN memo'
            PROVE  memo'[m] = Ways(m) /\ memo'[m] < caps.count
        <5>1. CASE m = n
          BY <2>4, <2>5, <2>7, <3>2, <4>1, <4>2, <5>1
        <5>2. CASE m # n
          BY <2>1, <4>1, <4>2, <5>2 DEF KnowsWays
        <5> QED
          BY <5>1, <5>2
      <4> QED
        BY <2>1, <2>3, <4>2, <4>3 DEF KnowsWays
    <3> QED
      BY <3>1, <3>2
  <2>10. CASE l = 1
    <3>1. counted' = total /\ frames' = <<>> /\ truncated' = truncated
      BY <1>6, <2>2, <2>10
    <3>2. n = handler /\ w = h
      <4>1. frames[1].fn = handler
        BY <1>1, <2>1 DEF OnStack
      <4> QED
        BY <1>4, <2>2, <2>5, <2>10, <4>1
    <3>3. PICK none : none = <<>>
      OBVIOUS
    <3>4. OnStack(none) /\ SumsAreRight(none)
      <4>1. none \in Seq(CountCalls) /\ Len(none) = 0 /\ DOMAIN none = {} /\ 1..(0 - 1) = {}
        BY <3>3, EmptySeq
      <4> QED
        BY <3>3, <4>1 DEF OnStack, SumsAreRight
    <3>5. /\ total # 0 /\ total = AtMost(Ways(handler), caps.count)
          /\ truncated <=> Ways(handler) >= caps.count
      <4>1. CASE truncated
        <5>1. total = c /\ h >= c
          BY <2>8, <4>1
        <5>2. ~(h < c) /\ c # 0
          BY <2>4, <2>5, <5>1
        <5> QED
          BY <2>4, <2>5, <4>1, <5>1, <5>2 DEF AtMost
      <4>2. CASE ~truncated
        <5>1. total = h /\ h < c
          BY <2>7, <3>2, <4>2
        <5>2. ~(h >= c) /\ h # 0
          BY <2>4, <2>5, <3>2, <5>1
        <5> QED
          BY <2>4, <2>5, <4>2, <5>1, <5>2 DEF AtMost
      <4> QED
        BY <4>1, <4>2
    <3>6. truncated => StopsAtLimit(none)
      <4>1. none = <<>>
        BY <3>3
      <4> QED
        BY <3>5, <4>1 DEF StopsAtLimit
    <3>7. none = <<>>
      BY <3>3
    <3>8. CountsRight(none, memo', truncated, total)
      BY <2>1, <2>9, <3>4, <3>5, <3>6, <3>7 DEF CountsRight
    <3> QED
      BY <3>1, <3>3, <3>8
  <2>11. CASE l # 1
    <3>1. PICK calls : calls = Front(frames)
      OBVIOUS
    <3>2. AddsOn(calls, total) /\ counted' = 0
      BY <1>6, <2>1, <2>2, <2>11, <3>1
    <3>3. /\ OnStack(calls) /\ calls # <<>>
          /\ Last(calls).next <= Len(adj[Last(calls).fn])
          /\ adj[Last(calls).fn][Last(calls).next] = n
          /\ SumsAreRight(frames) => SumsAreRight(calls)
      BY <1>1, <1>3, <1>4, <2>1, <2>2, <2>11, <3>1, CallerFacts
    <3>4. AddsRight(calls, total, truncated)
      <4>1. CASE truncated
        BY <2>1, <2>4, <2>5, <2>8, <3>3, <4>1 DEF AddsRight
      <4>2. CASE ~truncated
        BY <2>1, <2>5, <2>7, <3>3, <4>2 DEF AddsRight
      <4> QED
        BY <4>1, <4>2
    <3>5. PICK new : new = [calls EXCEPT ![Len(calls)] = Added(@, total)]
      OBVIOUS
    <3>6. /\ Reaches(Last(calls).sum + total) => CountsRight(new, memo', TRUE, 0)
          /\ ~Reaches(Last(calls).sum + total) => ~truncated /\ CountsRight(new, memo', FALSE, 0)
      <4>1. PICK known : known = memo'
        OBVIOUS
      <4>2. KnowsWays(known)
        BY <2>9, <4>1
      <4>3. /\ Reaches(Last(calls).sum + total) => CountsRight(new, known, TRUE, 0)
            /\ ~Reaches(Last(calls).sum + total) => ~truncated /\ CountsRight(new, known, FALSE, 0)
        BY <1>2, <1>7, <3>4, <3>5, <4>2, AddedFacts
      <4> QED
        BY <4>1, <4>3
    <3>7. frames' = new /\ truncated' = (truncated \/ Reaches(Last(calls).sum + total))
      BY <3>2, <3>5 DEF AddsOn
    <3>8. CASE Reaches(Last(calls).sum + total)
      <4>1. truncated' = TRUE
        BY <3>7, <3>8
      <4> QED
        BY <3>2, <3>6, <3>7, <3>8, <4>1
    <3>9. CASE ~Reaches(Last(calls).sum + total)
      <4>1. truncated' = FALSE
        BY <2>1, <3>6, <3>7, <3>9
      <4> QED
        BY <3>2, <3>6, <3>7, <3>9, <4>1
    <3> QED
      BY <3>8, <3>9
  <2> QED
    BY <2>10, <2>11
<1> QED
  BY <1>1, <1>2, <1>7, CountHolds

LEMMA ListLeavesTheCounts ==
  ListStep => UNCHANGED <<givenVars, frames, memo, truncated, counted>>
BY DEF ListStep, StartList, Descend, Ascend, countVars

LEMMA CountStays ==
  CountInv /\ UNCHANGED <<givenVars, frames, memo, truncated, counted>> => CountInv'
<1> SUFFICES ASSUME CountInv, UNCHANGED <<givenVars, frames, memo, truncated, counted>>
             PROVE  CountInv'
  OBVIOUS
<1> QED
  BY CountHolds DEF CountInv

(* What countPaths keeps holds in every state of both walks.               *)
THEOREM CountCorrect == PathsSpec => []CountInv
<1>1. CountInv /\ UNCHANGED pathVars => CountInv'
  BY CountStays DEF pathVars, countVars
<1>2. CountInv /\ ListStep => CountInv'
  BY CountStays, ListLeavesTheCounts
<1>3. CountInv /\ CountStep => CountInv'
  BY StartCountKeeps, CountCycleKeeps, CountKnownKeeps, CountCallKeeps, CountReturnKeeps
     DEF CountStep
<1>4. CountInv /\ [PathsNext]_pathVars => CountInv'
  BY <1>1, <1>2, <1>3 DEF PathsNext
<1> QED
  BY <1>4, CountInitial, PTL DEF PathsSpec

(* TracePaths!CountIsExact for every trace: without recursion the number   *)
(* of paths the page shows is right up to the limit, and so is whether it  *)
(* is the limit, the memo and the early return notwithstanding             *)
(* (metrics.go:832-870).                                                   *)
THEOREM CountExact == PathsSpec => []CountIsExact
<1>1. CountInv => CountIsExact
  BY DEF CountInv, CountsRight, CountIsExact, Ways
<1> QED
  BY <1>1, CountCorrect, PTL

(* TracePaths!PathsAreRight for any trace and any limits.                  *)
THEOREM PathsRight == PathsSpec => []PathsAreRight
  BY CountExact, ListRight, PTL DEF PathsAreRight

===============================================================================
