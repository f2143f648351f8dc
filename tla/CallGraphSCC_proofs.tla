------------------------- MODULE CallGraphSCC_proofs -------------------------
(***************************************************************************)
(* Theorems about CallGraphSCC for any number of functions and any graph.  *)
(***************************************************************************)
EXTENDS CallGraphSCC, SequenceTheorems, WellFoundedInduction, TLAPS

-----------------------------------------------------------------------------
(* Why a popped component calls only itself and what was popped before.    *)

Visited(f) == index[f] # 0

OnFrames(f) == \E i \in DOMAIN frames : frames[i].node = f

Emitted(f) == \E c \in DOMAIN components : f \in components[c]

(* The callees of f that its frame, if it still has one, has been through. *)
Handled(f, g) ==
  /\ g \in Callees(f)
  /\ \A i \in DOMAIN frames : frames[i].node = f => g \notin frames[i].todo

(* Indices are given out once, in increasing order. *)
IndicesAreOnce ==
  /\ \A f \in Functions : index[f] <= counter
  /\ \A f, g \in Functions : Visited(f) /\ index[f] = index[g] => f = g

(* The stack and the frames are in the order of discovery, and a function  *)
(* with a frame is on the stack.                                           *)
StackIsOrdered ==
  /\ \A i \in DOMAIN stack : Visited(stack[i])
  /\ \A i, j \in DOMAIN stack : i < j => index[stack[i]] < index[stack[j]]
  /\ \A i, j \in DOMAIN frames :
       i < j => index[frames[i].node] < index[frames[j].node]
  /\ \A i \in DOMAIN frames : OnStack(frames[i].node)

(* A visited function is on the stack or in a component. *)
VisitedAreKept == \A f \in Functions : Visited(f) => OnStack(f) \/ Emitted(f)

(* A handled callee has been visited. *)
HandledAreVisited ==
  \A f, g \in Functions : Visited(f) /\ Handled(f, g) => Visited(g)

(* The lowlink of a function on the stack is at most its own index and     *)
(* that of every handled callee on the stack.                              *)
LowlinksReach ==
  \A f \in Functions : OnStack(f) =>
    /\ lowlink[f] <= index[f]
    /\ \A g \in Functions : Handled(f, g) /\ OnStack(g) => lowlink[f] <= index[g]

(* The lowlink of a function on the stack that has retired has reached the *)
(* nearest frame below it.                                                 *)
LowlinksPropagate ==
  \A i \in DOMAIN frames : \A f \in Functions :
    /\ OnStack(f)
    /\ index[frames[i].node] <= index[f]
    /\ \A j \in DOMAIN frames : i < j => index[f] < index[frames[j].node]
    => lowlink[frames[i].node] <= lowlink[f]

(* The first function on the stack has the first frame, and no lowlink is  *)
(* below its index: when its frame retires, the whole stack is popped.     *)
RootHasFrame ==
  /\ stack # <<>> => frames # <<>> /\ frames[1].node = stack[1]
  /\ \A f \in Functions : OnStack(f) => index[stack[1]] <= lowlink[f]

SearchInv ==
  /\ IndicesAreOnce
  /\ StackIsOrdered
  /\ VisitedAreKept
  /\ HandledAreVisited
  /\ LowlinksReach
  /\ LowlinksPropagate
  /\ RootHasFrame
  /\ CalleesFirst

SearchTypeOK ==
  /\ calls \subseteq Functions \X Functions
  /\ index \in [Functions -> Nat]
  /\ lowlink \in [Functions -> Nat]
  /\ counter \in Nat
  /\ stack \in Seq(Functions)
  /\ frames \in Seq(Frames)
  /\ components \in Seq(SUBSET Functions)

LEMMA AppendFacts ==
  ASSUME NEW S, NEW s \in Seq(S), NEW e \in S
  PROVE  /\ Append(s, e) \in Seq(S)
         /\ Len(Append(s, e)) = Len(s) + 1
         /\ DOMAIN s = 1..Len(s)
         /\ DOMAIN Append(s, e) = 1..(Len(s) + 1)
         /\ \A i \in 1..Len(s) : Append(s, e)[i] = s[i]
         /\ Append(s, e)[Len(s) + 1] = e
         /\ Len(s) \in Nat
  BY AppendProperties, LenProperties

LEMMA PrefixFacts ==
  ASSUME NEW S, NEW s \in Seq(S), NEW n \in 0..Len(s)
  PROVE  /\ SubSeq(s, 1, n) \in Seq(S)
         /\ Len(SubSeq(s, 1, n)) = n
         /\ DOMAIN SubSeq(s, 1, n) = 1..n
         /\ \A i \in 1..n : SubSeq(s, 1, n)[i] = s[i]
         /\ DOMAIN s = 1..Len(s)
         /\ Len(s) \in Nat
<1>1. \A i \in 1..n : s[i] \in S
  BY ElementOfSeq, LenProperties
<1>2. /\ SubSeq(s, 1, n) \in Seq(S)
      /\ Len(SubSeq(s, 1, n)) = IF 1 <= n THEN n - 1 + 1 ELSE 0
      /\ \A i \in 1..(n - 1 + 1) : SubSeq(s, 1, n)[i] = s[1 + i - 1]
  BY <1>1, SubSeqProperties, LenProperties
<1>3. Len(SubSeq(s, 1, n)) = n
  BY <1>2, LenProperties
<1>4. \A i \in 1..n : SubSeq(s, 1, n)[i] = s[i]
  BY <1>2, LenProperties
<1> QED
  BY <1>2, <1>3, <1>4, LenProperties

LEMMA TypeFacts ==
  ASSUME SearchTypeOK
  PROVE  /\ Len(stack) \in Nat
         /\ DOMAIN stack = 1..Len(stack)
         /\ \A i \in 1..Len(stack) : stack[i] \in Functions
         /\ Len(frames) \in Nat
         /\ DOMAIN frames = 1..Len(frames)
         /\ \A i \in 1..Len(frames) :
              /\ frames[i] \in Frames
              /\ frames[i].node \in Functions
              /\ frames[i].todo \subseteq Functions
         /\ counter \in Nat
         /\ \A f \in Functions : index[f] \in Nat /\ lowlink[f] \in Nat
<1>1. \A i \in 1..Len(stack) : stack[i] \in Functions
  BY ElementOfSeq DEF SearchTypeOK
<1>2. \A i \in 1..Len(frames) : frames[i] \in Frames
  BY ElementOfSeq DEF SearchTypeOK
<1> QED
  BY <1>1, <1>2, LenProperties DEF SearchTypeOK, Frames

-----------------------------------------------------------------------------
(* Visiting a function, from the loop over nodes or from a caller whose    *)
(* frame has just dropped it from its callees to do.                       *)
LEMMA VisitPreserves ==
  ASSUME SearchTypeOK, SearchInv,
         NEW f \in Functions, ~Visited(f),
         NEW below \in Seq(Frames),
         Len(below) = Len(frames),
         \A i \in 1..Len(frames) :
           /\ below[i].node = frames[i].node
           /\ \A g \in Functions :
                g \in frames[i].todo => g \in below[i].todo \/ g = f,
         frames = <<>> => stack = <<>>,
         Visit(f, below),
         calls' = calls, components' = components
  PROVE  SearchTypeOK' /\ SearchInv'
<1>1. Frame(f) \in Frames
  BY DEF Frame, Frames, Callees
<1>2. /\ counter' = counter + 1
      /\ index' = [index EXCEPT ![f] = counter + 1]
      /\ lowlink' = [lowlink EXCEPT ![f] = counter + 1]
      /\ stack' = Append(stack, f)
      /\ frames' = Append(below, Frame(f))
  BY DEF Visit
<1>3. /\ stack' \in Seq(Functions)
      /\ DOMAIN stack' = 1..(Len(stack) + 1)
      /\ \A i \in 1..Len(stack) : stack'[i] = stack[i]
      /\ stack'[Len(stack) + 1] = f
  BY <1>2, AppendFacts DEF SearchTypeOK
<1>4. /\ frames' \in Seq(Frames)
      /\ DOMAIN frames' = 1..(Len(frames) + 1)
      /\ \A i \in 1..Len(frames) : frames'[i] = below[i]
      /\ frames'[Len(frames) + 1] = Frame(f)
  BY <1>1, <1>2, AppendFacts
<1>5. /\ Frame(f).node = f
      /\ Frame(f).todo = Callees(f)
  BY DEF Frame
<1>6. /\ counter' \in Nat
      /\ index' \in [Functions -> Nat]
      /\ lowlink' \in [Functions -> Nat]
  BY <1>2 DEF SearchTypeOK
<1>7. SearchTypeOK'
  BY <1>3, <1>4, <1>6 DEF SearchTypeOK
<1>8. /\ index'[f] = counter + 1
      /\ lowlink'[f] = counter + 1
      /\ \A g \in Functions :
           g # f => index'[g] = index[g] /\ lowlink'[g] = lowlink[g]
  BY <1>2 DEF SearchTypeOK
<1>9. \A g \in Functions : index[g] \in Nat /\ index[g] <= counter
  BY TypeFacts DEF SearchInv, IndicesAreOnce
<1>10. /\ ~OnStack(f)
       /\ \A i \in 1..Len(stack) : stack[i] # f
       /\ \A i \in 1..Len(frames) : frames[i].node # f
  BY TypeFacts DEF SearchInv, StackIsOrdered, OnStack, Visited
<1>11. \A g \in Functions : OnStack(g)' <=> OnStack(g) \/ g = f
  <2>1. \A g \in Functions : OnStack(g)' => OnStack(g) \/ g = f
    BY <1>3, TypeFacts DEF OnStack
  <2>2. \A i \in 1..Len(stack) : i \in DOMAIN stack' /\ stack'[i] = stack[i]
    BY <1>3, TypeFacts
  <2>3. \A g \in Functions : OnStack(g) => OnStack(g)'
    BY <2>2, TypeFacts DEF OnStack
  <2>4. Len(stack) + 1 \in DOMAIN stack'
    BY <1>3, TypeFacts
  <2>5. OnStack(f)'
    BY <1>3, <2>4 DEF OnStack
  <2> QED
    BY <2>1, <2>3, <2>5
<1>12. \A i \in 1..Len(frames) : frames'[i].node = frames[i].node
  BY <1>4
<1>13. \A u, g \in Functions :
         Handled(u, g)' => u # f /\ (Handled(u, g) \/ g = f)
  <2> SUFFICES ASSUME NEW u \in Functions, NEW g \in Functions, Handled(u, g)'
               PROVE  u # f /\ (Handled(u, g) \/ g = f)
    OBVIOUS
  <2>1. g \in Callees(u)
    BY DEF Handled, Callees
  <2>2. /\ \A i \in 1..Len(frames) :
             frames'[i].node = u => g \notin frames'[i].todo
        /\ frames'[Len(frames) + 1].node = u
             => g \notin frames'[Len(frames) + 1].todo
    BY <1>4, TypeFacts DEF Handled
  <2>3. u # f
    BY <1>4, <1>5, <2>1, <2>2
  <2>4. \A i \in 1..Len(frames) :
          frames[i].node = u => g \notin frames[i].todo \/ g = f
    BY <1>4, <2>2
  <2> QED
    BY <2>1, <2>3, <2>4, TypeFacts DEF Handled
<1>14. IndicesAreOnce'
  BY <1>2, <1>8, <1>9, TypeFacts DEF SearchInv, IndicesAreOnce, Visited
<1>15. StackIsOrdered'
  <2>1. \A i \in 1..Len(stack) : index[stack[i]] # 0
    BY TypeFacts DEF SearchInv, StackIsOrdered, Visited
  <2>2. \A i \in 1..Len(stack) : index'[stack'[i]] = index[stack[i]]
    BY <1>3, <1>8, <1>10, TypeFacts
  <2>3. index'[stack'[Len(stack) + 1]] = counter + 1
    BY <1>3, <1>8
  <2>4. \A i, j \in 1..Len(stack) : i < j => index[stack[i]] < index[stack[j]]
    BY TypeFacts DEF SearchInv, StackIsOrdered
  <2>11. \A i \in DOMAIN stack' : index'[stack'[i]] # 0
    BY <1>3, <2>1, <2>2, <2>3, TypeFacts
  <2>5. \A i, j \in DOMAIN stack' : i < j => index'[stack'[i]] < index'[stack'[j]]
    BY <1>3, <1>9, <2>2, <2>3, <2>4, TypeFacts
  <2>6. \A i \in 1..Len(frames) : index'[frames'[i].node] = index[frames[i].node]
    BY <1>8, <1>10, <1>12, TypeFacts
  <2>7. index'[frames'[Len(frames) + 1].node] = counter + 1
    BY <1>4, <1>5, <1>8
  <2>8. \A i, j \in 1..Len(frames) :
          i < j => index[frames[i].node] < index[frames[j].node]
    BY TypeFacts DEF SearchInv, StackIsOrdered
  <2>9. \A i, j \in DOMAIN frames' :
          i < j => index'[frames'[i].node] < index'[frames'[j].node]
    <3> SUFFICES ASSUME NEW i \in 1..Len(frames), NEW j \in 1..(Len(frames) + 1),
                        i < j
                 PROVE  index'[frames'[i].node] < index'[frames'[j].node]
      BY <1>4, TypeFacts
    <3>1. CASE j \in 1..Len(frames)
      BY <2>6, <2>8, <3>1
    <3>2. CASE j = Len(frames) + 1
      <4>1. index[frames[i].node] \in Nat /\ index[frames[i].node] <= counter
        BY <1>9, TypeFacts
      <4>2. index'[frames'[i].node] = index[frames[i].node]
        BY <2>6
      <4> QED
        BY <2>7, <3>2, <4>1, <4>2, TypeFacts
    <3>3. j \in 1..Len(frames) \/ j = Len(frames) + 1
      <4>1. Len(frames) \in Nat
        BY TypeFacts
      <4> QED
        BY <4>1
    <3> QED
      BY <3>1, <3>2, <3>3
  <2>10. \A i \in DOMAIN frames' : OnStack(frames[i].node)'
    <3>1. \A i \in 1..Len(frames) : OnStack(frames[i].node)
      BY TypeFacts DEF SearchInv, StackIsOrdered
    <3>2. \A i \in 1..Len(frames) : OnStack(frames[i].node)'
      <4> SUFFICES ASSUME NEW i \in 1..Len(frames)
                   PROVE  OnStack(frames[i].node)'
        OBVIOUS
      <4>1. PICK k \in DOMAIN stack : stack[k] = frames[i].node
        BY <3>1 DEF OnStack
      <4> QED
        BY <1>3, <1>12, <4>1, TypeFacts DEF OnStack
    <3>3. \E k \in DOMAIN stack' : stack'[k] = frames'[Len(frames) + 1].node
      BY <1>3, <1>4, <1>5, TypeFacts
    <3> QED
      BY <1>4, <3>2, <3>3, TypeFacts DEF OnStack
  <2> QED
    BY <2>5, <2>9, <2>10, <2>11 DEF StackIsOrdered, Visited
<1>16. VisitedAreKept'
  BY <1>8, <1>11 DEF SearchInv, VisitedAreKept, Visited, Emitted
<1>17. HandledAreVisited'
  BY <1>8, <1>9, <1>13, TypeFacts DEF SearchInv, HandledAreVisited, Visited
<1>18. LowlinksReach'
  BY <1>8, <1>9, <1>11, <1>13, TypeFacts
  DEF SearchInv, LowlinksReach, IndicesAreOnce
<1>19. LowlinksPropagate'
  <2> SUFFICES ASSUME NEW i \in 1..(Len(frames) + 1), NEW g \in Functions,
                      OnStack(g)',
                      index'[frames'[i].node] <= index'[g],
                      \A j \in 1..(Len(frames) + 1) :
                        i < j => index'[g] < index'[frames'[j].node]
               PROVE  lowlink'[frames'[i].node] <= lowlink'[g]
    BY <1>4 DEF LowlinksPropagate
  <2>1. CASE i = Len(frames) + 1
    <3>1. frames'[i].node = f
      BY <1>4, <1>5, <2>1
    <3>2. g = f
      BY <1>8, <1>9, <3>1, TypeFacts
    <3> QED
      BY <1>8, <3>1, <3>2, TypeFacts
  <2>2. CASE i \in 1..Len(frames)
    <3>1. index'[g] < counter + 1
      BY <1>4, <1>5, <1>8, <2>2, TypeFacts
    <3>2. g # f
      BY <1>8, <3>1, TypeFacts
    <3>3. OnStack(g) /\ index'[g] = index[g] /\ lowlink'[g] = lowlink[g]
      BY <1>8, <1>11, <3>2
    <3>4. \A j \in 1..Len(frames) :
            /\ index'[frames'[j].node] = index[frames[j].node]
            /\ lowlink'[frames'[j].node] = lowlink[frames[j].node]
      BY <1>8, <1>10, <1>12, TypeFacts
    <3>5. \A j \in 1..Len(frames) : i < j => index[g] < index[frames[j].node]
      BY <3>3, <3>4, TypeFacts
    <3>6. index[frames[i].node] <= index[g]
      BY <2>2, <3>3, <3>4
    <3>7. lowlink[frames[i].node] <= lowlink[g]
      BY <2>2, <3>3, <3>5, <3>6, TypeFacts DEF SearchInv, LowlinksPropagate
    <3> QED
      BY <2>2, <3>3, <3>4, <3>7
  <2> QED
    BY <2>1, <2>2, TypeFacts
<1>20. RootHasFrame'
  <2>1. CASE stack = <<>>
    <3>1. Len(stack) = 0 /\ \A g \in Functions : ~OnStack(g)
      BY <2>1 DEF OnStack
    <3>2. Len(frames) = 0
      BY <3>1, TypeFacts DEF SearchInv, StackIsOrdered
    <3>3. stack'[1] = f /\ frames'[1].node = f /\ 1 \in DOMAIN frames'
      BY <1>3, <1>4, <1>5, <3>1, <3>2
    <3>4. \A g \in Functions : OnStack(g)' => g = f
      BY <1>11, <3>1
    <3>5. frames' # <<>>
      BY <3>3
    <3> QED
      BY <1>8, <3>3, <3>4, <3>5, TypeFacts DEF RootHasFrame
  <2>2. CASE stack # <<>>
    <3>1. 1 \in 1..Len(stack) /\ 1 \in 1..Len(frames)
      BY <2>2, TypeFacts, EmptySeq DEF SearchInv, RootHasFrame, SearchTypeOK
    <3>2. /\ stack'[1] = stack[1] /\ frames'[1].node = stack'[1]
          /\ stack[1] \in Functions /\ stack[1] # f
          /\ 1 \in DOMAIN frames'
      BY <1>3, <1>4, <1>10, <1>12, <2>2, <3>1, TypeFacts
      DEF SearchInv, RootHasFrame
    <3>3. frames' # <<>>
      BY <3>2
    <3>4. \A g \in Functions : OnStack(g)' => index'[stack'[1]] <= lowlink'[g]
      BY <1>8, <1>9, <1>11, <3>2, TypeFacts DEF SearchInv, RootHasFrame
    <3> QED
      BY <3>2, <3>3, <3>4 DEF RootHasFrame
  <2> QED
    BY <2>1, <2>2
<1>21. CalleesFirst'
  BY DEF SearchInv, CalleesFirst, Callees
<1> QED
  BY <1>7, <1>14, <1>15, <1>16, <1>17, <1>18, <1>19, <1>20, <1>21 DEF SearchInv

-----------------------------------------------------------------------------
(* What the frame on top says of the others.                               *)
LEMMA TopFacts ==
  ASSUME SearchTypeOK, SearchInv, frames # <<>>
  PROVE  /\ Len(frames) \in 1..Len(frames)
         /\ Last(frames) = frames[Len(frames)]
         /\ Last(frames).node \in Functions
         /\ OnStack(Last(frames).node)
         /\ \A i \in 1..Len(frames) :
              index[frames[i].node] <= index[Last(frames).node]
         /\ \A i \in 1..Len(frames) :
              frames[i].node = Last(frames).node => i = Len(frames)
<1>1. Len(frames) \in 1..Len(frames)
  BY TypeFacts, EmptySeq DEF SearchTypeOK
<1>2. Last(frames) = frames[Len(frames)]
  BY DEF Last
<1>3. Last(frames).node \in Functions /\ OnStack(Last(frames).node)
  BY <1>1, <1>2, TypeFacts DEF SearchInv, StackIsOrdered
<1>4. \A i \in 1..Len(frames) : i = Len(frames) \/ i < Len(frames)
  <2>1. Len(frames) \in Nat
    BY TypeFacts
  <2> QED
    BY <2>1
<1>5. \A i, j \in 1..Len(frames) :
        i < j => index[frames[i].node] < index[frames[j].node]
  BY TypeFacts DEF SearchInv, StackIsOrdered
<1>6. \A i \in 1..Len(frames) :
        i = Len(frames) \/ index[frames[i].node] < index[Last(frames).node]
  BY <1>1, <1>2, <1>4, <1>5
<1>7. \A i \in 1..Len(frames) : index[frames[i].node] \in Nat
  BY TypeFacts
<1>8. \A i \in 1..Len(frames) :
        index[frames[i].node] <= index[Last(frames).node]
  BY <1>1, <1>2, <1>6, <1>7
<1>9. \A i \in 1..Len(frames) :
        frames[i].node = Last(frames).node => i = Len(frames)
  BY <1>1, <1>2, <1>6, <1>7
<1> QED
  BY <1>1, <1>2, <1>3, <1>8, <1>9

(* Passing over a callee that has been visited.                            *)
LEMMA RelaxPreserves ==
  ASSUME SearchTypeOK, SearchInv, frames # <<>>,
         NEW node, node = Last(frames).node,
         NEW next \in Last(frames).todo, Visited(next),
         frames' = [frames EXCEPT ![Len(frames)].todo = @ \ {next}],
         lowlink' = IF Relaxes(node, next)
                      THEN [lowlink EXCEPT ![node] = index[next]]
                      ELSE lowlink,
         UNCHANGED <<index, counter, stack, calls, components>>
  PROVE  SearchTypeOK' /\ SearchInv'
<1>1. /\ Len(frames) \in 1..Len(frames)
      /\ Last(frames) = frames[Len(frames)]
      /\ node = frames[Len(frames)].node
      /\ next \in frames[Len(frames)].todo
      /\ node \in Functions
      /\ OnStack(node)
      /\ \A i \in 1..Len(frames) : index[frames[i].node] <= index[node]
      /\ \A i \in 1..Len(frames) : frames[i].node = node => i = Len(frames)
  BY TopFacts
<1>2. next \in Functions
  BY <1>1, TypeFacts
<1>3. /\ frames' \in Seq(Frames)
      /\ DOMAIN frames' = 1..Len(frames)
      /\ \A i \in 1..Len(frames) : i # Len(frames) => frames'[i] = frames[i]
      /\ frames'[Len(frames)].node = node
      /\ frames'[Len(frames)].todo = frames[Len(frames)].todo \ {next}
  <2>1. [frames[Len(frames)] EXCEPT !.todo = @ \ {next}] \in Frames
    BY <1>1, TypeFacts DEF Frames
  <2>2. frames' = [frames EXCEPT ![Len(frames)] =
                     [frames[Len(frames)] EXCEPT !.todo = @ \ {next}]]
    OBVIOUS
  <2>3. frames' \in Seq(Frames)
    BY <1>1, <2>1, <2>2, ExceptSeq DEF SearchTypeOK
  <2> QED
    BY <1>1, <2>2, <2>3, TypeFacts DEF Frames
<1>4. \A i \in 1..Len(frames) : frames'[i].node = frames[i].node
  BY <1>1, <1>3
<1>5. \A g \in Functions : OnStack(g)' <=> OnStack(g)
  BY DEF OnStack
<1>6. \A u, g \in Functions :
        Handled(u, g)' => Handled(u, g) \/ (u = node /\ g = next)
  <2> SUFFICES ASSUME NEW u \in Functions, NEW g \in Functions,
                      Handled(u, g)', ~(u = node /\ g = next)
               PROVE  Handled(u, g)
    OBVIOUS
  <2>1. g \in Callees(u)
    BY DEF Handled, Callees
  <2>2. \A i \in 1..Len(frames) : frames'[i].node = u => g \notin frames'[i].todo
    BY <1>3 DEF Handled
  <2>3. \A i \in 1..Len(frames) : frames[i].node = u => g \notin frames[i].todo
    BY <1>1, <1>3, <1>4, <2>2
  <2> QED
    BY <2>1, <2>3, TypeFacts DEF Handled
<1>7. /\ lowlink' \in [Functions -> Nat]
      /\ \A g \in Functions : g # node => lowlink'[g] = lowlink[g]
      /\ lowlink'[node] <= lowlink[node]
      /\ OnStack(next) => lowlink'[node] <= index[next]
      /\ lowlink'[node] = lowlink[node]
           \/ (OnStack(next) /\ lowlink'[node] = index[next])
  BY <1>1, <1>2, TypeFacts DEF SearchTypeOK, Relaxes
<1>8. \A g \in Functions : lowlink'[g] \in Nat /\ lowlink'[g] <= lowlink[g]
  BY <1>7, TypeFacts
<1>9. SearchTypeOK'
  BY <1>3, <1>7 DEF SearchTypeOK
<1>10. IndicesAreOnce' /\ VisitedAreKept' /\ CalleesFirst'
  BY DEF SearchInv, IndicesAreOnce, VisitedAreKept, CalleesFirst, Visited,
         Emitted, OnStack, Callees
<1>11. StackIsOrdered'
  <2>1. /\ \A i \in DOMAIN stack' : Visited(stack[i])'
        /\ \A i, j \in DOMAIN stack' : i < j => index'[stack'[i]] < index'[stack'[j]]
    BY DEF SearchInv, StackIsOrdered, Visited
  <2>2. \A i, j \in DOMAIN frames' :
          i < j => index'[frames'[i].node] < index'[frames'[j].node]
    BY <1>3, <1>4, TypeFacts DEF SearchInv, StackIsOrdered
  <2>3. \A i \in DOMAIN frames' : OnStack(frames[i].node)'
    BY <1>3, <1>4, TypeFacts DEF SearchInv, StackIsOrdered, OnStack
  <2> QED
    BY <2>1, <2>2, <2>3 DEF StackIsOrdered
<1>12. HandledAreVisited'
  BY <1>6 DEF SearchInv, HandledAreVisited, Visited
<1>13. LowlinksReach'
  BY <1>1, <1>5, <1>6, <1>7, <1>8, TypeFacts DEF SearchInv, LowlinksReach
<1>14. LowlinksPropagate'
  <2> SUFFICES ASSUME NEW i \in 1..Len(frames), NEW f \in Functions,
                      OnStack(f)',
                      index[frames[i].node] <= index[f],
                      \A j \in 1..Len(frames) :
                        i < j => index[f] < index[frames[j].node]
               PROVE  lowlink'[frames[i].node] <= lowlink'[f]
    BY <1>3, <1>4 DEF LowlinksPropagate
  <2>1. OnStack(f)
    BY <1>5
  <2>2. lowlink[frames[i].node] <= lowlink[f] /\ frames[i].node \in Functions
    BY <2>1, TypeFacts DEF SearchInv, LowlinksPropagate
  <2>3. CASE f # node
    BY <1>7, <1>8, <2>2, <2>3, TypeFacts
  <2>4. CASE f = node
    BY <1>1, <2>4, TypeFacts
  <2> QED
    BY <2>3, <2>4
<1>15. RootHasFrame'
  <2>1. stack' # <<>> => frames' # <<>> /\ frames'[1].node = stack'[1]
    BY <1>1, <1>3, <1>4, TypeFacts DEF SearchInv, RootHasFrame
  <2>2. OnStack(next) => index[stack[1]] <= index[next]
    <3>1. SUFFICES ASSUME NEW i \in 1..Len(stack), stack[i] = next
                   PROVE  index[stack[1]] <= index[next]
      BY TypeFacts DEF OnStack
    <3>2. 1 \in 1..Len(stack) /\ stack[1] \in Functions
      BY TypeFacts
    <3> QED
      BY <1>2, <3>1, <3>2, TypeFacts DEF SearchInv, StackIsOrdered
  <2>3. \A f \in Functions : OnStack(f) => index[stack[1]] <= lowlink'[f]
    BY <1>1, <1>7, <2>2, TypeFacts DEF SearchInv, RootHasFrame
  <2> QED
    BY <1>5, <2>1, <2>3 DEF RootHasFrame
<1> QED
  BY <1>9, <1>10, <1>11, <1>12, <1>13, <1>14, <1>15 DEF SearchInv

-----------------------------------------------------------------------------
(* Retiring the frame on top, whether or not its component is popped: what *)
(* is handled stays the same, and lowlinks only go down, to no less than a *)
(* lowlink of the stack.                                                   *)
LEMMA RetiredFacts ==
  ASSUME SearchTypeOK, SearchInv, frames # <<>>,
         NEW top \in Nat, top = Len(frames),
         NEW node, node = Last(frames).node,
         Last(frames).todo = {},
         frames' = Front(frames),
         lowlink' = Propagated(node, Front(frames)),
         UNCHANGED <<index, calls>>
  PROVE  /\ frames' \in Seq(Frames)
         /\ DOMAIN frames' = 1..(top - 1)
         /\ \A i \in 1..(top - 1) : frames'[i] = frames[i]
         /\ \A u, g \in Functions : Handled(u, g)' <=> Handled(u, g)
         /\ lowlink' \in [Functions -> Nat]
         /\ \A g \in Functions :
              /\ lowlink'[g] <= lowlink[g]
              /\ lowlink'[g] # lowlink[g] =>
                   /\ top - 1 \in 1..top
                   /\ g = frames[top - 1].node
                   /\ lowlink'[g] = lowlink[node]
              /\ /\ top - 1 \in 1..top
                 /\ g = frames[top - 1].node
                 => lowlink'[g] <= lowlink[node]
<1>1. /\ top \in 1..top
      /\ node = frames[top].node
      /\ frames[top].todo = {}
      /\ node \in Functions
      /\ \A i \in 1..top : frames[i].node = node => i = top
  BY TopFacts
<1>2. top >= 1
  BY <1>1
<1>3. /\ frames' \in Seq(Frames)
      /\ Len(frames') = top - 1
      /\ DOMAIN frames' = 1..(top - 1)
      /\ \A i \in 1..(top - 1) : frames'[i] = frames[i]
  <2>1. frames' = SubSeq(frames, 1, top - 1)
    BY DEF Front
  <2>2. frames \in Seq(Frames)
    BY DEF SearchTypeOK
  <2>3. PICK n \in 0..top : n = top - 1
    BY <1>2
  <2>4. /\ SubSeq(frames, 1, n) \in Seq(Frames)
        /\ Len(SubSeq(frames, 1, n)) = n
        /\ DOMAIN SubSeq(frames, 1, n) = 1..n
        /\ \A i \in 1..n : SubSeq(frames, 1, n)[i] = frames[i]
    BY <2>2, PrefixFacts
  <2> QED
    BY <2>1, <2>3, <2>4
<1>4. \A u, g \in Functions : Handled(u, g)' <=> Handled(u, g)
  <2> SUFFICES ASSUME NEW u \in Functions, NEW g \in Functions
               PROVE  Handled(u, g)' <=> Handled(u, g)
    OBVIOUS
  <2>1. \A i \in 1..top : i = top \/ i \in 1..(top - 1)
    BY <1>2
  <2>2. (\A i \in 1..top : frames[i].node = u => g \notin frames[i].todo)
          <=> (\A i \in 1..(top - 1) :
                 frames[i].node = u => g \notin frames[i].todo)
    BY <1>1, <1>2, <2>1
  <2>3. (g \in Callees(u))' <=> g \in Callees(u)
    BY DEF Callees
  <2> QED
    BY <1>3, <2>2, <2>3, TypeFacts DEF Handled
<1>5. CASE top = 1
  <2>1. Front(frames) = <<>>
    BY <1>3, <1>5, EmptySeq DEF SearchTypeOK
  <2>2. lowlink' = lowlink
    BY <2>1 DEF Propagated
  <2>3. top - 1 \notin 1..top
    BY <1>5
  <2>4. \A g \in Functions : lowlink[g] \in Nat
    BY TypeFacts
  <2>5. \A g \in Functions : lowlink'[g] <= lowlink[g]
    BY <2>2, <2>4
  <2>6. lowlink' \in [Functions -> Nat]
    BY <2>2 DEF SearchTypeOK
  <2> QED
    BY <1>3, <1>4, <2>2, <2>3, <2>5, <2>6
<1>6. CASE top # 1
  <2>1. /\ top - 1 \in 1..top
        /\ top - 1 \in 1..(top - 1)
    <3>1. top >= 2
      BY <1>2, <1>6
    <3> QED
      BY <1>2, <3>1
  <2>2. Front(frames) # <<>>
    BY <1>3, <2>1
  <2>3. Last(Front(frames)).node = frames[top - 1].node
    BY <1>3, <2>1 DEF Last
  <2>4. frames[top - 1].node \in Functions
    BY <2>1, TypeFacts
  <2>5. lowlink' = IF lowlink[node] < lowlink[frames[top - 1].node]
                     THEN [lowlink EXCEPT
                             ![frames[top - 1].node] = lowlink[node]]
                     ELSE lowlink
    BY <2>2, <2>3 DEF Propagated
  <2>6. \A g \in Functions : lowlink[g] \in Nat
    BY TypeFacts
  <2>7. lowlink' \in [Functions -> Nat]
    BY <1>1, <2>4, <2>5, <2>6 DEF SearchTypeOK
  <2>8. \A g \in Functions :
          /\ lowlink'[g] <= lowlink[g]
          /\ lowlink'[g] # lowlink[g] =>
               /\ g = frames[top - 1].node
               /\ lowlink'[g] = lowlink[node]
          /\ g = frames[top - 1].node => lowlink'[g] <= lowlink[node]
    BY <1>1, <2>4, <2>5, <2>6 DEF SearchTypeOK
  <2> QED
    BY <1>3, <1>4, <2>1, <2>7, <2>8
<1> QED
  BY <1>5, <1>6

(* Retiring a frame whose lowlink is below its index: nothing is popped.   *)
LEMMA RetireKeeps ==
  ASSUME SearchTypeOK, SearchInv, frames # <<>>,
         NEW top \in Nat, top = Len(frames),
         NEW node, node = Last(frames).node,
         Last(frames).todo = {},
         frames' = Front(frames),
         lowlink' = Propagated(node, Front(frames)),
         lowlink[node] # index[node],
         UNCHANGED <<index, counter, stack, calls, components>>
  PROVE  SearchTypeOK' /\ SearchInv'
<1>1. /\ top \in 1..top
      /\ node = frames[top].node
      /\ node \in Functions
      /\ OnStack(node)
      /\ \A i \in 1..top : index[frames[i].node] <= index[node]
  BY TopFacts
<1>2. top >= 1
  BY <1>1
<1>3. /\ frames' \in Seq(Frames)
      /\ DOMAIN frames' = 1..(top - 1)
      /\ \A i \in 1..(top - 1) : frames'[i] = frames[i]
      /\ \A u, g \in Functions : Handled(u, g)' <=> Handled(u, g)
      /\ lowlink' \in [Functions -> Nat]
      /\ \A g \in Functions :
           /\ lowlink'[g] <= lowlink[g]
           /\ lowlink'[g] # lowlink[g] =>
                /\ top - 1 \in 1..top
                /\ g = frames[top - 1].node
                /\ lowlink'[g] = lowlink[node]
           /\ /\ top - 1 \in 1..top
              /\ g = frames[top - 1].node
              => lowlink'[g] <= lowlink[node]
  BY RetiredFacts
<1>4. \A g \in Functions : lowlink'[g] \in Nat /\ lowlink[g] \in Nat /\ index[g] \in Nat
  BY <1>3, TypeFacts
<1>5. \A g \in Functions : OnStack(g)' <=> OnStack(g)
  BY DEF OnStack
<1>6. \A i \in 1..(top - 1) :
        i \in 1..top /\ i < top /\ frames[i].node \in Functions
  BY <1>2, TypeFacts
<1>7. SearchTypeOK'
  BY <1>3 DEF SearchTypeOK
<1>8. IndicesAreOnce' /\ VisitedAreKept' /\ CalleesFirst'
  BY DEF SearchInv, IndicesAreOnce, VisitedAreKept, CalleesFirst, Visited,
         Emitted, OnStack, Callees
<1>9. StackIsOrdered'
  <2>1. /\ \A i \in DOMAIN stack' : Visited(stack[i])'
        /\ \A i, j \in DOMAIN stack' : i < j => index'[stack'[i]] < index'[stack'[j]]
    BY DEF SearchInv, StackIsOrdered, Visited
  <2>2. \A i, j \in 1..top :
          i < j => index[frames[i].node] < index[frames[j].node]
    BY TypeFacts DEF SearchInv, StackIsOrdered
  <2>3. \A i, j \in DOMAIN frames' :
          i < j => index'[frames'[i].node] < index'[frames'[j].node]
    <3>1. /\ DOMAIN frames' = 1..(top - 1)
          /\ \A i \in 1..(top - 1) :
               /\ frames'[i].node = frames[i].node
               /\ i \in 1..top
               /\ index'[frames'[i].node] = index[frames[i].node]
      BY <1>3, <1>6
    <3> QED
      BY <2>2, <3>1
  <2>4. \A i \in 1..top : OnStack(frames[i].node)
    BY TypeFacts DEF SearchInv, StackIsOrdered
  <2>5. \A i \in DOMAIN frames' : OnStack(frames[i].node)'
    BY <1>3, <1>6, <2>4 DEF OnStack
  <2> QED
    BY <1>3, <2>1, <2>3, <2>5 DEF StackIsOrdered, OnStack
<1>10. HandledAreVisited'
  BY <1>3 DEF SearchInv, HandledAreVisited, Visited
<1>11. LowlinksReach'
  BY <1>3, <1>4, <1>5 DEF SearchInv, LowlinksReach
<1>12. LowlinksPropagate'
  <2> SUFFICES ASSUME NEW i \in 1..(top - 1), NEW f \in Functions,
                      OnStack(f),
                      index[frames[i].node] <= index[f],
                      \A j \in 1..(top - 1) :
                        i < j => index[f] < index[frames[j].node]
               PROVE  lowlink'[frames[i].node] <= lowlink'[f]
    <3>1. /\ DOMAIN frames' = 1..(top - 1)
          /\ \A i \in 1..(top - 1) : frames'[i].node = frames[i].node
      BY <1>3
    <3>2. index' = index
      OBVIOUS
    <3> QED
      BY <1>5, <3>1, <3>2 DEF LowlinksPropagate
  <2>1. lowlink[node] <= lowlink[f] \/ index[f] < index[node]
    <3>1. \A j \in DOMAIN frames : ~(top < j)
      BY <1>2, TypeFacts
    <3>2. lowlink[node] <= lowlink[f] \/ ~(index[node] <= index[f])
      BY <1>1, <3>1, TypeFacts DEF SearchInv, LowlinksPropagate
    <3> QED
      BY <1>1, <1>4, <3>2
  <2>2. i = top - 1 \/ index[f] < index[frames[top - 1].node]
    <3>1. \/ i = top - 1
          \/ i < top - 1 /\ top - 1 \in 1..(top - 1)
      BY <1>2
    <3> QED
      BY <3>1
  <2>3. /\ top - 1 \in 1..top
        /\ top - 1 \in 1..(top - 1)
        /\ top - 1 < top
    BY <1>2
  <2>4. PICK p \in Functions : p = frames[top - 1].node
    BY <2>3, TypeFacts
  <2>5. index[p] < index[node]
    BY <1>1, <2>3, <2>4, TypeFacts DEF SearchInv, StackIsOrdered
  <2>6. CASE index[f] < index[node]
    <3>1. \A j \in 1..top : i < j => index[f] < index[frames[j].node]
      <4>1. \A j \in 1..top : j \in 1..(top - 1) \/ j = top
        BY <1>2
      <4> QED
        BY <1>1, <2>6, <4>1
    <3>2. lowlink[frames[i].node] <= lowlink[f] /\ frames[i].node \in Functions
      BY <1>6, <3>1, TypeFacts DEF SearchInv, LowlinksPropagate
    <3>3. CASE f = p
      <4>1. i = top - 1
        BY <1>4, <2>2, <2>4, <3>3
      <4> QED
        BY <1>4, <2>4, <3>3, <4>1
    <3>4. CASE f # p
      <4>1. lowlink'[f] = lowlink[f] /\ lowlink'[frames[i].node] <= lowlink[frames[i].node]
        BY <1>3, <2>4, <3>2, <3>4
      <4> QED
        BY <1>4, <3>2, <4>1
    <3> QED
      BY <3>3, <3>4
  <2>7. CASE ~(index[f] < index[node])
    <3>1. i = top - 1
      BY <1>1, <1>4, <2>2, <2>4, <2>5, <2>7
    <3>2. f # p
      BY <2>5, <2>7
    <3>3. lowlink'[f] = lowlink[f] /\ lowlink'[p] <= lowlink[node]
      BY <1>3, <2>3, <2>4, <3>2
    <3>4. lowlink[node] <= lowlink[f]
      BY <2>1, <2>7
    <3> QED
      BY <1>1, <1>4, <2>4, <3>1, <3>3, <3>4
  <2> QED
    BY <2>6, <2>7
<1>13. RootHasFrame'
  <2> SUFFICES ASSUME stack # <<>>
               PROVE  /\ frames' # <<>> /\ frames'[1].node = stack[1]
                      /\ \A f \in Functions :
                           OnStack(f) => index[stack[1]] <= lowlink'[f]
    BY <1>5, <1>4 DEF RootHasFrame, OnStack
  <2>1. /\ frames[1].node = stack[1]
        /\ \A f \in Functions : OnStack(f) => index[stack[1]] <= lowlink[f]
    BY DEF SearchInv, RootHasFrame
  <2>2. top # 1
    <3>1. lowlink[node] <= index[node]
      BY <1>1 DEF SearchInv, LowlinksReach
    <3> QED
      BY <1>1, <1>4, <2>1, <3>1
  <2>3. 1 \in 1..(top - 1)
    BY <1>2, <2>2
  <2>4. frames' # <<>> /\ frames'[1].node = stack[1]
    BY <1>3, <2>1, <2>3
  <2>5. \A f \in Functions : OnStack(f) => index[stack[1]] <= lowlink'[f]
    BY <1>1, <1>3, <2>1
  <2> QED
    BY <2>4, <2>5
<1> QED
  BY <1>7, <1>8, <1>9, <1>10, <1>11, <1>12, <1>13 DEF SearchInv

(* What is left on the stack when node's component is popped, and what is  *)
(* in the component.                                                       *)
LEMMA PoppedFacts ==
  ASSUME SearchTypeOK, SearchInv,
         NEW node \in Functions, OnStack(node),
         stack' = SubSeq(stack, 1, Place(node) - 1)
  PROVE  /\ stack' \in Seq(Functions)
         /\ \A i \in DOMAIN stack' :
              i \in 1..Len(stack) /\ stack'[i] = stack[i]
         /\ stack' # <<>> => 1 \in DOMAIN stack'
         /\ \A g \in Functions : OnStack(g)' => stack' # <<>>
         /\ \A g \in Functions :
              OnStack(g)' => OnStack(g) /\ index[g] < index[node]
         /\ \A g \in Functions :
              OnStack(g) /\ index[g] < index[node] => OnStack(g)'
         /\ FromStack(node) \subseteq Functions
         /\ \A g \in Functions :
              g \in FromStack(node) <=> OnStack(g) /\ ~(index[g] < index[node])
<1>1. PICK k \in 1..Len(stack) : k = Place(node) /\ stack[k] = node
  BY TypeFacts DEF OnStack, Place
<1>2. Len(stack) \in Nat /\ k \in Nat /\ 1 <= k /\ k <= Len(stack)
  <2>1. Len(stack) \in Nat
    BY TypeFacts
  <2> QED
    BY <2>1
<1>3. /\ stack' \in Seq(Functions)
      /\ DOMAIN stack' = 1..(k - 1)
      /\ \A i \in 1..(k - 1) : stack'[i] = stack[i]
  <2>1. PICK n \in 0..Len(stack) : n = k - 1
    BY <1>2
  <2>2. stack \in Seq(Functions)
    BY DEF SearchTypeOK
  <2>3. stack' = SubSeq(stack, 1, n)
    BY <1>1, <2>1
  <2>4. /\ SubSeq(stack, 1, n) \in Seq(Functions)
        /\ DOMAIN SubSeq(stack, 1, n) = 1..n
        /\ \A i \in 1..n : SubSeq(stack, 1, n)[i] = stack[i]
    BY <2>2, PrefixFacts
  <2> QED
    BY <2>1, <2>3, <2>4
<1>4. \A i, j \in 1..Len(stack) : i < j => index[stack[i]] < index[stack[j]]
  BY TypeFacts DEF SearchInv, StackIsOrdered
<1>5. \A g \in Functions : OnStack(g)' => OnStack(g) /\ index[g] < index[node]
  <2> SUFFICES ASSUME NEW i \in 1..(k - 1), stack[i] \in Functions
               PROVE  OnStack(stack[i]) /\ index[stack[i]] < index[node]
    BY <1>3 DEF OnStack
  <2>1. i \in 1..Len(stack) /\ i < k
    BY <1>2
  <2> QED
    BY <1>1, <1>4, <2>1, TypeFacts DEF OnStack
<1>6. \A g \in Functions : OnStack(g) /\ index[g] < index[node] => OnStack(g)'
  <2> SUFFICES ASSUME NEW i \in 1..Len(stack), index[stack[i]] < index[node]
               PROVE  i \in 1..(k - 1)
    BY <1>3, TypeFacts DEF OnStack
  <2>1. stack[i] \in Functions
    BY TypeFacts
  <2>2. ~(k < i) /\ i # k
    BY TypeFacts, <1>1, <1>4, <2>1
  <2> QED
    BY <1>2, <2>2
<1>7. \A g \in Functions :
         g \in FromStack(node) <=> OnStack(g) /\ ~(index[g] < index[node])
  <2>1. FromStack(node) = {stack[i] : i \in k..Len(stack)}
    BY <1>1 DEF FromStack
  <2>2. ASSUME NEW i \in k..Len(stack)
        PROVE  OnStack(stack[i]) /\ ~(index[stack[i]] < index[node])
    <3>1. i \in 1..Len(stack) /\ (i = k \/ k < i)
      BY <1>2
    <3>2. stack[i] \in Functions /\ OnStack(stack[i])
      BY <3>1, TypeFacts DEF OnStack
    <3> QED
      BY TypeFacts, <1>1, <1>4, <3>1, <3>2
  <2>3. ASSUME NEW i \in 1..Len(stack), ~(index[stack[i]] < index[node])
        PROVE  i \in k..Len(stack)
    <3>1. i < k \/ i \in k..Len(stack)
      BY <1>2
    <3> QED
      BY <1>1, <1>4, <2>3, <3>1
  <2>4. \A g \in Functions :
          g \in FromStack(node) => OnStack(g) /\ ~(index[g] < index[node])
    BY <2>1, <2>2
  <2>5. ASSUME NEW g \in Functions, OnStack(g), ~(index[g] < index[node])
        PROVE  g \in FromStack(node)
    <3>1. PICK i \in 1..Len(stack) : stack[i] = g
      BY <2>5, TypeFacts DEF OnStack
    <3>2. i \in k..Len(stack)
      BY <2>3, <2>5, <3>1
    <3> QED
      BY <2>1, <3>1, <3>2
  <2> QED
    BY <2>4, <2>5
<1>8. FromStack(node) \subseteq Functions
  BY <1>1, <1>2, TypeFacts DEF FromStack
<1>9. stack' # <<>> => 1 \in DOMAIN stack'
  BY <1>2, <1>3, EmptySeq
<1>11. ASSUME NEW g \in Functions, OnStack(g)'
       PROVE  stack' # <<>>
  <2>1. Len(stack') = k - 1 /\ k - 1 >= 1
    BY <1>2, <1>3, <1>11, LenProperties DEF OnStack
  <2> QED
    BY <1>3, <2>1, EmptySeq
<1>10. \A i \in DOMAIN stack' : i \in 1..Len(stack) /\ stack'[i] = stack[i]
  BY <1>2, <1>3
<1> QED
  BY <1>3, <1>5, <1>6, <1>7, <1>8, <1>9, <1>10, <1>11

(* Retiring the frame of the root of a component: the stack is popped down *)
(* to its place.                                                           *)
LEMMA RetirePops ==
  ASSUME SearchTypeOK, SearchInv, frames # <<>>,
         NEW top \in Nat, top = Len(frames),
         NEW node, node = Last(frames).node,
         Last(frames).todo = {},
         frames' = Front(frames),
         lowlink' = Propagated(node, Front(frames)),
         lowlink[node] = index[node],
         components' = Append(components, FromStack(node)),
         stack' = SubSeq(stack, 1, Place(node) - 1),
         UNCHANGED <<index, counter, calls>>
  PROVE  SearchTypeOK' /\ SearchInv'
<1>1. /\ top \in 1..top
      /\ node = frames[top].node
      /\ frames[top].todo = {}
      /\ node \in Functions
      /\ OnStack(node)
      /\ \A i \in 1..top : index[frames[i].node] <= index[node]
      /\ \A i \in 1..top : frames[i].node = node => i = top
  BY TopFacts
<1>2. /\ frames' \in Seq(Frames)
      /\ DOMAIN frames' = 1..(top - 1)
      /\ \A i \in 1..(top - 1) : frames'[i] = frames[i]
  BY RetiredFacts
<1>3. \A u, g \in Functions : Handled(u, g)' <=> Handled(u, g)
  BY RetiredFacts
<1>4. /\ lowlink' \in [Functions -> Nat]
      /\ \A g \in Functions :
           /\ lowlink'[g] <= lowlink[g]
           /\ lowlink'[g] # lowlink[g] =>
                /\ top - 1 \in 1..top
                /\ g = frames[top - 1].node
                /\ lowlink'[g] = lowlink[node]
  BY RetiredFacts
<1>5. \A g \in Functions :
        lowlink'[g] \in Nat /\ lowlink[g] \in Nat /\ index[g] \in Nat
  BY <1>4, TypeFacts
<1>6. \A i \in 1..(top - 1) :
        i \in 1..top /\ i < top /\ frames[i].node \in Functions
  BY TypeFacts
<1>7. /\ stack' \in Seq(Functions)
      /\ \A i \in DOMAIN stack' :
           i \in 1..Len(stack) /\ stack'[i] = stack[i]
      /\ stack' # <<>> => 1 \in DOMAIN stack'
      /\ FromStack(node) \subseteq Functions
  BY <1>1, PoppedFacts
<1>11. \A g \in Functions : OnStack(g)' => OnStack(g) /\ index[g] < index[node]
  BY <1>1, PoppedFacts
<1>12. \A g \in Functions : OnStack(g) /\ index[g] < index[node] => OnStack(g)'
  BY <1>1, PoppedFacts
<1>13. \A g \in Functions :
         g \in FromStack(node) <=> OnStack(g) /\ ~(index[g] < index[node])
  BY <1>1, PoppedFacts
<1>14. /\ components' \in Seq(SUBSET Functions)
       /\ DOMAIN components = 1..Len(components)
       /\ DOMAIN components' = 1..(Len(components) + 1)
       /\ \A c \in 1..Len(components) : components'[c] = components[c]
       /\ components'[Len(components) + 1] = FromStack(node)
       /\ Len(components) \in Nat
  <2>1. components \in Seq(SUBSET Functions)
    BY DEF SearchTypeOK
  <2>2. FromStack(node) \in SUBSET Functions
    BY <1>7
  <2> QED
    BY <2>1, <2>2, AppendFacts
<1>15. SearchTypeOK'
  BY <1>2, <1>4, <1>7, <1>14 DEF SearchTypeOK
<1>16. IndicesAreOnce'
  BY DEF SearchInv, IndicesAreOnce, Visited
<1>17. StackIsOrdered'
  <2>1. \A i, j \in 1..Len(stack) : i < j => index[stack[i]] < index[stack[j]]
    BY TypeFacts DEF SearchInv, StackIsOrdered
  <2>2. /\ \A i \in DOMAIN stack' : Visited(stack[i])'
        /\ \A i, j \in DOMAIN stack' : i < j => index'[stack'[i]] < index'[stack'[j]]
    <3>1. \A i \in 1..Len(stack) : index[stack[i]] # 0
      BY TypeFacts DEF SearchInv, StackIsOrdered, Visited
    <3>2. \A i \in DOMAIN stack' : Visited(stack[i])'
      BY <1>7, <3>1 DEF Visited
    <3>3. \A i, j \in DOMAIN stack' : i < j => index'[stack'[i]] < index'[stack'[j]]
      BY <1>7, <2>1
    <3> QED
      BY <3>2, <3>3
  <2>3. \A i, j \in 1..top :
          i < j => index[frames[i].node] < index[frames[j].node]
    BY TypeFacts DEF SearchInv, StackIsOrdered
  <2>4. \A i, j \in DOMAIN frames' :
          i < j => index'[frames'[i].node] < index'[frames'[j].node]
    <3>1. /\ DOMAIN frames' = 1..(top - 1)
          /\ \A i \in 1..(top - 1) :
               /\ i \in 1..top
               /\ index'[frames'[i].node] = index[frames[i].node]
      BY <1>2, <1>6
    <3> QED
      BY <2>3, <3>1
  <2>5. \A i \in 1..top : OnStack(frames[i].node)
    BY TypeFacts DEF SearchInv, StackIsOrdered
  <2>6. ASSUME NEW i \in 1..(top - 1)
        PROVE  \E j \in DOMAIN stack' : stack'[j] = frames[i].node
    <3>1. PICK f \in Functions : f = frames[i].node
      BY <1>6
    <3>2. OnStack(f) /\ index[f] < index[node]
      BY <1>1, <1>6, <2>3, <2>5, <3>1
    <3>3. OnStack(f)'
      BY <1>12, <3>2
    <3> QED
      BY <3>1, <3>3 DEF OnStack
  <2>7. \A i \in DOMAIN frames' : OnStack(frames[i].node)'
    <3>1. /\ DOMAIN frames' = 1..(top - 1)
          /\ \A i \in 1..(top - 1) : frames'[i] = frames[i]
      BY <1>2
    <3>2. ASSUME NEW i \in 1..(top - 1)
          PROVE  \E j \in DOMAIN stack' : stack'[j] = frames'[i].node
      <4>1. frames'[i] = frames[i]
        BY <3>1
      <4> QED
        BY <2>6, <4>1, Zenon
    <3>3. \A i \in DOMAIN frames' : \E j \in DOMAIN stack' : stack'[j] = frames'[i].node
      BY <3>1, <3>2, Zenon
    <3> QED
      BY <3>3, Zenon DEF OnStack
  <2> QED
    BY <2>2, <2>4, <2>7 DEF StackIsOrdered
<1>18. VisitedAreKept'
  <2> SUFFICES ASSUME NEW f \in Functions, Visited(f)
               PROVE  (OnStack(f) \/ Emitted(f))'
    BY DEF VisitedAreKept, Visited
  <2>1. CASE Emitted(f)
    <3>1. PICK c \in 1..Len(components) : f \in components[c]
      BY <1>14, <2>1 DEF Emitted
    <3>2. c \in DOMAIN components' /\ f \in components'[c]
      BY <1>14, <3>1
    <3> QED
      BY <3>2 DEF Emitted
  <2>2. CASE OnStack(f) /\ index[f] < index[node]
    BY <1>12, <2>2
  <2>3. CASE OnStack(f) /\ ~(index[f] < index[node])
    <3>1. f \in components'[Len(components) + 1]
      BY <1>13, <1>14, <2>3
    <3>2. Len(components) + 1 \in DOMAIN components'
      BY <1>14
    <3> QED
      BY <3>1, <3>2 DEF Emitted
  <2> QED
    BY <2>1, <2>2, <2>3 DEF SearchInv, VisitedAreKept
<1>19. HandledAreVisited'
  BY <1>3 DEF SearchInv, HandledAreVisited, Visited
<1>20. LowlinksReach'
  BY <1>3, <1>4, <1>5, <1>11 DEF SearchInv, LowlinksReach
<1>21. LowlinksPropagate'
  <2> SUFFICES ASSUME NEW i \in 1..(top - 1), NEW f \in Functions,
                      OnStack(f), index[f] < index[node],
                      index[frames[i].node] <= index[f],
                      \A j \in 1..(top - 1) :
                        i < j => index[f] < index[frames[j].node]
               PROVE  lowlink'[frames[i].node] <= lowlink'[f]
    <3>1. /\ DOMAIN frames' = 1..(top - 1)
          /\ \A j \in 1..(top - 1) : frames'[j].node = frames[j].node
      BY <1>2
    <3>2. index' = index
      OBVIOUS
    <3> QED
      BY <1>11, <3>1, <3>2 DEF LowlinksPropagate
  <2>1. \A j \in 1..top : i < j => index[f] < index[frames[j].node]
    <3>1. \A j \in 1..top : j \in 1..(top - 1) \/ j = top
      OBVIOUS
    <3> QED
      BY <1>1, <3>1
  <2>2. lowlink[frames[i].node] <= lowlink[f] /\ frames[i].node \in Functions
    BY <1>6, <2>1, TypeFacts DEF SearchInv, LowlinksPropagate
  <2>3. CASE lowlink'[f] = lowlink[f]
    BY <1>4, <1>5, <2>2, <2>3
  <2>4. CASE lowlink'[f] # lowlink[f]
    <3>1. top - 1 \in 1..(top - 1) /\ f = frames[top - 1].node
      BY <1>4, <2>4
    <3>2. ~(i < top - 1)
      BY <1>5, <3>1
    <3>3. i = top - 1
      BY <3>2
    <3> QED
      BY <1>5, <3>1, <3>3
  <2> QED
    BY <2>3, <2>4
<1>22. RootHasFrame'
  <2> SUFFICES ASSUME stack' # <<>>
               PROVE  /\ frames' # <<>> /\ frames'[1].node = stack'[1]
                      /\ \A f \in Functions :
                           OnStack(f) => index[stack'[1]] <= lowlink'[f]
    <3>1. \A f \in Functions : OnStack(f)' => stack' # <<>>
      BY <1>1, PoppedFacts
    <3>2. index' = index
      OBVIOUS
    <3> QED
      BY <1>11, <3>1, <3>2 DEF RootHasFrame
  <2>1. 1 \in DOMAIN stack' /\ stack'[1] = stack[1] /\ stack[1] \in Functions
    BY <1>7, TypeFacts
  <2>2. /\ stack # <<>>
        /\ frames[1].node = stack[1]
        /\ \A f \in Functions : OnStack(f) => index[stack[1]] <= lowlink[f]
    BY <1>1 DEF OnStack, SearchInv, RootHasFrame
  <2>3. index[stack[1]] < index[node]
    <3>1. OnStack(stack[1])'
      BY <2>1 DEF OnStack
    <3> QED
      BY <1>11, <2>1, <3>1
  <2>4. top # 1
    BY <1>1, <1>5, <2>2, <2>3
  <2>5. 1 \in 1..(top - 1)
    BY <1>1, <2>4
  <2>6. frames' # <<>> /\ frames'[1].node = stack'[1]
    <3>1. frames'[1] = frames[1] /\ 1 \in DOMAIN frames'
      BY <1>2, <2>5
    <3>2. frames' # <<>>
      BY <3>1
    <3> QED
      BY <2>1, <2>2, <3>1, <3>2
  <2>7. \A f \in Functions : OnStack(f) => index[stack[1]] <= lowlink'[f]
    BY <1>1, <1>4, <2>2
  <2> QED
    BY <2>1, <2>6, <2>7
<1>23. CalleesFirst'
  <2>1. ASSUME NEW c \in 1..Len(components),
               NEW f \in components[c], NEW g \in Callees(f)
        PROVE  \E d \in 1..c : g \in components'[d]
    <3>1. PICK d \in 1..c : g \in components[d]
      BY <1>14 DEF SearchInv, CalleesFirst
    <3>2. d \in 1..Len(components)
      BY <1>14
    <3> QED
      BY <1>14, <3>1, <3>2
  <2>2. ASSUME NEW f \in FromStack(node), NEW g \in Callees(f)
        PROVE  \E d \in 1..(Len(components) + 1) : g \in components'[d]
    <3>1. f \in Functions /\ g \in Functions
      BY <1>7 DEF Callees
    <3>2. OnStack(f) /\ ~(index[f] < index[node])
      BY <1>13, <3>1
    <3>3. \A i \in 1..top : frames[i].node = f => i = top
      <4>1. \A i, j \in 1..top :
              i < j => index[frames[i].node] < index[frames[j].node]
        BY TypeFacts DEF SearchInv, StackIsOrdered
      <4>2. \A i \in 1..top : i = top \/ i < top
        OBVIOUS
      <4> QED
        BY <1>1, <3>2, <4>1, <4>2
    <3>4. Handled(f, g)
      BY <1>1, <3>3, TypeFacts DEF Handled
    <3>5. Visited(f)
      BY <3>1, <3>2 DEF SearchInv, StackIsOrdered, OnStack
    <3>6. Visited(g)
      BY <3>1, <3>4, <3>5 DEF SearchInv, HandledAreVisited
    <3>7. CASE Emitted(g)
      <4>1. PICK d \in 1..Len(components) : g \in components[d]
        BY <1>14, <3>7 DEF Emitted
      <4> QED
        BY <1>14, <4>1
    <3>8. CASE OnStack(g)
      <4>1. lowlink[f] <= index[g]
        BY <3>1, <3>2, <3>4, <3>8 DEF SearchInv, LowlinksReach
      <4>2. \A j \in 1..top : ~(top < j)
        OBVIOUS
      <4>3. index[node] <= index[f]
        BY <1>1, <1>5, <3>1, <3>2
      <4>4. lowlink[node] <= lowlink[f]
        BY <1>1, <3>1, <3>2, <4>2, <4>3, TypeFacts
        DEF SearchInv, LowlinksPropagate
      <4>5. ~(index[g] < index[node])
        BY <1>1, <1>5, <3>1, <4>1, <4>4
      <4>6. g \in components'[Len(components) + 1]
        BY <1>13, <1>14, <3>1, <3>8, <4>5
      <4> QED
        BY <1>14, <4>6
    <3> QED
      BY <3>1, <3>6, <3>7, <3>8 DEF SearchInv, VisitedAreKept
  <2>3. ASSUME NEW c \in DOMAIN components', NEW f \in components'[c],
               NEW g \in Callees(f)
        PROVE  \E d \in 1..c : g \in components'[d]
    <3>1. CASE c \in 1..Len(components)
      BY <1>14, <2>1, <3>1
    <3>2. CASE c = Len(components) + 1
      BY <1>14, <2>2, <3>2
    <3> QED
      BY <1>14, <3>1, <3>2
  <2> QED
    BY <2>3 DEF CalleesFirst, Callees
<1> QED
  BY <1>15, <1>16, <1>17, <1>18, <1>19, <1>20, <1>21, <1>22, <1>23
  DEF SearchInv

-----------------------------------------------------------------------------
LEMMA LeastFacts ==
  ASSUME NEW S \in SUBSET Functions, S # {}
  PROVE  Least(S) \in S
<1>1. S \subseteq Nat
  BY NAssumption DEF Functions
<1>2. PICK least \in S : \A m \in S : ~(<<m, least>> \in OpToRel(<, Nat))
  BY <1>1, NatLessThanWellFounded, WFMin
<1>3. \A m \in S : least <= m
  <2> SUFFICES ASSUME NEW m \in S
               PROVE  ~(m < least)
    BY <1>1
  <2>1. m < least => <<m, least>> \in OpToRel(<, Nat)
    BY <1>1, Zenon DEF OpToRel
  <2> QED
    BY <1>2, <2>1
<1> QED
  BY <1>2, <1>3 DEF Least

(* The search of condenseSCC keeps its invariant for any call graph.       *)
THEOREM SearchCorrect == Spec => [](SearchTypeOK /\ SearchInv)
<1>1. Init => SearchTypeOK /\ SearchInv
  <2> SUFFICES ASSUME Init
               PROVE  SearchTypeOK /\ SearchInv
    OBVIOUS
  <2>1. SearchTypeOK
    BY EmptySeq DEF Init, SearchTypeOK
  <2>2. /\ \A f \in Functions : ~OnStack(f) /\ ~Visited(f)
        /\ DOMAIN stack = {} /\ DOMAIN frames = {} /\ DOMAIN components = {}
    BY DEF Init, OnStack, Visited
  <2>3. \A f \in Functions : index[f] = 0 /\ counter = 0
    BY DEF Init
  <2>4. stack = <<>>
    BY DEF Init
  <2> QED
    BY <2>1, <2>2, <2>3, <2>4
    DEF SearchInv, IndicesAreOnce, StackIsOrdered, VisitedAreKept,
        HandledAreVisited, LowlinksReach, LowlinksPropagate, RootHasFrame,
        CalleesFirst
<1>2. SearchTypeOK /\ SearchInv /\ [Next]_vars => (SearchTypeOK /\ SearchInv)'
  <2> SUFFICES ASSUME SearchTypeOK, SearchInv, [Next]_vars
               PROVE  (SearchTypeOK /\ SearchInv)'
    OBVIOUS
  <2>1. CASE VisitRoot
    <3>1. PICK f \in Functions : f = Least({g \in Nodes : index[g] = 0}) /\ ~Visited(f)
      <4>1. {g \in Nodes : index[g] = 0} \in SUBSET Functions
        BY DEF Nodes, SearchTypeOK
      <4> QED
        BY <2>1, <4>1, LeastFacts DEF VisitRoot, Visited
    <3>2. Visit(f, frames) /\ calls' = calls /\ components' = components
      BY <2>1, <3>1 DEF VisitRoot
    <3>3. frames = <<>> /\ stack = <<>>
      BY <2>1 DEF VisitRoot, SearchInv, RootHasFrame
    <3>4. frames \in Seq(Frames)
      BY DEF SearchTypeOK
    <3> QED
      BY <3>1, <3>2, <3>3, <3>4, VisitPreserves
  <2>2. CASE VisitCallee
    <3>1. frames # <<>> /\ Last(frames).todo # {}
      BY <2>2 DEF VisitCallee
    <3>2. PICK node, next, rest :
            /\ node = Last(frames).node
            /\ next = Least(Last(frames).todo)
            /\ rest = [frames EXCEPT ![Len(frames)].todo = @ \ {next}]
      OBVIOUS
    <3>3. /\ \/ index[next] = 0 /\ Visit(next, rest)
             \/ /\ index[next] # 0
                /\ frames' = rest
                /\ lowlink' = IF Relaxes(node, next)
                                THEN [lowlink EXCEPT ![node] = index[next]]
                                ELSE lowlink
                /\ UNCHANGED <<index, counter, stack>>
          /\ UNCHANGED <<calls, components>>
      BY <2>2, <3>2 DEF VisitCallee
    <3>4. next \in Last(frames).todo
      <4>1. Last(frames).todo \in SUBSET Functions
        BY <3>1, TopFacts, TypeFacts
      <4> QED
        BY <3>1, <3>2, <4>1, LeastFacts
    <3>5. next \in Functions
      BY <3>1, <3>4, TopFacts, TypeFacts
    <3>7. CASE index[next] = 0
      <4>1. Visit(next, rest)
        BY <3>3, <3>7
      <4>2. Len(frames) \in 1..Len(frames) /\ frames \in Seq(Frames)
        BY <3>1, TopFacts DEF SearchTypeOK
      <4>3. [frames[Len(frames)] EXCEPT !.todo = @ \ {next}] \in Frames
        BY <4>2, TypeFacts DEF Frames
      <4>4. rest = [frames EXCEPT ![Len(frames)] =
                      [frames[Len(frames)] EXCEPT !.todo = @ \ {next}]]
        BY <3>2
      <4>5. rest \in Seq(Frames) /\ Len(rest) = Len(frames)
        BY <4>2, <4>3, <4>4, ExceptSeq
      <4>6. \A i \in 1..Len(frames) :
              /\ rest[i].node = frames[i].node
              /\ \A g \in Functions :
                   g \in frames[i].todo => g \in rest[i].todo \/ g = next
        BY <4>2, <4>4, TypeFacts DEF Frames
      <4> QED
        BY <3>1, <3>3, <3>5, <3>7, <4>1, <4>5, <4>6, VisitPreserves DEF Visited
    <3>6. CASE index[next] # 0
      BY <3>1, <3>2, <3>3, <3>4, <3>6, RelaxPreserves DEF Visited
    <3> QED
      BY <3>6, <3>7
  <2>3. CASE Retire
    <3>1. /\ frames # <<>>
          /\ Last(frames).todo = {}
          /\ frames' = Front(frames)
          /\ lowlink' = Propagated(Last(frames).node, Front(frames))
          /\ UNCHANGED <<calls, index, counter>>
      BY <2>3 DEF Retire
    <3>2. PICK top \in Nat : top = Len(frames)
      BY TypeFacts
    <3>3. CASE lowlink[Last(frames).node] = index[Last(frames).node]
      <4>1. /\ components' = Append(components, FromStack(Last(frames).node))
            /\ stack' = SubSeq(stack, 1, Place(Last(frames).node) - 1)
        BY <2>3, <3>3 DEF Retire
      <4> QED
        BY <3>1, <3>2, <3>3, <4>1, RetirePops
    <3>4. CASE lowlink[Last(frames).node] # index[Last(frames).node]
      <4>1. UNCHANGED <<components, stack>>
        BY <2>3, <3>4 DEF Retire
      <4> QED
        BY <3>1, <3>2, <3>4, <4>1, RetireKeeps
    <3> QED
      BY <3>3, <3>4
  <2>4. CASE UNCHANGED <<calls, search>>
    <3>1. UNCHANGED <<calls, index, lowlink, counter, stack, frames, components>>
      BY <2>4 DEF search
    <3>2. SearchTypeOK'
      BY <3>1 DEF SearchTypeOK
    <3>3. /\ \A f \in Functions : OnStack(f)' <=> OnStack(f)
          /\ \A f, g \in Functions : Handled(f, g)' <=> Handled(f, g)
      BY <3>1 DEF OnStack, Handled, Callees
    <3> QED
      BY <3>1, <3>2, <3>3
      DEF SearchInv, IndicesAreOnce, StackIsOrdered, VisitedAreKept,
          HandledAreVisited, LowlinksReach, LowlinksPropagate, RootHasFrame,
          CalleesFirst, Visited, Emitted, OnStack, Callees
  <2> QED
    BY <2>1, <2>2, <2>3, <2>4 DEF Next, Condense, Returned, vars
<1> QED
  BY <1>1, <1>2, PTL DEF Spec

(* The order that reachSet relies on: in every state of the search,        *)
(* everything a component calls is in it or in an earlier one.             *)
THEOREM EmittedCalleesFirst == Spec => []CalleesFirst
<1>1. SearchInv => CalleesFirst
  BY DEF SearchInv
<1> QED
  BY <1>1, SearchCorrect, PTL

-----------------------------------------------------------------------------
(* When the search has unwound, all that is visited is in a component, so  *)
(* every callee of a component has one.                                    *)
LEMMA UnwoundFacts ==
  ASSUME SearchTypeOK, SearchInv, frames = <<>>, \A f \in Nodes : Visited(f)
  PROVE  \A f \in Nodes : f \in Functions /\ Emitted(f)
<1>1. \A f \in Nodes : f \in Functions
  BY DEF Nodes, SearchTypeOK
<1>2. \A f \in Functions : ~OnStack(f)
  <2>1. stack = <<>>
    BY DEF SearchInv, RootHasFrame
  <2> QED
    BY <2>1 DEF OnStack
<1> QED
  BY <1>1, <1>2 DEF SearchInv, VisitedAreKept

LEMMA CalledByFacts ==
  ASSUME SearchTypeOK, SearchInv, frames = <<>>, \A f \in Nodes : Visited(f),
         NEW c \in DOMAIN components
  PROVE  CalledBy(c) \subseteq DOMAIN components
<1> SUFFICES ASSUME NEW f \in components[c], NEW g \in Callees(f)
             PROVE  ComponentOf(g) \in DOMAIN components
  BY DEF CalledBy
<1>1. g \in Nodes
  BY DEF Nodes, Callees
<1>2. Emitted(g)
  BY <1>1, UnwoundFacts
<1> QED
  BY <1>2 DEF Emitted, ComponentOf

(* Type correctness for any number of functions and any call graph; that   *)
(* the condensed graph only names components needs the search to have put  *)
(* every callee into one.                                                  *)
THEOREM TypeCorrect == Spec => []TypeOK
<1>1. Init => TypeOK
  <2> SUFFICES ASSUME Init
               PROVE  TypeOK
    OBVIOUS
  <2>1. /\ stack \in Seq(Functions)
        /\ frames \in Seq(Frames)
        /\ components \in Seq(SUBSET Functions)
    BY EmptySeq DEF Init
  <2>2. dag \in Seq(SUBSET (Nat \ {0})) /\ recursive \in Seq(BOOLEAN)
    BY EmptySeq DEF Init
  <2> QED
    BY <2>1, <2>2 DEF Init, TypeOK
<1>2. SearchTypeOK /\ SearchInv /\ SearchTypeOK' /\ TypeOK /\ [Next]_vars => TypeOK'
  <2> SUFFICES ASSUME SearchTypeOK, SearchInv, SearchTypeOK', TypeOK, [Next]_vars
               PROVE  TypeOK'
    OBVIOUS
  <2>1. CASE Condense
    <3>1. /\ frames = <<>> /\ \A f \in Nodes : Visited(f)
          /\ dag' = [c \in DOMAIN components |-> CalledBy(c)]
          /\ recursive' = [c \in DOMAIN components |-> RecursiveIf(c)]
          /\ done' = TRUE
      BY <2>1 DEF Condense, Visited
    <3>2. PICK n \in Nat : DOMAIN components = 1..n
      BY LenProperties DEF SearchTypeOK
    <3>3. \A c \in 1..n : CalledBy(c) \in SUBSET (Nat \ {0})
      BY <3>1, <3>2, CalledByFacts
    <3>4. dag' \in Seq(SUBSET (Nat \ {0}))
      BY <3>1, <3>2, <3>3, SeqDef
    <3>5. recursive' \in Seq(BOOLEAN)
      <4>1. \A c \in 1..n : RecursiveIf(c) \in BOOLEAN
        BY DEF RecursiveIf
      <4> QED
        BY <3>1, <3>2, <4>1, SeqDef
    <3> QED
      BY <3>1, <3>4, <3>5 DEF TypeOK, SearchTypeOK
  <2>2. CASE UNCHANGED <<dag, recursive, done>>
    BY <2>2 DEF TypeOK, SearchTypeOK
  <2> QED
    BY <2>1, <2>2
    DEF Next, VisitRoot, VisitCallee, Retire, Returned, vars
<1> QED
  BY <1>1, <1>2, SearchCorrect, PTL DEF Spec

-----------------------------------------------------------------------------
(* A function is put into a component once.                                *)
EmittedOnce ==
  /\ \A c, d \in DOMAIN components :
       c # d => components[c] \intersect components[d] = {}
  /\ \A f \in Functions : Emitted(f) => Visited(f) /\ ~OnStack(f)

(* Components are disjoint for any call graph, and what is on the stack is *)
(* in none.                                                                *)
THEOREM ComponentsDisjoint == Spec => []EmittedOnce
<1>1. Init => EmittedOnce
  BY DEF Init, EmittedOnce, Emitted
<1>2. SearchTypeOK /\ SearchInv /\ EmittedOnce /\ [Next]_vars => EmittedOnce'
  <2> SUFFICES ASSUME SearchTypeOK, SearchInv, EmittedOnce, [Next]_vars
               PROVE  EmittedOnce'
    OBVIOUS
  <2>1. ASSUME NEW f \in Functions, NEW below, ~Visited(f), Visit(f, below),
               components' = components
        PROVE  EmittedOnce'
    <3>1. /\ index' = [index EXCEPT ![f] = counter + 1]
          /\ stack' = Append(stack, f)
      BY <2>1 DEF Visit
    <3>2. \A g \in Functions : Visited(g) => Visited(g)' /\ g # f
      BY <2>1, <3>1, TypeFacts DEF Visited, SearchTypeOK
    <3>3. /\ DOMAIN stack' = 1..(Len(stack) + 1)
          /\ \A i \in 1..Len(stack) : stack'[i] = stack[i]
          /\ stack'[Len(stack) + 1] = f
      BY <3>1, AppendFacts DEF SearchTypeOK
    <3>4. \A g \in Functions : OnStack(g)' => OnStack(g) \/ g = f
      BY <3>3, TypeFacts DEF OnStack
    <3>5. \A g : Emitted(g)' <=> Emitted(g)
      BY <2>1 DEF Emitted
    <3> QED
      BY <2>1, <3>2, <3>4, <3>5 DEF EmittedOnce
  <2>2. ASSUME UNCHANGED <<index, stack, components>>
        PROVE  EmittedOnce'
    BY <2>2 DEF EmittedOnce, Emitted, Visited, OnStack
  <2>3. CASE VisitRoot
    <3>1. {g \in Nodes : index[g] = 0} \in SUBSET Functions
      BY DEF Nodes, SearchTypeOK
    <3>2. PICK f \in Functions : ~Visited(f) /\ Visit(f, frames)
      BY <2>3, <3>1, LeastFacts DEF VisitRoot, Visited
    <3> QED
      BY <2>1, <2>3, <3>2 DEF VisitRoot
  <2>5. CASE VisitCallee
    <3>1. frames # <<>> /\ Last(frames).todo # {} /\ components' = components
      BY <2>5 DEF VisitCallee
    <3>2. Last(frames).todo \in SUBSET Functions
      BY <3>1, TopFacts, TypeFacts
    <3>3. Least(Last(frames).todo) \in Functions
      BY <3>1, <3>2, LeastFacts
    <3>4. \/ UNCHANGED <<index, stack>>
          \/ /\ ~Visited(Least(Last(frames).todo))
             /\ \E below : Visit(Least(Last(frames).todo), below)
      BY <2>5 DEF VisitCallee, Visited
    <3> QED
      BY <2>1, <2>2, <3>1, <3>3, <3>4
  <2>6. CASE Retire
    <3>1. PICK node \in Functions : node = Last(frames).node /\ OnStack(node)
      BY <2>6, TopFacts DEF Retire
    <3>2. CASE UNCHANGED <<components, stack>>
      BY <2>2, <2>6, <3>2 DEF Retire
    <3>3. CASE /\ components' = Append(components, FromStack(node))
               /\ stack' = SubSeq(stack, 1, Place(node) - 1)
      <4>1. /\ \A g \in Functions :
                 OnStack(g)' => OnStack(g) /\ index[g] < index[node]
            /\ FromStack(node) \subseteq Functions
            /\ \A g \in Functions :
                 g \in FromStack(node) <=> OnStack(g) /\ ~(index[g] < index[node])
        BY <3>1, <3>3, PoppedFacts
      <4>2. /\ DOMAIN components = 1..Len(components)
            /\ DOMAIN components' = 1..(Len(components) + 1)
            /\ \A c \in 1..Len(components) : components'[c] = components[c]
            /\ components'[Len(components) + 1] = FromStack(node)
            /\ Len(components) \in Nat
        <5>1. components \in Seq(SUBSET Functions) /\ FromStack(node) \in SUBSET Functions
          BY <4>1 DEF SearchTypeOK
        <5> QED
          BY <3>3, <5>1, AppendFacts
      <4>3. index' = index
        BY <2>6 DEF Retire
      <4>4. \A c \in DOMAIN components : components[c] \intersect FromStack(node) = {}
        BY <4>1 DEF EmittedOnce, Emitted
      <4>5. \A c, d \in DOMAIN components' :
              c # d => components'[c] \intersect components'[d] = {}
        BY <4>2, <4>4 DEF EmittedOnce
      <4>6. ASSUME NEW f \in Functions, Emitted(f)'
            PROVE  Visited(f)' /\ ~OnStack(f)'
        <5>1. Emitted(f) \/ f \in FromStack(node)
          BY <4>2, <4>6 DEF Emitted
        <5>2. OnStack(f) => Visited(f)
          BY DEF SearchInv, StackIsOrdered, OnStack
        <5> QED
          BY <4>1, <4>3, <5>1, <5>2 DEF EmittedOnce, Visited
      <4> QED
        BY <4>5, <4>6 DEF EmittedOnce
    <3> QED
      BY <2>6, <3>1, <3>2, <3>3 DEF Retire
  <2>4. CASE UNCHANGED <<calls, search>>
    BY <2>4 DEF search, EmittedOnce, Emitted, Visited, OnStack
  <2> QED
    <3>1. VisitRoot \/ VisitCallee \/ Retire \/ UNCHANGED <<calls, search>>
      BY DEF Next, Condense, Returned, vars
    <3> QED
      BY <2>3, <2>4, <2>5, <2>6, <3>1
<1> QED
  BY <1>1, <1>2, SearchCorrect, PTL DEF Spec

-----------------------------------------------------------------------------
(* The other half: the components are the classes of mutual reachability.  *)
(* Callees-first shows that no class is split; here it is shown that no    *)
(* two classes are merged.                                                 *)
(* A frame has only callees left to do. *)
TodoAreCallees ==
  \A i \in DOMAIN frames : frames[i].todo \subseteq Callees(frames[i].node)

(* Only nodes of the graph are visited. *)
VisitedAreNodes == \A f \in Functions : Visited(f) => f \in Nodes

(* What was discovered after a function, while that has its frame, is      *)
(* reached from it.                                                        *)
StackIsReached ==
  \A i \in DOMAIN frames : \A f \in Functions :
    OnStack(f) /\ index[frames[i].node] <= index[f] => Reaches(frames[i].node, f)

(* A lowlink is the index of a function on the stack that is reached. *)
LowlinkIsReached ==
  \A f \in Functions : OnStack(f) =>
    \E g \in Functions : OnStack(g) /\ index[g] = lowlink[f] /\ Reaches(f, g)

(* A function that has retired but is still on the stack is not the root   *)
(* of its component.                                                       *)
RetiredAreNotRoots ==
  \A f \in Functions : OnStack(f) /\ ~OnFrames(f) => lowlink[f] # index[f]

(* The members of a component reach each other. *)
ComponentsConnected ==
  \A c \in DOMAIN components : \A f, g \in components[c] : Reaches(f, g)

ConnectedInv ==
  /\ TodoAreCallees
  /\ VisitedAreNodes
  /\ StackIsReached
  /\ LowlinkIsReached
  /\ RetiredAreNotRoots
  /\ ComponentsConnected

-----------------------------------------------------------------------------
LEMMA ReachesFacts ==
  /\ \A f \in Functions : Reaches(f, f)
  /\ \A f, g \in Functions : g \in Callees(f) => Reaches(f, g)
  /\ \A f, g, h \in Functions : Reaches(f, g) /\ Reaches(g, h) => Reaches(f, h)
<1>1. \A f \in Functions : Reaches(f, f)
  BY DEF Reaches
<1>2. \A f, g \in Functions : g \in Callees(f) => Reaches(f, g)
  BY DEF Reaches
<1>3. ASSUME NEW f \in Functions, NEW g \in Functions, NEW h \in Functions,
             Reaches(f, g), Reaches(g, h)
      PROVE  Reaches(f, h)
  BY <1>3 DEF Reaches
<1> QED
  BY <1>1, <1>2, <1>3

(* A function is reached through a callee, or it is the function itself. *)
LEMMA ReachesByCallee ==
  ASSUME NEW f \in Functions, NEW h \in Functions, Reaches(f, h), f # h
  PROVE  \E g \in Callees(f) : Reaches(g, h)
<1>1. PICK S \in SUBSET Functions :
        S = {f} \union {u \in Functions : \E g \in Callees(f) : Reaches(g, u)}
  OBVIOUS
<1>2. ASSUME NEW u \in S, NEW v \in Callees(u)
      PROVE  v \in S
  <2>1. v \in Functions /\ u \in Functions /\ v \in Callees(u)
    BY DEF Callees
  <2>2. CASE u = f
    BY <1>1, <2>1, <2>2, ReachesFacts
  <2>3. ASSUME NEW g \in Callees(f), Reaches(g, u)
        PROVE  v \in S
    <3>1. g \in Functions
      BY DEF Callees
    <3>2. Reaches(g, v)
      BY <2>1, <2>3, <3>1, ReachesFacts
    <3> QED
      BY <1>1, <2>1, <3>2
  <2> QED
    BY <1>1, <2>2, <2>3
<1>3. h \in S
  BY <1>1, <1>2 DEF Reaches
<1> QED
  BY <1>1, <1>3

LEMMA GraphFixed ==
  ASSUME calls' = calls
  PROVE  /\ \A f : Callees(f)' = Callees(f)
         /\ \A f, g : Reaches(f, g)' <=> Reaches(f, g)
         /\ Nodes' = Nodes
  BY DEF Callees, Reaches, Nodes

LEMMA LeastNatural ==
  ASSUME NEW S, S \subseteq Nat, S # {}
  PROVE  \E n \in S : \A m \in S : n <= m
<1>1. PICK n \in S : \A m \in S : ~(<<m, n>> \in OpToRel(<, Nat))
  BY NatLessThanWellFounded, WFMin
<1> SUFFICES ASSUME NEW m \in S
             PROVE  ~(m < n)
  OBVIOUS
<1>2. m < n => <<m, n>> \in OpToRel(<, Nat)
  BY Zenon DEF OpToRel
<1> QED
  BY <1>1, <1>2

-----------------------------------------------------------------------------
(* The function visited is called by the frame on top, which everything    *)
(* below reaches.                                                          *)
LEMMA VisitConnects ==
  ASSUME SearchTypeOK, SearchInv, ConnectedInv,
         NEW f \in Functions, f \in Nodes, ~Visited(f),
         NEW below \in Seq(Frames),
         Len(below) = Len(frames),
         \A i \in 1..Len(frames) :
           /\ below[i].node = frames[i].node
           /\ below[i].todo \subseteq frames[i].todo,
         frames # <<>> => f \in Callees(Last(frames).node),
         Visit(f, below),
         calls' = calls, components' = components
  PROVE  ConnectedInv'
<1>1. Frame(f) \in Frames /\ Frame(f).node = f /\ Frame(f).todo = Callees(f)
  BY DEF Frame, Frames, Callees
<1>2. /\ counter' = counter + 1
      /\ index' = [index EXCEPT ![f] = counter + 1]
      /\ lowlink' = [lowlink EXCEPT ![f] = counter + 1]
      /\ stack' = Append(stack, f)
      /\ frames' = Append(below, Frame(f))
  BY DEF Visit
<1>3. /\ DOMAIN stack' = 1..(Len(stack) + 1)
      /\ \A i \in 1..Len(stack) : stack'[i] = stack[i]
      /\ stack'[Len(stack) + 1] = f
  BY <1>2, AppendFacts DEF SearchTypeOK
<1>4. /\ DOMAIN frames' = 1..(Len(frames) + 1)
      /\ \A i \in 1..Len(frames) : frames'[i] = below[i]
      /\ frames'[Len(frames) + 1] = Frame(f)
  BY <1>1, <1>2, AppendFacts
<1>5. /\ index'[f] = counter + 1
      /\ lowlink'[f] = counter + 1
      /\ \A g \in Functions :
           g # f => index'[g] = index[g] /\ lowlink'[g] = lowlink[g]
  BY <1>2 DEF SearchTypeOK
<1>6. \A g \in Functions : index[g] \in Nat /\ index[g] <= counter
  BY TypeFacts DEF SearchInv, IndicesAreOnce
<1>7. /\ ~OnStack(f)
      /\ \A i \in 1..Len(frames) : frames[i].node # f
  BY TypeFacts DEF SearchInv, StackIsOrdered, OnStack, Visited
<1>8. \A g \in Functions : OnStack(g)' <=> OnStack(g) \/ g = f
  <2>1. \A g \in Functions : OnStack(g)' => OnStack(g) \/ g = f
    BY <1>3, TypeFacts DEF OnStack
  <2>2. \A i \in 1..Len(stack) : i \in DOMAIN stack' /\ stack'[i] = stack[i]
    BY <1>3, TypeFacts
  <2>3. \A g \in Functions : OnStack(g) => OnStack(g)'
    BY <2>2, TypeFacts DEF OnStack
  <2>4. Len(stack) + 1 \in DOMAIN stack'
    BY <1>3, TypeFacts
  <2>5. OnStack(f)'
    BY <1>3, <2>4 DEF OnStack
  <2> QED
    BY <2>1, <2>3, <2>5
<1>9. \A i \in 1..Len(frames) :
        /\ frames'[i].node = frames[i].node
        /\ frames'[i].todo \subseteq frames[i].todo
  BY <1>4
<1>10. \A i \in 1..(Len(frames) + 1) :
         i \in 1..Len(frames) \/ i = Len(frames) + 1
  BY TypeFacts
<1>11. frames'[Len(frames) + 1].node = f
  BY <1>1, <1>4
<1>12. \A u, g : Reaches(u, g)' <=> Reaches(u, g)
  BY GraphFixed
<1>13. TodoAreCallees'
  <2> SUFFICES ASSUME NEW i \in 1..(Len(frames) + 1)
               PROVE  frames'[i].todo \subseteq Callees(frames'[i].node)
    BY <1>4, GraphFixed DEF TodoAreCallees
  <2>1. CASE i \in 1..Len(frames)
    BY <1>9, <2>1, TypeFacts DEF ConnectedInv, TodoAreCallees
  <2>2. CASE i = Len(frames) + 1
    BY <1>1, <1>4, <2>2
  <2> QED
    BY <1>10, <2>1, <2>2
<1>14. VisitedAreNodes'
  BY <1>5, GraphFixed DEF ConnectedInv, VisitedAreNodes, Visited
<1>15. StackIsReached'
  <2> SUFFICES ASSUME NEW i \in 1..(Len(frames) + 1), NEW g \in Functions,
                      OnStack(g)', index'[frames'[i].node] <= index'[g]
               PROVE  Reaches(frames'[i].node, g)
    BY <1>4, <1>12 DEF StackIsReached
  <2>1. CASE i = Len(frames) + 1
    <3>1. g = f
      BY <1>5, <1>6, <1>11, <2>1, TypeFacts
    <3> QED
      BY <1>11, <2>1, <3>1, ReachesFacts
  <2>2. CASE i \in 1..Len(frames) /\ g # f
    BY <1>5, <1>7, <1>8, <1>9, <2>2, TypeFacts
    DEF ConnectedInv, StackIsReached
  <2>3. CASE i \in 1..Len(frames) /\ g = f
    <3>1. frames # <<>>
      BY <2>3, TypeFacts
    <3>2. PICK t \in Functions :
            /\ t = Last(frames).node /\ OnStack(t)
            /\ index[frames[i].node] <= index[t]
            /\ f \in Callees(t)
      BY <2>3, <3>1, TopFacts
    <3>3. frames[i].node \in Functions /\ Reaches(frames[i].node, t)
      BY <2>3, <3>2, TypeFacts DEF ConnectedInv, StackIsReached
    <3> QED
      BY <1>9, <2>3, <3>2, <3>3, ReachesFacts
  <2> QED
    BY <1>10, <2>1, <2>2, <2>3
<1>16. LowlinkIsReached'
  <2> SUFFICES ASSUME NEW u \in Functions, OnStack(u)'
               PROVE  \E g \in Functions :
                        OnStack(g)' /\ index'[g] = lowlink'[u] /\ Reaches(u, g)
    BY <1>12 DEF LowlinkIsReached
  <2>1. CASE u = f
    BY <1>5, <2>1, ReachesFacts
  <2>2. CASE u # f
    <3>1. PICK g \in Functions :
            OnStack(g) /\ index[g] = lowlink[u] /\ Reaches(u, g)
      BY <1>8, <2>2 DEF ConnectedInv, LowlinkIsReached
    <3> QED
      BY <1>5, <1>7, <1>8, <2>2, <3>1
  <2> QED
    BY <2>1, <2>2
<1>17. RetiredAreNotRoots'
  <2> SUFFICES ASSUME NEW u \in Functions, OnStack(u)', ~OnFrames(u)'
               PROVE  lowlink'[u] # index'[u]
    BY DEF RetiredAreNotRoots
  <2>1. u # f
    BY <1>4, <1>11, TypeFacts DEF OnFrames
  <2>2. ~OnFrames(u)
    BY <1>4, <1>9, TypeFacts DEF OnFrames
  <2> QED
    BY <1>5, <1>8, <2>1, <2>2 DEF ConnectedInv, RetiredAreNotRoots
<1>18. ComponentsConnected'
  BY <1>12 DEF ConnectedInv, ComponentsConnected
<1> QED
  BY <1>13, <1>14, <1>15, <1>16, <1>17, <1>18 DEF ConnectedInv

(* A callee that lowers its caller is on the stack and reached from it. *)
LEMMA RelaxConnects ==
  ASSUME SearchTypeOK, SearchInv, ConnectedInv, frames # <<>>,
         NEW node, node = Last(frames).node,
         NEW next \in Last(frames).todo,
         frames' = [frames EXCEPT ![Len(frames)].todo = @ \ {next}],
         lowlink' = IF Relaxes(node, next)
                      THEN [lowlink EXCEPT ![node] = index[next]]
                      ELSE lowlink,
         UNCHANGED <<index, counter, stack, calls, components>>
  PROVE  ConnectedInv'
<1>1. node \in Functions /\ frames[Len(frames)].node = node
  BY TopFacts
<1>2. next \in Functions /\ next \in Callees(node)
  BY TopFacts, TypeFacts DEF ConnectedInv, TodoAreCallees
<1>3. /\ DOMAIN frames' = DOMAIN frames
      /\ \A i \in DOMAIN frames : frames'[i].node = frames[i].node
      /\ \A i \in DOMAIN frames : frames'[i].todo \subseteq frames[i].todo
  BY TypeFacts DEF Frames
<1>4. \A g : OnStack(g)' <=> OnStack(g)
  BY DEF OnStack
<1>5. \A g : OnFrames(g)' <=> OnFrames(g)
  BY <1>3 DEF OnFrames
<1>6. \A u, g : Reaches(u, g)' <=> Reaches(u, g)
  BY GraphFixed
<1>7. \A g \in Functions :
        lowlink'[g] = IF g = node /\ Relaxes(node, next) THEN index[next]
                                                         ELSE lowlink[g]
  BY <1>1 DEF SearchTypeOK
<1>8. TodoAreCallees'
  BY <1>3, GraphFixed DEF ConnectedInv, TodoAreCallees
<1>9. VisitedAreNodes'
  BY GraphFixed DEF ConnectedInv, VisitedAreNodes, Visited
<1>10. StackIsReached'
  BY <1>3, <1>4, <1>6 DEF ConnectedInv, StackIsReached
<1>11. LowlinkIsReached'
  <2> SUFFICES ASSUME NEW u \in Functions, OnStack(u)
               PROVE  \E g \in Functions :
                        OnStack(g) /\ index[g] = lowlink'[u] /\ Reaches(u, g)
    BY <1>4, <1>6 DEF LowlinkIsReached
  <2>1. CASE u = node /\ Relaxes(node, next)
    BY <1>2, <1>7, <2>1, ReachesFacts DEF Relaxes
  <2>2. CASE ~(u = node /\ Relaxes(node, next))
    BY <1>7, <2>2 DEF ConnectedInv, LowlinkIsReached
  <2> QED
    BY <2>1, <2>2
<1>12. RetiredAreNotRoots'
  <2>1. OnFrames(node)
    BY <1>1, TopFacts, TypeFacts DEF OnFrames
  <2> QED
    BY <1>4, <1>5, <1>7, <2>1 DEF ConnectedInv, RetiredAreNotRoots
<1>13. ComponentsConnected'
  BY <1>6 DEF ConnectedInv, ComponentsConnected
<1> QED
  BY <1>8, <1>9, <1>10, <1>11, <1>12, <1>13 DEF ConnectedInv

(* What retiring the top frame leaves of the frames and of what is reached. *)
LEMMA RetireConnects ==
  ASSUME SearchTypeOK, SearchInv, ConnectedInv, frames # <<>>,
         NEW top \in Nat, top = Len(frames),
         NEW node, node = Last(frames).node,
         Last(frames).todo = {},
         frames' = Front(frames),
         lowlink' = Propagated(node, Front(frames)),
         \A g \in Functions : OnStack(g)' => OnStack(g),
         UNCHANGED <<index, calls>>
  PROVE  /\ TodoAreCallees'
         /\ VisitedAreNodes'
         /\ StackIsReached'
         /\ \A i \in 1..top :
              frames[i].node \in Functions /\ Reaches(frames[i].node, node)
         /\ \A g \in Functions :
              OnFrames(g) => OnFrames(g)' \/ g = node
<1>1. /\ DOMAIN frames' = 1..(top - 1)
      /\ \A i \in 1..(top - 1) : frames'[i] = frames[i]
  BY RetiredFacts
<1>2. DOMAIN frames = 1..top
  BY TypeFacts
<1>3. \A i \in 1..(top - 1) : i \in 1..top
  OBVIOUS
<1>4. \A u, g : Reaches(u, g)' <=> Reaches(u, g)
  BY GraphFixed
<1>5. TodoAreCallees'
  BY <1>1, <1>2, <1>3, GraphFixed DEF ConnectedInv, TodoAreCallees
<1>6. VisitedAreNodes'
  BY GraphFixed DEF ConnectedInv, VisitedAreNodes, Visited
<1>7. StackIsReached'
  BY <1>1, <1>2, <1>3, <1>4 DEF ConnectedInv, StackIsReached
<1>8. frames[top].node = node /\ node \in Functions /\ OnStack(node)
  BY TopFacts
<1>9. ASSUME NEW i \in 1..top
      PROVE  frames[i].node \in Functions /\ Reaches(frames[i].node, node)
  <2>1. frames[i].node \in Functions /\ index[frames[i].node] <= index[node]
    BY TopFacts, TypeFacts
  <2> QED
    BY <1>2, <1>8, <2>1 DEF ConnectedInv, StackIsReached
<1>10. ASSUME NEW g \in Functions, OnFrames(g), g # node
       PROVE  OnFrames(g)'
  <2>1. PICK i \in 1..top : frames[i].node = g
    BY <1>2, <1>10 DEF OnFrames
  <2>2. i \in 1..(top - 1)
    BY <1>8, <1>10, <2>1
  <2> QED
    BY <1>1, <2>1, <2>2 DEF OnFrames
<1> QED
  BY <1>5, <1>6, <1>7, <1>9, <1>10

(* The frame below inherits a lowlink it reaches through the retired one. *)
LEMMA RetireKeepsConnected ==
  ASSUME SearchTypeOK, SearchInv, ConnectedInv, frames # <<>>,
         NEW top \in Nat, top = Len(frames),
         NEW node, node = Last(frames).node,
         Last(frames).todo = {},
         frames' = Front(frames),
         lowlink' = Propagated(node, Front(frames)),
         lowlink[node] # index[node],
         UNCHANGED <<index, counter, stack, calls, components>>
  PROVE  ConnectedInv'
<1>1. \A g : OnStack(g)' <=> OnStack(g)
  BY DEF OnStack
<1>2. /\ TodoAreCallees'
      /\ VisitedAreNodes'
      /\ StackIsReached'
      /\ \A i \in 1..top :
           frames[i].node \in Functions /\ Reaches(frames[i].node, node)
      /\ \A g \in Functions :
           OnFrames(g) => OnFrames(g)' \/ g = node
  BY <1>1, RetireConnects
<1>3. \A g \in Functions :
        /\ lowlink'[g] \in Nat
        /\ lowlink'[g] <= lowlink[g]
        /\ lowlink'[g] # lowlink[g] =>
             /\ top - 1 \in 1..top
             /\ g = frames[top - 1].node
             /\ lowlink'[g] = lowlink[node]
  BY RetiredFacts
<1>4. node \in Functions /\ OnStack(node)
  BY TopFacts
<1>5. \A u, g : Reaches(u, g)' <=> Reaches(u, g)
  BY GraphFixed
<1>6. LowlinkIsReached'
  <2> SUFFICES ASSUME NEW u \in Functions, OnStack(u)
               PROVE  \E g \in Functions :
                        OnStack(g) /\ index[g] = lowlink'[u] /\ Reaches(u, g)
    BY <1>1, <1>5 DEF LowlinkIsReached
  <2>1. CASE lowlink'[u] = lowlink[u]
    BY <2>1 DEF ConnectedInv, LowlinkIsReached
  <2>2. CASE lowlink'[u] # lowlink[u]
    <3>1. lowlink'[u] = lowlink[node] /\ Reaches(u, node)
      BY <1>2, <1>3, <2>2
    <3>2. PICK g \in Functions :
            OnStack(g) /\ index[g] = lowlink[node] /\ Reaches(node, g)
      BY <1>4 DEF ConnectedInv, LowlinkIsReached
    <3> QED
      BY <1>4, <3>1, <3>2, ReachesFacts
  <2> QED
    BY <2>1, <2>2
<1>7. RetiredAreNotRoots'
  <2> SUFFICES ASSUME NEW u \in Functions, OnStack(u), ~OnFrames(u)'
               PROVE  lowlink'[u] # index[u]
    BY <1>1 DEF RetiredAreNotRoots
  <2>1. lowlink[u] # index[u]
    BY <1>2 DEF ConnectedInv, RetiredAreNotRoots
  <2>2. /\ lowlink[u] \in Nat
        /\ index[u] \in Nat
        /\ lowlink[u] <= index[u]
    BY TypeFacts DEF SearchInv, LowlinksReach
  <2> QED
    BY <1>3, <2>1, <2>2
<1>8. ComponentsConnected'
  BY <1>5 DEF ConnectedInv, ComponentsConnected
<1> QED
  BY <1>2, <1>6, <1>7, <1>8 DEF ConnectedInv

(* What is above the root of a component on the stack is reached from it   *)
(* and reaches it.                                                         *)
LEMMA PoppedIsConnected ==
  ASSUME SearchTypeOK, SearchInv, ConnectedInv, frames # <<>>,
         NEW node \in Functions, node = Last(frames).node,
         lowlink[node] = index[node],
         NEW f \in Functions, OnStack(f), ~(index[f] < index[node])
  PROVE  Reaches(node, f) /\ Reaches(f, node)
<1>1. PICK top \in 1..Len(frames) : top = Len(frames) /\ frames[top].node = node
  BY TopFacts
<1>2. DOMAIN frames = 1..top
  BY <1>1, TypeFacts
<1>3. \A g \in Functions :
        /\ index[g] \in Nat
        /\ lowlink[g] \in Nat
        /\ OnStack(g) => lowlink[g] <= index[g]
  BY TypeFacts DEF SearchInv, LowlinksReach
<1>4. Reaches(node, f)
  BY <1>1, <1>2, <1>3 DEF ConnectedInv, StackIsReached
<1>5. PICK T : T = {index[g] : g \in {u \in Functions :
                  OnStack(u) /\ index[node] <= index[u] /\ ~Reaches(u, node)}}
  OBVIOUS
<1>6. CASE T = {}
  <2>1. index[node] <= index[f]
    BY <1>3
  <2>2. ~Reaches(f, node) => index[f] \in T
    BY <1>5, <2>1
  <2> QED
    BY <1>4, <1>6, <2>2
<1>7. ASSUME T # {}
      PROVE  FALSE
  <2>1. T \subseteq Nat
    BY <1>3, <1>5
  <2>2. PICK n \in T : \A m \in T : n <= m
    BY <1>7, <2>1, LeastNatural
  <2>3. PICK u \in Functions :
          /\ OnStack(u) /\ index[node] <= index[u] /\ ~Reaches(u, node)
          /\ index[u] = n
    BY <1>5, <2>2
  <2>4. u # node
    BY <2>3, ReachesFacts
  <2>5. index[u] # index[node]
    <3>1. Visited(node)
      BY TopFacts DEF SearchInv, StackIsOrdered, OnStack
    <3> QED
      BY <2>4, <3>1 DEF SearchInv, IndicesAreOnce
  <2>6. ~OnFrames(u)
    <3>1. \A i \in 1..top : index[frames[i].node] <= index[node]
      BY <1>1, TopFacts
    <3>2. \A i \in 1..top : frames[i].node # u
      BY <1>3, <2>3, <2>5, <3>1
    <3> QED
      BY <1>2, <3>2 DEF OnFrames
  <2>7. lowlink[u] # index[u]
    BY <2>3, <2>6 DEF ConnectedInv, RetiredAreNotRoots
  <2>8. PICK g \in Functions :
          OnStack(g) /\ index[g] = lowlink[u] /\ Reaches(u, g)
    BY <2>3 DEF ConnectedInv, LowlinkIsReached
  <2>9. index[g] < index[u]
    BY <1>3, <2>3, <2>7, <2>8
  <2>10. lowlink[node] <= lowlink[u]
    <3>1. \A j \in DOMAIN frames : ~(top < j)
      BY <1>2
    <3>2. top \in DOMAIN frames
      BY <1>1, <1>2
    <3> QED
      BY <1>1, <2>3, <3>1, <3>2 DEF SearchInv, LowlinksPropagate
  <2>11. index[node] <= index[g]
    BY <2>8, <2>10
  <2>12. Reaches(g, node)
    <3>1. ~Reaches(g, node) => index[g] \in T
      BY <1>5, <2>8, <2>11
    <3> QED
      BY <1>3, <2>2, <2>3, <2>9, <3>1
  <2> QED
    BY <2>3, <2>8, <2>12, ReachesFacts
<1> QED
  BY <1>4, <1>6, <1>7

(* A component is popped: what stays on the stack is not affected. *)
LEMMA RetirePopsConnected ==
  ASSUME SearchTypeOK, SearchInv, ConnectedInv, frames # <<>>,
         NEW top \in Nat, top = Len(frames),
         NEW node, node = Last(frames).node,
         Last(frames).todo = {},
         frames' = Front(frames),
         lowlink' = Propagated(node, Front(frames)),
         lowlink[node] = index[node],
         components' = Append(components, FromStack(node)),
         stack' = SubSeq(stack, 1, Place(node) - 1),
         UNCHANGED <<index, counter, calls>>
  PROVE  ConnectedInv'
<1>1. node \in Functions /\ OnStack(node) /\ frames[top].node = node
  BY TopFacts
<1>2. /\ \A g \in Functions :
           OnStack(g)' => OnStack(g) /\ index[g] < index[node]
      /\ \A g \in Functions :
           OnStack(g) /\ index[g] < index[node] => OnStack(g)'
      /\ FromStack(node) \subseteq Functions
      /\ \A g \in Functions :
           g \in FromStack(node) <=> OnStack(g) /\ ~(index[g] < index[node])
  BY <1>1, PoppedFacts
<1>3. /\ TodoAreCallees'
      /\ VisitedAreNodes'
      /\ StackIsReached'
      /\ \A g \in Functions :
           OnFrames(g) => OnFrames(g)' \/ g = node
  BY <1>2, RetireConnects
<1>4. \A g \in Functions :
        /\ lowlink'[g] <= lowlink[g]
        /\ lowlink'[g] # lowlink[g] => lowlink'[g] = lowlink[node]
        /\ lowlink'[g] \in Nat
  BY RetiredFacts
<1>5. \A g \in Functions :
        /\ index[g] \in Nat
        /\ lowlink[g] \in Nat
        /\ OnStack(g) => lowlink[g] <= index[g]
  BY TypeFacts DEF SearchInv, LowlinksReach
<1>6. \A g \in Functions : OnStack(g)' => lowlink'[g] = lowlink[g]
  BY <1>1, <1>2, <1>4, <1>5
<1>7. \A u, g : Reaches(u, g)' <=> Reaches(u, g)
  BY GraphFixed
<1>8. LowlinkIsReached'
  <2> SUFFICES ASSUME NEW u \in Functions, OnStack(u)'
               PROVE  \E g \in Functions :
                        OnStack(g)' /\ index[g] = lowlink'[u] /\ Reaches(u, g)
    BY <1>7 DEF LowlinkIsReached
  <2>1. OnStack(u) /\ index[u] < index[node] /\ lowlink'[u] = lowlink[u]
    BY <1>2, <1>6
  <2>2. PICK g \in Functions :
          OnStack(g) /\ index[g] = lowlink[u] /\ Reaches(u, g)
    BY <2>1 DEF ConnectedInv, LowlinkIsReached
  <2>3. index[g] < index[node]
    BY <1>1, <1>5, <2>1, <2>2
  <2> QED
    BY <1>2, <2>1, <2>2, <2>3
<1>9. RetiredAreNotRoots'
  <2> SUFFICES ASSUME NEW u \in Functions, OnStack(u)', ~OnFrames(u)'
               PROVE  lowlink'[u] # index[u]
    BY DEF RetiredAreNotRoots
  <2>1. u # node
    BY <1>1, <1>2, <1>5
  <2>2. OnStack(u) /\ ~OnFrames(u)
    BY <1>2, <1>3, <2>1
  <2> QED
    BY <1>6, <2>2 DEF ConnectedInv, RetiredAreNotRoots
<1>10. ComponentsConnected'
  <2>1. /\ DOMAIN components = 1..Len(components)
        /\ DOMAIN components' = 1..(Len(components) + 1)
        /\ \A c \in 1..Len(components) : components'[c] = components[c]
        /\ components'[Len(components) + 1] = FromStack(node)
        /\ Len(components) \in Nat
    <3>1. components \in Seq(SUBSET Functions) /\ FromStack(node) \in SUBSET Functions
      BY <1>2 DEF SearchTypeOK
    <3> QED
      BY <3>1, AppendFacts
  <2>2. ASSUME NEW f \in FromStack(node)
        PROVE  f \in Functions /\ Reaches(node, f) /\ Reaches(f, node)
    <3>1. f \in Functions /\ OnStack(f) /\ ~(index[f] < index[node])
      BY <1>2
    <3> QED
      BY <1>1, <3>1, PoppedIsConnected
  <2>3. \A f, g \in FromStack(node) : Reaches(f, g)
    BY <1>1, <2>2, ReachesFacts
  <2> QED
    BY <1>7, <2>1, <2>3 DEF ConnectedInv, ComponentsConnected
<1> QED
  BY <1>3, <1>8, <1>9, <1>10 DEF ConnectedInv

-----------------------------------------------------------------------------
(* ConnectedInv in every state, for any call graph. *)
THEOREM ConnectedCorrect == Spec => []ConnectedInv
<1>1. Init => ConnectedInv
  <2> SUFFICES ASSUME Init
               PROVE  ConnectedInv
    OBVIOUS
  <2>1. /\ \A f \in Functions : ~OnStack(f) /\ ~Visited(f)
        /\ DOMAIN frames = {} /\ DOMAIN components = {}
    BY DEF Init, OnStack, Visited
  <2> QED
    BY <2>1
    DEF ConnectedInv, TodoAreCallees, VisitedAreNodes, StackIsReached,
        LowlinkIsReached, RetiredAreNotRoots, ComponentsConnected
<1>2. SearchTypeOK /\ SearchInv /\ ConnectedInv /\ [Next]_vars => ConnectedInv'
  <2> SUFFICES ASSUME SearchTypeOK, SearchInv, ConnectedInv, [Next]_vars
               PROVE  ConnectedInv'
    OBVIOUS
  <2>1. CASE VisitRoot
    <3>1. PICK f \in Functions :
            /\ f = Least({g \in Nodes : index[g] = 0})
            /\ f \in Nodes /\ ~Visited(f)
      <4>1. {g \in Nodes : index[g] = 0} \in SUBSET Functions
        BY DEF Nodes, SearchTypeOK
      <4> QED
        BY <2>1, <4>1, LeastFacts DEF VisitRoot, Visited
    <3>2. Visit(f, frames) /\ calls' = calls /\ components' = components
      BY <2>1, <3>1 DEF VisitRoot
    <3>3. frames = <<>> /\ frames \in Seq(Frames)
      BY <2>1 DEF VisitRoot, SearchTypeOK
    <3> QED
      BY <3>1, <3>2, <3>3, VisitConnects
  <2>2. CASE VisitCallee
    <3>1. frames # <<>> /\ Last(frames).todo # {}
      BY <2>2 DEF VisitCallee
    <3>2. PICK node, next, rest :
            /\ node = Last(frames).node
            /\ next = Least(Last(frames).todo)
            /\ rest = [frames EXCEPT ![Len(frames)].todo = @ \ {next}]
      OBVIOUS
    <3>3. /\ \/ index[next] = 0 /\ Visit(next, rest)
             \/ /\ index[next] # 0
                /\ frames' = rest
                /\ lowlink' = IF Relaxes(node, next)
                                THEN [lowlink EXCEPT ![node] = index[next]]
                                ELSE lowlink
                /\ UNCHANGED <<index, counter, stack>>
          /\ UNCHANGED <<calls, components>>
      BY <2>2, <3>2 DEF VisitCallee
    <3>4. next \in Last(frames).todo
      <4>1. Last(frames).todo \in SUBSET Functions
        BY <3>1, TopFacts, TypeFacts
      <4> QED
        BY <3>1, <3>2, <4>1, LeastFacts
    <3>5. next \in Functions
      BY <3>1, <3>4, TopFacts, TypeFacts
    <3>6. next \in Callees(node)
      BY <3>1, <3>2, <3>4, TopFacts, TypeFacts DEF ConnectedInv, TodoAreCallees
    <3>7. CASE index[next] = 0
      <4>1. Visit(next, rest)
        BY <3>3, <3>7
      <4>2. Len(frames) \in 1..Len(frames) /\ frames \in Seq(Frames)
        BY <3>1, TopFacts DEF SearchTypeOK
      <4>3. [frames[Len(frames)] EXCEPT !.todo = @ \ {next}] \in Frames
        BY <4>2, TypeFacts DEF Frames
      <4>4. rest = [frames EXCEPT ![Len(frames)] =
                      [frames[Len(frames)] EXCEPT !.todo = @ \ {next}]]
        BY <3>2
      <4>5. rest \in Seq(Frames) /\ Len(rest) = Len(frames)
        BY <4>2, <4>3, <4>4, ExceptSeq
      <4>6. \A i \in 1..Len(frames) :
              /\ rest[i].node = frames[i].node
              /\ rest[i].todo \subseteq frames[i].todo
        BY <4>2, <4>4, TypeFacts DEF Frames
      <4>7. next \in Nodes
        BY <3>6 DEF Nodes, Callees
      <4> QED
        BY <3>2, <3>3, <3>5, <3>6, <3>7, <4>1, <4>5, <4>6, <4>7, VisitConnects
        DEF Visited
    <3>8. CASE index[next] # 0
      BY <3>1, <3>2, <3>3, <3>4, <3>8, RelaxConnects
    <3> QED
      BY <3>7, <3>8
  <2>3. CASE Retire
    <3>1. /\ frames # <<>>
          /\ Last(frames).todo = {}
          /\ frames' = Front(frames)
          /\ lowlink' = Propagated(Last(frames).node, Front(frames))
          /\ UNCHANGED <<calls, index, counter>>
      BY <2>3 DEF Retire
    <3>2. PICK top \in Nat : top = Len(frames)
      BY TypeFacts
    <3>3. CASE lowlink[Last(frames).node] = index[Last(frames).node]
      <4>1. /\ components' = Append(components, FromStack(Last(frames).node))
            /\ stack' = SubSeq(stack, 1, Place(Last(frames).node) - 1)
        BY <2>3, <3>3 DEF Retire
      <4> QED
        BY <3>1, <3>2, <3>3, <4>1, RetirePopsConnected
    <3>4. CASE lowlink[Last(frames).node] # index[Last(frames).node]
      <4>1. UNCHANGED <<components, stack>>
        BY <2>3, <3>4 DEF Retire
      <4> QED
        BY <3>1, <3>2, <3>4, <4>1, RetireKeepsConnected
    <3> QED
      BY <3>3, <3>4
  <2>4. CASE UNCHANGED <<calls, search>>
    <3>1. UNCHANGED <<calls, index, lowlink, counter, stack, frames, components>>
      BY <2>4 DEF search
    <3>2. /\ \A f : OnStack(f)' <=> OnStack(f)
          /\ \A f : OnFrames(f)' <=> OnFrames(f)
          /\ \A f : Visited(f)' <=> Visited(f)
      BY <3>1 DEF OnStack, OnFrames, Visited
    <3>3. /\ \A f : Callees(f)' = Callees(f)
          /\ \A f, g : Reaches(f, g)' <=> Reaches(f, g)
          /\ Nodes' = Nodes
      BY <3>1, GraphFixed
    <3>4. TodoAreCallees' /\ VisitedAreNodes' /\ StackIsReached'
      BY <3>1, <3>2, <3>3
      DEF ConnectedInv, TodoAreCallees, VisitedAreNodes, StackIsReached
    <3>5. LowlinkIsReached' /\ RetiredAreNotRoots' /\ ComponentsConnected'
      BY <3>1, <3>2, <3>3
      DEF ConnectedInv, LowlinkIsReached, RetiredAreNotRoots, ComponentsConnected
    <3> QED
      BY <3>4, <3>5 DEF ConnectedInv
  <2> QED
    BY <2>1, <2>2, <2>3, <2>4 DEF Next, Condense, Returned, vars
<1> QED
  BY <1>1, <1>2, SearchCorrect, PTL DEF Spec

(* What has been returned is of a finished search, and no longer changes. *)
ReturnedInv ==
  done => /\ frames = <<>>
          /\ \A f \in Nodes : Visited(f)
          /\ recursive = [c \in DOMAIN components |-> RecursiveIf(c)]

(* The condensation is made once, of everything, and then kept. *)
THEOREM ReturnedFinished == Spec => []ReturnedInv
<1>1. Init => ReturnedInv
  BY DEF Init, ReturnedInv
<1>2. ReturnedInv /\ [Next]_vars => ReturnedInv'
  <2> SUFFICES ASSUME ReturnedInv, [Next]_vars, done'
               PROVE  ReturnedInv'
    BY DEF ReturnedInv
  <2>1. CASE Condense
    <3>1. UNCHANGED <<calls, index, frames, components>>
      BY <2>1 DEF Condense, search
    <3>2. \A c : RecursiveIf(c)' <=> RecursiveIf(c)
      BY <3>1 DEF RecursiveIf, Callees
    <3>3. /\ frames = <<>>
          /\ \A f \in Nodes : index[f] # 0
          /\ recursive' = [c \in DOMAIN components |-> RecursiveIf(c)]
      BY <2>1 DEF Condense
    <3> QED
      BY <3>1, <3>2, <3>3 DEF ReturnedInv, Visited, Nodes, RecursiveIf, Callees
  <2>2. CASE UNCHANGED vars
    <3>1. UNCHANGED <<calls, index, frames, components, recursive, done>>
      BY <2>2 DEF vars, search
    <3>2. /\ frames = <<>>
          /\ \A f \in Nodes : index[f] # 0
          /\ recursive = [c \in DOMAIN components |-> RecursiveIf(c)]
      BY <3>1 DEF ReturnedInv, Visited
    <3> QED
      BY <3>1, <3>2 DEF ReturnedInv, Visited, Nodes, RecursiveIf, Callees
  <2>3. CASE (VisitRoot \/ VisitCallee \/ Retire) /\ done' = done
    <3>1. frames = <<>> /\ \A f \in Nodes : index[f] # 0
      BY <2>3 DEF ReturnedInv, Visited
    <3> QED
      BY <2>3, <3>1 DEF VisitRoot, VisitCallee, Retire
  <2> QED
    BY <2>1, <2>2, <2>3 DEF Next, VisitRoot, VisitCallee, Retire, Returned
<1> QED
  BY <1>1, <1>2, PTL DEF Spec

-----------------------------------------------------------------------------
(* What is reached from a component is in it or in an earlier one. *)
LEMMA ReachedBelow ==
  ASSUME SearchTypeOK, CalleesFirst,
         NEW c \in DOMAIN components, NEW f \in components[c],
         NEW g \in Functions, Reaches(f, g)
  PROVE  \E d \in 1..c : g \in components[d]
<1>1. /\ DOMAIN components = 1..Len(components)
      /\ Len(components) \in Nat
      /\ \A d \in 1..Len(components) : components[d] \subseteq Functions
  BY ElementOfSeq, LenProperties DEF SearchTypeOK
<1>2. PICK S : S = {u \in Functions : \E d \in 1..c : u \in components[d]}
  OBVIOUS
<1>3. ASSUME NEW u \in S
      PROVE  Callees(u) \subseteq S
  <2>1. PICK d \in 1..c : u \in components[d]
    BY <1>2
  <2>2. d \in DOMAIN components
    BY <1>1
  <2>3. \A v \in Callees(u) : \E e \in 1..d : v \in components[e]
    BY <2>1, <2>2 DEF CalleesFirst
  <2>4. \A e \in 1..d : e \in 1..c
    BY <1>1
  <2> QED
    BY <1>2, <2>3, <2>4 DEF Callees
<1>4. f \in S
  BY <1>1, <1>2
<1>5. S \in SUBSET Functions
  BY <1>2
<1> QED
  BY <1>2, <1>3, <1>4, <1>5 DEF Reaches

(* The components returned are exactly the classes of mutual reachability, *)
(* for any number of functions and any call graph.                         *)
THEOREM ComponentsExact == Spec => []ComponentsAreSCCs
<1> SUFFICES ASSUME SearchTypeOK, SearchInv, EmittedOnce, ConnectedInv, ReturnedInv
             PROVE  ComponentsAreSCCs
  BY SearchCorrect, ComponentsDisjoint, ConnectedCorrect, ReturnedFinished, PTL
<1> SUFFICES ASSUME done
             PROVE  /\ UNION {components[c] : c \in DOMAIN components} = Nodes
                    /\ \A c \in DOMAIN components : \A f \in components[c] :
                         components[c] = {g \in Nodes : Reaches(f, g) /\ Reaches(g, f)}
  BY DEF ComponentsAreSCCs
<1>1. /\ DOMAIN components = 1..Len(components)
      /\ Len(components) \in Nat
      /\ \A d \in 1..Len(components) : components[d] \subseteq Functions
  BY ElementOfSeq, LenProperties DEF SearchTypeOK
<1>2. \A f \in Nodes : f \in Functions /\ Emitted(f)
  BY UnwoundFacts DEF ReturnedInv
<1>3. \A c \in DOMAIN components : components[c] \subseteq Nodes
  BY <1>1 DEF EmittedOnce, Emitted, ConnectedInv, VisitedAreNodes
<1>4. UNION {components[c] : c \in DOMAIN components} = Nodes
  BY <1>2, <1>3 DEF Emitted
<1>5. ASSUME NEW c \in DOMAIN components, NEW f \in components[c],
             NEW g \in Nodes, Reaches(f, g), Reaches(g, f)
      PROVE  g \in components[c]
  <2>1. f \in Functions /\ g \in Functions
    BY <1>1, <1>2
  <2>2. CalleesFirst
    BY DEF SearchInv
  <2>3. PICK d \in 1..c : g \in components[d]
    BY <1>5, <2>1, <2>2, ReachedBelow
  <2>4. d \in DOMAIN components
    BY <1>1
  <2>5. PICK e \in 1..d : f \in components[e]
    BY <1>5, <2>1, <2>2, <2>3, <2>4, ReachedBelow
  <2>6. e \in DOMAIN components
    BY <1>1
  <2>7. e = c
    BY <2>5, <2>6 DEF EmittedOnce
  <2>8. d = c
    BY <1>1, <2>7
  <2> QED
    BY <2>3, <2>8
<1>6. \A c \in DOMAIN components : \A f, g \in components[c] :
        g \in Nodes /\ Reaches(f, g) /\ Reaches(g, f)
  BY <1>3 DEF ConnectedInv, ComponentsConnected
<1> QED
  BY <1>4, <1>5, <1>6

(* InCycle is exact for any number of functions and any call graph.        *)
THEOREM RecursionExact == Spec => []InCycleIsExact
<1> SUFFICES ASSUME SearchTypeOK, SearchInv, ReturnedInv, ComponentsAreSCCs
             PROVE  InCycleIsExact
  BY SearchCorrect, ReturnedFinished, ComponentsExact, PTL
<1> SUFFICES ASSUME done, NEW f \in Nodes
             PROVE  recursive[ComponentOf(f)] <=> \E g \in Callees(f) : Reaches(g, f)
  BY DEF InCycleIsExact
<1>1. f \in Functions /\ Emitted(f)
  BY UnwoundFacts DEF ReturnedInv
<1>2. PICK c \in DOMAIN components : c = ComponentOf(f) /\ f \in components[c]
  BY <1>1 DEF Emitted, ComponentOf
<1>3. recursive[c] = RecursiveIf(c)
  BY DEF ReturnedInv
<1>4. components[c] = {g \in Nodes : Reaches(f, g) /\ Reaches(g, f)}
  BY <1>2 DEF ComponentsAreSCCs
<1>5. \A g \in Nodes : g \in Functions
  BY DEF Nodes, SearchTypeOK
<1>6. ASSUME NEW h \in components[c], h # f
      PROVE  \E g \in Callees(f) : Reaches(g, f)
  <2>1. h \in Functions /\ Reaches(f, h) /\ Reaches(h, f)
    BY <1>4, <1>5
  <2>2. PICK g \in Callees(f) : Reaches(g, h)
    BY <1>1, <1>6, <2>1, ReachesByCallee
  <2>3. g \in Functions
    BY DEF Callees
  <2> QED
    BY <1>1, <2>1, <2>2, <2>3, ReachesFacts
<1>7. ASSUME f \in Callees(f)
      PROVE  \E g \in Callees(f) : Reaches(g, f)
  BY <1>1, <1>7, ReachesFacts
<1>8. ASSUME NEW g \in Callees(f), Reaches(g, f)
      PROVE  RecursiveIf(c)
  <2>1. g \in Functions /\ g \in Nodes
    BY DEF Callees, Nodes
  <2>2. g \in components[c]
    BY <1>1, <1>4, <1>8, <2>1, ReachesFacts
  <2> QED
    BY <1>2, <2>2 DEF RecursiveIf
<1>9. RecursiveIf(c) => \E g \in Callees(f) : Reaches(g, f)
  BY <1>6, <1>7 DEF RecursiveIf
<1> QED
  BY <1>2, <1>3, <1>8, <1>9

(* The condensation is that of the call graph, and in the order that is    *)
(* relied upon, whatever the graph.                                        *)
THEOREM CondensationExact == Spec => []CondensationIsExact
  BY ComponentsExact, RecursionExact, EmittedCalleesFirst, PTL DEF CondensationIsExact

-----------------------------------------------------------------------------
(* Why one pass over the components, in the order in which they are        *)
(* listed, is enough to know who reaches a matching call.                  *)

(* What compReaches says of component c, for what it says of the others.   *)
Pass(targets, reached, c) ==
  \E f \in components[c] : \E g \in Callees(f) :
    \/ g \in targets
    \/ LET d == ComponentOf(g)
       IN d # c /\ PassHasBeenTo(c, d) /\ reached[d]

Solves(targets, reached) ==
  reached = [c \in DOMAIN components |-> Pass(targets, reached, c)]

LEMMA CompReachesIsChosen ==
  ASSUME NEW targets
  PROVE  CompReaches(targets) = CHOOSE reached : Solves(targets, reached)
  BY DEF CompReaches, Solves, Pass

(* A matching call is reached from f. *)
Finds(targets, f) ==
  \E u \in Nodes : Reaches(f, u) /\ Callees(u) \intersect targets # {}

(* What compReaches should be. *)
Expected(targets) ==
  [c \in DOMAIN components |-> \E f \in components[c] : Finds(targets, f)]

LEMMA ComponentFacts ==
  ASSUME SearchTypeOK, CalleesFirst, EmittedOnce, ComponentsAreSCCs, done
  PROVE  /\ DOMAIN components = 1..Len(components)
         /\ Len(components) \in Nat
         /\ \A f \in Nodes :
              /\ f \in Functions
              /\ ComponentOf(f) \in DOMAIN components
              /\ f \in components[ComponentOf(f)]
         /\ \A f \in Functions : \A g \in Callees(f) : f \in Nodes /\ g \in Nodes
         /\ \A c \in DOMAIN components : \A f, g \in components[c] :
              f \in Nodes /\ Reaches(f, g)
         /\ \A c \in DOMAIN components : \A f \in components[c] :
              \A g \in Callees(f) :
                g \notin components[c] => PassHasBeenTo(c, ComponentOf(g))
<1>1. DOMAIN components = 1..Len(components) /\ Len(components) \in Nat
  BY LenProperties DEF SearchTypeOK
<1>2. ASSUME NEW f \in Nodes
      PROVE  /\ f \in Functions
             /\ ComponentOf(f) \in DOMAIN components
             /\ f \in components[ComponentOf(f)]
  <2>1. \E c \in DOMAIN components : f \in components[c]
    BY DEF ComponentsAreSCCs
  <2> QED
    BY <2>1 DEF ComponentOf, Nodes, SearchTypeOK
<1>3. \A f \in Functions : \A g \in Callees(f) : f \in Nodes /\ g \in Nodes
  BY DEF Callees, Nodes
<1>4. \A c \in DOMAIN components : \A f, g \in components[c] :
        f \in Nodes /\ Reaches(f, g)
  BY DEF ComponentsAreSCCs
<1>5. ASSUME NEW c \in DOMAIN components, NEW f \in components[c],
             NEW g \in Callees(f), g \notin components[c]
      PROVE  PassHasBeenTo(c, ComponentOf(g))
  <2>1. PICK e \in 1..c : g \in components[e]
    BY DEF CalleesFirst
  <2>2. g \in Nodes
    BY <1>2, <1>3, <1>4
  <2>3. e \in DOMAIN components /\ e < c
    BY <1>1, <1>5, <2>1
  <2>4. ComponentOf(g) = e
    BY <1>2, <2>1, <2>2, <2>3 DEF EmittedOnce
  <2> QED
    BY <2>3, <2>4 DEF PassHasBeenTo
<1> QED
  BY <1>1, <1>2, <1>3, <1>4, <1>5

(* Who reaches u from inside component c, and not within it, does so by a  *)
(* call out of the component.                                              *)
LEMMA LeavesComponent ==
  ASSUME NEW c \in DOMAIN components, components[c] \subseteq Functions,
         NEW f \in components[c], NEW u \in Functions,
         u \notin components[c], Reaches(f, u)
  PROVE  \E h \in components[c] : \E g \in Callees(h) :
           g \notin components[c] /\ Reaches(g, u)
<1> SUFFICES ASSUME \A h \in components[c] : \A g \in Callees(h) :
                      g \notin components[c] => ~Reaches(g, u)
             PROVE  FALSE
  OBVIOUS
<1>1. PICK S \in SUBSET Functions :
        S = components[c] \union {v \in Functions : ~Reaches(v, u)}
  OBVIOUS
<1>2. ASSUME NEW v \in S, NEW g \in Callees(v)
      PROVE  g \in S
  <2>1. g \in Functions /\ v \in Functions
    BY DEF Callees
  <2>2. CASE v \in components[c]
    BY <1>1, <2>1, <2>2
  <2>3. CASE ~Reaches(v, u)
    <3>1. ~Reaches(g, u)
      BY <2>1, <2>3, ReachesFacts
    <3> QED
      BY <1>1, <2>1, <3>1
  <2> QED
    BY <1>1, <2>2, <2>3
<1>3. u \in S
  BY <1>1, <1>2 DEF Reaches
<1> QED
  BY <1>1, <1>3, ReachesFacts

(* The expected answer is a solution of the equation of the pass.          *)
LEMMA ExpectedSolves ==
  ASSUME SearchTypeOK, CalleesFirst, EmittedOnce, ComponentsAreSCCs, done,
         NEW targets \in SUBSET Functions
  PROVE  Solves(targets, Expected(targets))
<1> DEFINE want == Expected(targets)
<1>1. \A c \in DOMAIN components : components[c] \subseteq Functions
  BY ComponentFacts
<1>2. ASSUME NEW c \in DOMAIN components, NEW f \in components[c],
             Finds(targets, f)
      PROVE  Pass(targets, want, c)
  <2>1. PICK u \in Nodes : Reaches(f, u) /\ Callees(u) \intersect targets # {}
    BY <1>2 DEF Finds
  <2>2. u \in Functions
    BY ComponentFacts
  <2>3. CASE u \in components[c]
    BY <2>1, <2>3 DEF Pass
  <2>4. CASE u \notin components[c]
    <3>0. PICK h \in components[c] : \E g \in Callees(h) :
            g \notin components[c] /\ Reaches(g, u)
      BY <1>1, <2>1, <2>2, <2>4, LeavesComponent
    <3>1. PICK g \in Callees(h) : g \notin components[c] /\ Reaches(g, u)
      BY <3>0
    <3>2. PICK d : d = ComponentOf(g)
      OBVIOUS
    <3>3. g \in Nodes
      BY <1>1, ComponentFacts
    <3>4. /\ d \in DOMAIN components /\ g \in components[d] /\ d # c
          /\ PassHasBeenTo(c, d)
      BY <3>1, <3>2, <3>3, ComponentFacts
    <3>5. Finds(targets, g)
      BY <2>1, <3>1 DEF Finds
    <3>6. want[d]
      BY <3>4, <3>5 DEF Expected
    <3> QED
      BY <3>2, <3>4, <3>6 DEF Pass
  <2> QED
    BY <2>3, <2>4
<1>3. ASSUME NEW c \in DOMAIN components, Pass(targets, want, c)
      PROVE  \E f \in components[c] : Finds(targets, f)
  <2>0. PICK f \in components[c] : \E g \in Callees(f) :
          \/ g \in targets
          \/ PassHasBeenTo(c, ComponentOf(g)) /\ want[ComponentOf(g)]
    BY <1>3 DEF Pass
  <2>1. PICK g \in Callees(f) :
          \/ g \in targets
          \/ PassHasBeenTo(c, ComponentOf(g)) /\ want[ComponentOf(g)]
    BY <2>0
  <2>2. f \in Functions /\ g \in Functions /\ f \in Nodes /\ g \in Nodes
    BY <1>1, ComponentFacts
  <2>3. CASE g \in targets
    <3>1. Reaches(f, f) /\ Callees(f) \intersect targets # {}
      BY <2>2, <2>3, ReachesFacts
    <3> QED
      BY <2>2, <3>1 DEF Finds
  <2>4. CASE want[ComponentOf(g)]
    <3>1. PICK d \in DOMAIN components :
            d = ComponentOf(g) /\ g \in components[d]
      BY <2>2, ComponentFacts
    <3>2. PICK h \in components[d] : Finds(targets, h)
      BY <2>4, <3>1 DEF Expected
    <3>3. PICK u \in Nodes : Reaches(h, u) /\ Callees(u) \intersect targets # {}
      BY <3>2 DEF Finds
    <3>4. h \in Functions /\ u \in Functions /\ Reaches(g, h)
      BY <1>1, <3>1, ComponentFacts
    <3>5. Reaches(f, g)
      BY <2>2, ReachesFacts
    <3>6. Reaches(f, h)
      BY <2>2, <3>4, <3>5, ReachesFacts
    <3>7. Reaches(f, u)
      BY <2>2, <3>3, <3>4, <3>6, ReachesFacts
    <3> QED
      BY <3>3, <3>7 DEF Finds
  <2> QED
    BY <2>1, <2>3, <2>4
<1>4. \A c \in DOMAIN components :
        (\E f \in components[c] : Finds(targets, f)) = Pass(targets, want, c)
  <2>1. \A c \in DOMAIN components :
          (\E f \in components[c] : Finds(targets, f)) <=> Pass(targets, want, c)
    BY <1>2, <1>3
  <2>2. \A c : Pass(targets, want, c) \in BOOLEAN
    BY DEF Pass
  <2> QED
    BY <2>1, <2>2
<1>5. Expected(targets) =
        [c \in DOMAIN components |-> \E f \in components[c] : Finds(targets, f)]
  BY DEF Expected
<1> HIDE DEF want
<1>6. Expected(targets) = [c \in DOMAIN components |-> Pass(targets, want, c)]
  BY <1>4, <1>5
<1> QED
  BY <1>6 DEF Solves, want

(* The equation has one solution only: at the first component where two    *)
(* differ the pass would have found them to agree on all it looks at.      *)
LEMMA SolvedOnce ==
  ASSUME SearchTypeOK, CalleesFirst, EmittedOnce, ComponentsAreSCCs, done,
         NEW targets \in SUBSET Functions,
         NEW r, Solves(targets, r), NEW s, Solves(targets, s)
  PROVE  \A c \in DOMAIN components : r[c] <=> s[c]
<1> DEFINE Differ == {c \in DOMAIN components : ~(r[c] <=> s[c])}
<1> SUFFICES ASSUME Differ # {}
             PROVE  FALSE
  OBVIOUS
<1>1. DOMAIN components = 1..Len(components) /\ Len(components) \in Nat
  BY ComponentFacts
<1>2. Differ \subseteq Nat
  BY <1>1
<1>3. PICK c \in Differ : \A d \in Differ : c <= d
  BY <1>2, LeastNatural
<1>4. /\ \A d \in DOMAIN components : r[d] = Pass(targets, r, d)
      /\ \A d \in DOMAIN components : s[d] = Pass(targets, s, d)
  BY DEF Solves
<1>5. ASSUME NEW d \in DOMAIN components, PassHasBeenTo(c, d)
      PROVE  r[d] <=> s[d]
  BY <1>1, <1>3, <1>5 DEF PassHasBeenTo
<1>6. \A f \in components[c] : \A g \in Callees(f) :
        ComponentOf(g) \in DOMAIN components
  BY ComponentFacts
<1>7. Pass(targets, r, c) <=> Pass(targets, s, c)
  <2>1. \A f \in components[c] : \A g \in Callees(f) :
          (PassHasBeenTo(c, ComponentOf(g)) /\ r[ComponentOf(g)]) <=>
            (PassHasBeenTo(c, ComponentOf(g)) /\ s[ComponentOf(g)])
    BY <1>5, <1>6
  <2> QED
    BY <2>1 DEF Pass
<1> QED
  BY <1>3, <1>4, <1>7

(* One pass over the condensation finds exactly the functions from which a *)
(* matching call is reached, for any call graph and any set of targets.    *)
THEOREM ReachExact == Spec => []ReachSetIsExact
<1> SUFFICES ASSUME SearchTypeOK, SearchInv, EmittedOnce, ComponentsAreSCCs
             PROVE  ReachSetIsExact
  BY SearchCorrect, ComponentsDisjoint, ComponentsExact, PTL
<1> SUFFICES ASSUME done, NEW targets \in SUBSET Functions
             PROVE  ReachSet(targets) = {f \in Nodes : Finds(targets, f)}
  BY DEF ReachSetIsExact, Finds
<1>1. CalleesFirst
  BY DEF SearchInv
<1>2. Solves(targets, Expected(targets))
  BY <1>1, ExpectedSolves
<1>3. Solves(targets, CompReaches(targets))
  BY <1>2, CompReachesIsChosen
<1>4. \A c \in DOMAIN components : CompReaches(targets)[c] <=> Expected(targets)[c]
  BY <1>1, <1>2, <1>3, SolvedOnce
<1>5. ASSUME NEW f \in Nodes
      PROVE  CompReaches(targets)[ComponentOf(f)] <=> Finds(targets, f)
  <2>1. PICK c \in DOMAIN components : c = ComponentOf(f) /\ f \in components[c]
    BY <1>1, ComponentFacts
  <2>2. CompReaches(targets)[c] <=> \E g \in components[c] : Finds(targets, g)
    BY <1>4 DEF Expected
  <2>3. ASSUME NEW g \in components[c], Finds(targets, g)
        PROVE  Finds(targets, f)
    <3>1. PICK u \in Nodes : Reaches(g, u) /\ Callees(u) \intersect targets # {}
      BY <2>3 DEF Finds
    <3>2. /\ f \in Functions /\ g \in Functions /\ u \in Functions
          /\ Reaches(f, g)
      BY <1>1, <2>1, ComponentFacts
    <3>3. Reaches(f, u)
      BY <3>1, <3>2, ReachesFacts
    <3> QED
      BY <3>1, <3>3 DEF Finds
  <2> QED
    BY <2>1, <2>2, <2>3
<1> QED
  BY <1>5 DEF ReachSet

=============================================================================
