--------------------------- MODULE UIServer_proofs ---------------------------
(***************************************************************************)
(* Theorems about UIServer for any set of requests, directories and wedged *)
(* engines.                                                                *)
(***************************************************************************)
EXTENDS UIServer, TLAPS

(* The steps of Next one by one, which every proof below splits on. *)
Step ==
  \/ \E h \in Gens \union Switches : Resolve(h)
  \/ \E h \in Gens \union Switches : SetDir(h)
  \/ \E h \in Gens \union Switches : Propagate(h)
  \/ \E g \in Gens : Reject(g)
  \/ \E g \in Gens : Claim(g)
  \/ \E g \in Gens : Start(g)
  \/ \E g \in Gens : Phase(g)
  \/ \E g \in Gens : EngineEnds(g)
  \/ \E g \in Gens : SelectStop(g)
  \/ \E g \in Gens : Drain(g)
  \/ \E g \in Gens : SelectDone(g)
  \/ \E g \in Gens : Check(g)
  \/ \E g \in Gens : Fail(g)
  \/ \E g \in Gens : Publish(g)
  \/ \E g \in Gens : Retain(g)
  \/ \E g \in Gens : Finish(g)
  \/ \E s \in Stops : TakeCancel(s)
  \/ \E s \in Stops : CallCancel(s)
  \/ UNCHANGED vars

LEMMA StepOfNext == [Next]_vars => Step
  BY Zenon DEF Next, Generate, Step, AllAnswered

(* Every variable keeps its type. *)
THEOREM TypeCorrect == Spec => []TypeOK
<1>1. Init => TypeOK
  <2> SUFFICES ASSUME Init PROVE TypeOK
    OBVIOUS
  <2>1. /\ summaryOf \in [Dirs -> Gens \union {None}]
        /\ dir \in [Handlers -> Dirs]
        /\ engDir \in [Gens -> Dirs]
        /\ target \in [Stops -> Gens \union {None}]
    BY InitDirAssumption DEF Init
  <2>2. /\ pc \in [Handlers -> PCs]
        /\ \A s \in Stops : pc[s] = "cancel" => target[s] # None
    BY DEF Init, Handlers, PCs
  <2>3. /\ myEpoch \in [Gens -> Nat]
        /\ engine \in [Gens -> {"none", "running", "ok", "err"}]
        /\ reply \in [Handlers -> Replies]
    BY DEF Init, Replies
  <2> QED
    BY <2>1, <2>2, <2>3, InitDirAssumption DEF Init, TypeOK
<1>2. TypeOK /\ [Next]_vars => TypeOK'
  <2> SUFFICES ASSUME TypeOK, Step PROVE TypeOK'
    BY StepOfNext
  <2> USE DEF TypeOK, Handlers, PCs, Replies, Goto, Answer, shared, slot,
              output, locals
  <2>1. ASSUME NEW h \in Gens \union Switches, Resolve(h) PROVE TypeOK'
    BY <2>1 DEF Resolve
  <2>2. ASSUME NEW h \in Gens \union Switches, SetDir(h) PROVE TypeOK'
    BY <2>2 DEF SetDir, SummariesDropped, ClearOutputIfChanged
  <2>3. ASSUME NEW h \in Gens \union Switches, Propagate(h) PROVE TypeOK'
    BY <2>3 DEF Propagate
  <2>4. ASSUME NEW g \in Gens, Reject(g) PROVE TypeOK'
    BY <2>4 DEF Reject
  <2>5. ASSUME NEW g \in Gens, Claim(g) PROVE TypeOK'
    <3>1. cancelled' \subseteq Gens
      BY <2>5 DEF Claim, ForcedStop
    <3>2. myEpoch' \in [Gens -> Nat] /\ epoch' \in Nat
      BY <2>5 DEF Claim, NextEpoch
    <3> QED
      BY <2>5, <3>1, <3>2 DEF Claim
  <2>6. ASSUME NEW g \in Gens, Start(g) PROVE TypeOK'
    BY <2>6 DEF Start
  <2>7. ASSUME NEW g \in Gens, Phase(g) PROVE TypeOK'
    BY <2>7 DEF Phase
  <2>8. ASSUME NEW g \in Gens, EngineEnds(g) PROVE TypeOK'
    BY <2>8 DEF EngineEnds
  <2>9. ASSUME NEW g \in Gens, SelectStop(g) PROVE TypeOK'
    BY <2>9 DEF SelectStop
  <2>10. ASSUME NEW g \in Gens, Drain(g) PROVE TypeOK'
    BY <2>10 DEF Drain
  <2>11. ASSUME NEW g \in Gens, SelectDone(g) PROVE TypeOK'
    BY <2>11 DEF SelectDone
  <2>12. ASSUME NEW g \in Gens, Check(g) PROVE TypeOK'
    BY <2>12 DEF Check
  <2>13. ASSUME NEW g \in Gens, Fail(g) PROVE TypeOK'
    BY <2>13 DEF Fail
  <2>14. ASSUME NEW g \in Gens, Publish(g) PROVE TypeOK'
    BY <2>14 DEF Publish
  <2>15. ASSUME NEW g \in Gens, Retain(g) PROVE TypeOK'
    BY <2>15 DEF Retain
  <2>16. ASSUME NEW g \in Gens, Finish(g) PROVE TypeOK'
    BY <2>16 DEF Finish, ClearSlot
  <2>17. ASSUME NEW s \in Stops, TakeCancel(s) PROVE TypeOK'
    BY <2>17 DEF TakeCancel
  <2>18. ASSUME NEW s \in Stops, CallCancel(s) PROVE TypeOK'
    BY <2>18 DEF CallCancel
  <2>19. CASE UNCHANGED vars
    BY <2>19 DEF vars
  <2> QED
    BY <2>1, <2>2, <2>3, <2>4, <2>5, <2>6, <2>7, <2>8, <2>9, <2>10, <2>11,
       <2>12, <2>13, <2>14, <2>15, <2>16, <2>17, <2>18, <2>19 DEF Step
<1> QED
  BY <1>1, <1>2, PTL DEF Spec

-----------------------------------------------------------------------------
(* The slot.  None of the slot's properties is inductive alone: that       *)
(* finishRun only frees the slot of its own run needs that two runs never  *)
(* share an epoch, which needs that every epoch given out is at most       *)
(* genEpoch and that a request has none before the gate.                   *)

PreGate == {"idle", "setdir", "propagate", "gate"}

EpochsAreDistinct ==
  /\ \A g \in Gens : myEpoch[g] <= epoch
  /\ \A g \in Gens : pc[g] \in Live => myEpoch[g] > 0
  /\ \A g \in Gens : pc[g] \in PreGate => myEpoch[g] = 0
  /\ \A g, h \in Gens : g # h /\ myEpoch[g] > 0 => myEpoch[g] # myEpoch[h]

FreeSlotHasNoLiveRun ==
  ~running => \A g \in Gens : pc[g] \in Live => ~Owns(g)

SlotInv ==
  /\ EpochsAreDistinct
  /\ FreeSlotHasNoLiveRun
  /\ CancelBelongsToOwner
  /\ StoppingIsTheOwners

LEMMA SlotInvInductive == Spec => [](TypeOK /\ SlotInv)
<1>1. Init => SlotInv
  BY HandlersAssumption DEF Init, SlotInv, EpochsAreDistinct, Live,
     FreeSlotHasNoLiveRun, CancelBelongsToOwner, StoppingIsTheOwners, Handlers
<1>2. TypeOK /\ SlotInv /\ [Next]_vars => SlotInv'
  <2> SUFFICES ASSUME TypeOK, SlotInv, Step PROVE SlotInv'
    BY StepOfNext
  <2> USE HandlersAssumption, NoneAssumption
      DEF TypeOK, SlotInv, EpochsAreDistinct, FreeSlotHasNoLiveRun,
          CancelBelongsToOwner, StoppingIsTheOwners, PreGate, Live, Owns,
          Goto, Answer, Handlers, PCs, Replies, shared, slot, output, locals
  <2>1. ASSUME NEW h \in Gens \union Switches, Resolve(h) PROVE SlotInv'
    BY <2>1 DEF Resolve
  <2>2. ASSUME NEW h \in Gens \union Switches, SetDir(h) PROVE SlotInv'
    BY <2>2 DEF SetDir
  <2>3. ASSUME NEW h \in Gens \union Switches, Propagate(h) PROVE SlotInv'
    BY <2>3 DEF Propagate
  <2>4. ASSUME NEW g \in Gens, Reject(g) PROVE SlotInv'
    BY <2>4 DEF Reject
  <2>5. ASSUME NEW g \in Gens, Claim(g) PROVE SlotInv'
    BY <2>5 DEF Claim, MayClaim, NextEpoch
  <2>6. ASSUME NEW g \in Gens, Start(g) PROVE SlotInv'
    BY <2>6 DEF Start
  <2>7. ASSUME NEW g \in Gens, Phase(g) PROVE SlotInv'
    BY <2>7 DEF Phase
  <2>8. ASSUME NEW g \in Gens, EngineEnds(g) PROVE SlotInv'
    BY <2>8 DEF EngineEnds
  <2>9. ASSUME NEW g \in Gens, SelectStop(g) PROVE SlotInv'
    BY <2>9 DEF SelectStop, NotesStop
  <2>10. ASSUME NEW g \in Gens, Drain(g) PROVE SlotInv'
    BY <2>10 DEF Drain
  <2>11. ASSUME NEW g \in Gens, SelectDone(g) PROVE SlotInv'
    BY <2>11 DEF SelectDone
  <2>12. ASSUME NEW g \in Gens, Check(g) PROVE SlotInv'
    BY <2>12 DEF Check
  <2>13. ASSUME NEW g \in Gens, Fail(g) PROVE SlotInv'
    BY <2>13 DEF Fail
  <2>14. ASSUME NEW g \in Gens, Publish(g) PROVE SlotInv'
    BY <2>14 DEF Publish
  <2>15. ASSUME NEW g \in Gens, Retain(g) PROVE SlotInv'
    BY <2>15 DEF Retain
  <2>16. ASSUME NEW g \in Gens, Finish(g) PROVE SlotInv'
    BY <2>16 DEF Finish, ClearsSlot, ClearSlot
  <2>17. ASSUME NEW s \in Stops, TakeCancel(s) PROVE SlotInv'
    BY <2>17 DEF TakeCancel
  <2>18. ASSUME NEW s \in Stops, CallCancel(s) PROVE SlotInv'
    BY <2>18 DEF CallCancel
  <2>19. CASE UNCHANGED vars
    BY <2>19 DEF vars
  <2> QED
    BY <2>1, <2>2, <2>3, <2>4, <2>5, <2>6, <2>7, <2>8, <2>9, <2>10, <2>11,
       <2>12, <2>13, <2>14, <2>15, <2>16, <2>17, <2>18, <2>19 DEF Step
<1> QED
  BY <1>1, <1>2, TypeCorrect, PTL DEF Spec


(* genRunning is set exactly while the run of the current epoch is between *)
(* its gate and its finishRun.                                             *)
THEOREM SlotHeld == Spec => []SlotHeldByLiveRun
<1>1. TypeOK /\ SlotInv => SlotHeldByLiveRun
  BY DEF SlotInv, FreeSlotHasNoLiveRun, CancelBelongsToOwner,
         SlotHeldByLiveRun
<1> QED
  BY <1>1, SlotInvInductive, PTL

(* A Stop reaches the run that holds the slot and no other. *)
THEOREM CancelIsTheOwners == Spec => []CancelBelongsToOwner
<1>1. SlotInv => CancelBelongsToOwner
  BY DEF SlotInv
<1> QED
  BY <1>1, SlotInvInductive, PTL

(* The slot is marked as stopping only while its own run is being stopped. *)
THEOREM StoppingIsLocal == Spec => []StoppingIsTheOwners
<1>1. SlotInv => StoppingIsTheOwners
  BY DEF SlotInv
<1> QED
  BY <1>1, SlotInvInductive, PTL

-----------------------------------------------------------------------------
(* Why a run is abandoned.  A context that is done before its run's select *)
(* was reached by a Stop that had taken its cancel function, or by the     *)
(* force that superseded it.                                               *)

StopHasACause ==
  /\ \A s \in Stops : pc[s] = "idle" => target[s] = None
  /\ \A g \in cancelled :
       pc[g] \in PreGate \union {"start", "select"} =>
         AskedToStop(g) \/ (myEpoch[g] > 0 /\ Superseded(g))
  /\ AbandonedForACause

LEMMA StopHasACauseInductive == Spec => [](TypeOK /\ SlotInv /\ StopHasACause)
<1>1. Init => StopHasACause
  BY HandlersAssumption DEF Init, StopHasACause, AbandonedForACause, Handlers
<1>2. TypeOK /\ SlotInv /\ StopHasACause /\ [Next]_vars => StopHasACause'
  <2> SUFFICES ASSUME TypeOK, SlotInv, StopHasACause, Step
               PROVE  StopHasACause'
    BY StepOfNext
  <2> USE HandlersAssumption, NoneAssumption
      DEF TypeOK, SlotInv, EpochsAreDistinct, CancelBelongsToOwner,
          StopHasACause, AbandonedForACause, AskedToStop, Superseded, PreGate,
          Live, Owns, Goto, Answer, Handlers, PCs, Replies, shared, slot,
          output, locals
  <2>1. ASSUME NEW h \in Gens \union Switches, Resolve(h) PROVE StopHasACause'
    BY <2>1 DEF Resolve
  <2>2. ASSUME NEW h \in Gens \union Switches, SetDir(h) PROVE StopHasACause'
    BY <2>2 DEF SetDir
  <2>3. ASSUME NEW h \in Gens \union Switches, Propagate(h) PROVE StopHasACause'
    BY <2>3 DEF Propagate
  <2>4. ASSUME NEW g \in Gens, Reject(g) PROVE StopHasACause'
    BY <2>4 DEF Reject
  <2>5. ASSUME NEW g \in Gens, Claim(g) PROVE StopHasACause'
    BY <2>5 DEF Claim, MayClaim, NextEpoch, ForcedStop
  <2>6. ASSUME NEW g \in Gens, Start(g) PROVE StopHasACause'
    BY <2>6 DEF Start
  <2>7. ASSUME NEW g \in Gens, Phase(g) PROVE StopHasACause'
    BY <2>7 DEF Phase
  <2>8. ASSUME NEW g \in Gens, EngineEnds(g) PROVE StopHasACause'
    BY <2>8 DEF EngineEnds
  <2>9. ASSUME NEW g \in Gens, SelectStop(g) PROVE StopHasACause'
    BY <2>9 DEF SelectStop, StopSeen, NotesStop
  <2>10. ASSUME NEW g \in Gens, Drain(g) PROVE StopHasACause'
    BY <2>10 DEF Drain
  <2>11. ASSUME NEW g \in Gens, SelectDone(g) PROVE StopHasACause'
    BY <2>11 DEF SelectDone
  <2>12. ASSUME NEW g \in Gens, Check(g) PROVE StopHasACause'
    BY <2>12 DEF Check
  <2>13. ASSUME NEW g \in Gens, Fail(g) PROVE StopHasACause'
    BY <2>13 DEF Fail
  <2>14. ASSUME NEW g \in Gens, Publish(g) PROVE StopHasACause'
    BY <2>14 DEF Publish
  <2>15. ASSUME NEW g \in Gens, Retain(g) PROVE StopHasACause'
    BY <2>15 DEF Retain
  <2>16. ASSUME NEW g \in Gens, Finish(g) PROVE StopHasACause'
    BY <2>16 DEF Finish, ClearsSlot, ClearSlot
  <2>17. ASSUME NEW s \in Stops, TakeCancel(s) PROVE StopHasACause'
    BY <2>17 DEF TakeCancel
  <2>18. ASSUME NEW s \in Stops, CallCancel(s) PROVE StopHasACause'
    BY <2>18 DEF CallCancel
  <2>19. CASE UNCHANGED vars
    BY <2>19 DEF vars
  <2> QED
    BY <2>1, <2>2, <2>3, <2>4, <2>5, <2>6, <2>7, <2>8, <2>9, <2>10, <2>11,
       <2>12, <2>13, <2>14, <2>15, <2>16, <2>17, <2>18, <2>19 DEF Step
<1> QED
  BY <1>1, <1>2, SlotInvInductive, PTL DEF Spec

(* No handler leaves its engine behind without a Stop or a Force. *)
THEOREM NobodyAbandonedInVain == Spec => []AbandonedForACause
<1>1. StopHasACause => AbandonedForACause
  BY DEF StopHasACause
<1> QED
  BY <1>1, StopHasACauseInductive, PTL

-----------------------------------------------------------------------------
(* The metadata cache: setDir empties it and moves inputDir in one         *)
(* critical section, and a run stores its summary under the directory it   *)
(* reads in the section that stores it.                                    *)
THEOREM SummaryIsCurrent == Spec => []SummaryOfCurrentDirOnly
<1>1. Init => SummaryOfCurrentDirOnly
  BY DEF Init, SummaryOfCurrentDirOnly
<1>2. TypeOK /\ SummaryOfCurrentDirOnly /\ [Next]_vars
        => SummaryOfCurrentDirOnly'
  <2> SUFFICES ASSUME TypeOK, SummaryOfCurrentDirOnly, Step
               PROVE  SummaryOfCurrentDirOnly'
    BY StepOfNext
  <2> USE DEF TypeOK, SummaryOfCurrentDirOnly, shared, output
  <2>1. ASSUME NEW h \in Gens \union Switches, Resolve(h) PROVE SummaryOfCurrentDirOnly'
    BY <2>1 DEF Resolve
  <2>2. ASSUME NEW h \in Gens \union Switches, SetDir(h) PROVE SummaryOfCurrentDirOnly'
    BY <2>2 DEF SetDir, SummariesDropped
  <2>3. ASSUME NEW h \in Gens \union Switches, Propagate(h) PROVE SummaryOfCurrentDirOnly'
    BY <2>3 DEF Propagate
  <2>4. ASSUME NEW g \in Gens, Reject(g) PROVE SummaryOfCurrentDirOnly'
    BY <2>4 DEF Reject
  <2>5. ASSUME NEW g \in Gens, Claim(g) PROVE SummaryOfCurrentDirOnly'
    BY <2>5 DEF Claim
  <2>6. ASSUME NEW g \in Gens, Start(g) PROVE SummaryOfCurrentDirOnly'
    BY <2>6 DEF Start
  <2>7. ASSUME NEW g \in Gens, Phase(g) PROVE SummaryOfCurrentDirOnly'
    BY <2>7 DEF Phase
  <2>8. ASSUME NEW g \in Gens, EngineEnds(g) PROVE SummaryOfCurrentDirOnly'
    BY <2>8 DEF EngineEnds
  <2>9. ASSUME NEW g \in Gens, SelectStop(g) PROVE SummaryOfCurrentDirOnly'
    BY <2>9 DEF SelectStop
  <2>10. ASSUME NEW g \in Gens, Drain(g) PROVE SummaryOfCurrentDirOnly'
    BY <2>10 DEF Drain
  <2>11. ASSUME NEW g \in Gens, SelectDone(g) PROVE SummaryOfCurrentDirOnly'
    BY <2>11 DEF SelectDone
  <2>12. ASSUME NEW g \in Gens, Check(g) PROVE SummaryOfCurrentDirOnly'
    BY <2>12 DEF Check
  <2>13. ASSUME NEW g \in Gens, Fail(g) PROVE SummaryOfCurrentDirOnly'
    BY <2>13 DEF Fail
  <2>14. ASSUME NEW g \in Gens, Publish(g) PROVE SummaryOfCurrentDirOnly'
    BY <2>14 DEF Publish
  <2>15. ASSUME NEW g \in Gens, Retain(g) PROVE SummaryOfCurrentDirOnly'
    BY <2>15 DEF Retain
  <2>16. ASSUME NEW g \in Gens, Finish(g) PROVE SummaryOfCurrentDirOnly'
    BY <2>16 DEF Finish
  <2>17. ASSUME NEW s \in Stops, TakeCancel(s) PROVE SummaryOfCurrentDirOnly'
    BY <2>17 DEF TakeCancel
  <2>18. ASSUME NEW s \in Stops, CallCancel(s) PROVE SummaryOfCurrentDirOnly'
    BY <2>18 DEF CallCancel
  <2>19. CASE UNCHANGED vars
    BY <2>19 DEF vars
  <2> QED
    BY <2>1, <2>2, <2>3, <2>4, <2>5, <2>6, <2>7, <2>8, <2>9, <2>10, <2>11,
       <2>12, <2>13, <2>14, <2>15, <2>16, <2>17, <2>18, <2>19 DEF Step
<1> QED
  BY <1>1, <1>2, TypeCorrect, PTL DEF Spec

-----------------------------------------------------------------------------
(* UIServer implements RunSlot.                                            *)

(* In a reachable state the run that holds the slot is the one genCancel   *)
(* belongs to, and the retired runs are the others that have an epoch.     *)
LEMMA MappingIsCancel ==
  ASSUME TypeOK, SlotInv
  PROVE  /\ SlotOwner = genCancel
         /\ RetiredRuns = {g \in Gens : myEpoch[g] > 0} \ {genCancel}
<1> USE NoneAssumption DEF TypeOK, SlotInv, EpochsAreDistinct,
        CancelBelongsToOwner, Owns, Live
<1>1. CASE running
  <2>1. genCancel \in Gens /\ Owns(genCancel) /\ myEpoch[genCancel] > 0
    BY <1>1
  <2>2. \A g \in Gens : Owns(g) <=> g = genCancel
    BY <2>1
  <2>3. SlotOwner = genCancel
    BY <1>1, <2>1, <2>2 DEF SlotOwner
  <2>4. RetiredRuns = {g \in Gens : myEpoch[g] > 0} \ {genCancel}
    BY <1>1, <2>2 DEF RetiredRuns
  <2> QED
    BY <2>3, <2>4
<1>2. CASE ~running
  BY <1>2 DEF SlotOwner, RetiredRuns
<1> QED
  BY <1>1, <1>2

(* The slot is claimed, taken over and given back as RunSlot says, by any  *)
(* number of requests: a run that lost it never gets it back, and takes it *)
(* from nobody.                                                            *)
THEOREM Refinement == Spec => ImplementsRunSlot
<1>1. Init => Slot!Init
  BY DEF Init, Slot!Init, SlotOwner, RetiredRuns
<1>2. ASSUME TypeOK, SlotInv, TypeOK', SlotInv', [Next]_vars
      PROVE  [Slot!Next]_Slot!slotVars
  <2>1. /\ SlotOwner = genCancel
        /\ RetiredRuns = {g \in Gens : myEpoch[g] > 0} \ {genCancel}
    BY <1>2, MappingIsCancel
  <2>2. /\ SlotOwner' = genCancel'
        /\ RetiredRuns' = {g \in Gens : myEpoch'[g] > 0} \ {genCancel'}
    <3>1. (/\ SlotOwner = genCancel
           /\ RetiredRuns = {g \in Gens : myEpoch[g] > 0} \ {genCancel})'
      BY <1>2, MappingIsCancel, PTL
    <3> QED
      BY <3>1
  <2>3. ASSUME NEW g \in Gens, Claim(g) PROVE Slot!Next
    <3>1. /\ genCancel' = g
          /\ myEpoch' = [myEpoch EXCEPT ![g] = epoch + 1]
          /\ myEpoch[g] = 0
          /\ epoch + 1 > 0
      BY <1>2, <2>3 DEF Claim, NextEpoch, TypeOK, SlotInv, EpochsAreDistinct,
                        PreGate
    <3>2. g # genCancel
      BY <1>2, <2>3, NoneAssumption DEF Claim, SlotInv, CancelBelongsToOwner,
         TypeOK, Live
    <3>3. {h \in Gens : myEpoch'[h] > 0}
            = {h \in Gens : myEpoch[h] > 0} \union {g}
      BY <1>2, <3>1 DEF TypeOK
    <3>4. CASE genCancel = None
      <4>1. Slot!Claim(g)
        BY <2>1, <2>2, <3>1, <3>2, <3>3, <3>4, NoneAssumption DEF Slot!Claim
      <4> QED
        BY <4>1 DEF Slot!Next
    <3>5. CASE genCancel # None
      <4>1. genCancel \in Gens /\ myEpoch[genCancel] > 0
        BY <1>2, <3>5 DEF SlotInv, EpochsAreDistinct, CancelBelongsToOwner,
                          TypeOK
      <4>2. Slot!Supersede(g)
        BY <2>1, <2>2, <3>1, <3>2, <3>3, <3>5, <4>1 DEF Slot!Supersede
      <4> QED
        BY <4>2 DEF Slot!Next
    <3> QED
      BY <3>4, <3>5
  <2>4. ASSUME NEW g \in Gens, Finish(g)
        PROVE  Slot!Release \/ UNCHANGED <<genCancel, myEpoch>>
    <3>1. CASE Owns(g)
      <4>1. genCancel = g /\ genCancel' = None /\ myEpoch' = myEpoch
        BY <1>2, <2>4, <3>1 DEF Finish, ClearsSlot, ClearSlot, SlotInv,
           EpochsAreDistinct, FreeSlotHasNoLiveRun, CancelBelongsToOwner,
           TypeOK, Owns, Live, locals
      <4>2. g \in Gens /\ myEpoch[g] > 0 /\ g # None
        BY <1>2, <2>4, NoneAssumption DEF Finish, SlotInv, EpochsAreDistinct,
           Live, TypeOK
      <4> QED
        BY <2>1, <2>2, <4>1, <4>2, NoneAssumption DEF Slot!Release
    <3>2. CASE ~Owns(g)
      BY <2>4, <3>2 DEF Finish, ClearsSlot, locals
    <3> QED
      BY <3>1, <3>2
  <2>5. (\/ \E g \in Gens : Claim(g)
         \/ \E g \in Gens : Finish(g)
         \/ UNCHANGED <<genCancel, myEpoch>>)
    BY <1>2, StepOfNext DEF Step, Resolve, SetDir, Propagate, Reject, Start,
       Phase, EngineEnds, SelectStop, Drain, SelectDone, Check, Fail, Publish,
       Retain, TakeCancel, CallCancel, shared, slot, locals, vars
  <2>6. CASE UNCHANGED <<genCancel, myEpoch>>
    BY <2>1, <2>2, <2>6 DEF Slot!slotVars
  <2> QED
    BY <2>3, <2>4, <2>5, <2>6 DEF Slot!Next
<1> QED
  BY <1>1, <1>2, SlotInvInductive, PTL DEF Spec, ImplementsRunSlot, Slot!Spec

(* The fields that stand for the slot agree, for any number of requests,   *)
(* Stops and switches.                                                     *)
THEOREM SlotOwned == Spec => []SlotOwnership
  BY SlotHeld, CancelIsTheOwners, StoppingIsLocal, PTL DEF SlotOwnership

=============================================================================
