------------------------------ MODULE UIServer ------------------------------
(***************************************************************************)
(* The shared state of apispec's UI server (cmd/apispecui/main.go) and the *)
(* handlers that change it, one goroutine per HTTP request.  A step is one *)
(* critical section of UIServer.mu, or one visible event between two of    *)
(* them (the engine goroutine ends, a select picks a case, a cancel        *)
(* function is called).                                                    *)
(*                                                                         *)
(* A generated specification, its config and its metadata are represented  *)
(* by the request that generated them.  Timestamps are left out: genStopAt *)
(* is set and cleared with genStopping, lastGen with currentSpec.          *)
(***************************************************************************)
EXTENDS Naturals

CONSTANTS Gens,     \* POST /api/generate requests
          Switches, \* POST /api/project requests
          Stops,    \* POST /api/generate/cancel requests
          Dirs,     \* project directories that exist
          InitDir,  \* --dir of the command line
          Wedged,   \* requests whose engine may never come back
          None

ASSUME HandlersAssumption ==
  /\ Gens \intersect Switches = {}
  /\ Gens \intersect Stops = {}
  /\ Switches \intersect Stops = {}
ASSUME NoneAssumption == None \notin Gens \union Dirs
ASSUME InitDirAssumption == InitDir \in Dirs
ASSUME WedgedAssumption == Wedged \subseteq Gens

VARIABLES
  inputDir,   \* UIServer.inputDir
  diagDir,    \* config.InputDir of the embedded diagserver.Server
  running,    \* UIServer.genRunning
  epoch,      \* UIServer.genEpoch
  stopping,   \* UIServer.genStopping
  genCancel,  \* the request whose cancel function UIServer.genCancel is
  phase,      \* UIServer.genPhase; an engine's phases are its request
  spec,       \* currentSpec, currentCfg, currentMeta: the run they come from
  result,     \* UIServer.lastResult
  lastErr,    \* UIServer.lastErr: the run whose error it holds
  summaryOf,  \* UIServer.metaCache
  pc,         \* where each handler is
  dir,        \* the validated directory of a request (abs)
  forced,     \* the requests with ?force=1
  myEpoch,    \* handleGenerate's local epoch, 0 before the gate
  cancelled,  \* the requests whose genCtx is done
  engine,     \* the goroutine that runs GenerateOpenAPI, and what it sent
  engDir,     \* EngineConfig.InputDir
  target,     \* the cancel function a stop request took from genCancel
  reply       \* what the client was told

shared  == <<inputDir, diagDir, running, epoch, stopping, genCancel, phase,
             spec, result, lastErr, summaryOf>>
slot    == <<running, epoch, stopping, genCancel, phase>>
output  == <<spec, result, lastErr, summaryOf>>
locals  == <<dir, forced, myEpoch, engDir, target>>
vars    == <<shared, pc, locals, cancelled, engine, reply>>

Handlers == Gens \union Switches \union Stops

PCs == {"idle", "setdir", "propagate", "gate", "start", "select", "draining",
        "check", "fail", "publish", "result", "finish", "cancel", "end"}

Replies == {"none", "bad", "ok", "conflict", "stopped", "superseded", "failed"}

(* The places between the gate and finishRun: a run that is at one of them *)
(* has taken the slot and has not yet tried to give it back.               *)
Live == {"start", "select", "draining", "check", "fail", "publish", "result",
         "finish"}

TypeOK ==
  /\ inputDir \in Dirs
  /\ diagDir \in Dirs
  /\ running \in BOOLEAN
  /\ epoch \in Nat
  /\ stopping \in BOOLEAN
  /\ genCancel \in Gens \union {None}
  /\ phase \in Gens \union {"idle", "loading", "stopping"}
  /\ spec \in Gens \union {None}
  /\ result \in Gens \union {None}
  /\ lastErr \in Gens \union {None}
  /\ summaryOf \in [Dirs -> Gens \union {None}]
  /\ pc \in [Handlers -> PCs]
  /\ dir \in [Handlers -> Dirs]
  /\ forced \subseteq Gens
  /\ myEpoch \in [Gens -> Nat]
  /\ cancelled \subseteq Gens
  /\ engine \in [Gens -> {"none", "running", "ok", "err"}]
  /\ engDir \in [Gens -> Dirs]
  /\ target \in [Stops -> Gens \union {None}]
  /\ \A s \in Stops : pc[s] = "cancel" => target[s] # None
  /\ reply \in [Handlers -> Replies]

Init ==
  /\ inputDir = InitDir
  /\ diagDir = InitDir
  /\ running = FALSE
  /\ epoch = 0
  /\ stopping = FALSE
  /\ genCancel = None
  /\ phase = "idle"
  /\ spec = None
  /\ result = None
  /\ lastErr = None
  /\ summaryOf = [d \in Dirs |-> None]
  /\ pc = [h \in Handlers |-> "idle"]
  /\ dir = [h \in Handlers |-> InitDir]
  /\ forced = {}
  /\ myEpoch = [g \in Gens |-> 0]
  /\ cancelled = {}
  /\ engine = [g \in Gens |-> "none"]
  /\ engDir = [g \in Gens |-> InitDir]
  /\ target = [s \in Stops |-> None]
  /\ reply = [h \in Handlers |-> "none"]

Goto(h, place) == pc' = [pc EXCEPT ![h] = place]

Answer(h, what) ==
  /\ reply' = [reply EXCEPT ![h] = what]
  /\ Goto(h, "end")

-----------------------------------------------------------------------------
(* Switching the project: handleProject, and the head of handleGenerate.   *)

(* The request is decoded and its directory validated; a bad one is        *)
(* answered 400 and touches nothing.  A generate request without a         *)
(* directory takes the current one.                                        *)
Resolve(h) ==
  /\ pc[h] = "idle"
  /\ \/ /\ Answer(h, "bad")
        /\ UNCHANGED <<dir, forced>>
     \/ /\ \E d \in Dirs : dir' = [dir EXCEPT ![h] = d]
        /\ \/ UNCHANGED forced
           \/ h \in Gens /\ forced' = forced \union {h}
        /\ Goto(h, "setdir")
        /\ UNCHANGED reply
  /\ UNCHANGED <<shared, myEpoch, engDir, target, cancelled, engine>>

ClearOutputIfChanged(d) ==
  IF d # inputDir
    THEN spec' = None /\ result' = None /\ lastErr' = None
    ELSE UNCHANGED <<spec, result, lastErr>>

SummariesKept == summaryOf

SummariesDropped == [d \in Dirs |-> None]

(* UIServer.setDir, up to the unlock. *)
SetDir(h) ==
  /\ pc[h] = "setdir"
  /\ inputDir' = dir[h]
  /\ summaryOf' = SummariesDropped
  /\ ClearOutputIfChanged(dir[h])
  /\ Goto(h, "propagate")
  /\ UNCHANGED <<diagDir, slot, locals, cancelled, engine, reply>>

(* diag.SetInputDir, called after UIServer.mu is released.  A generate     *)
(* request whose config does not build is answered 400 here, after the     *)
(* project has been switched.                                              *)
Propagate(h) ==
  /\ pc[h] = "propagate"
  /\ diagDir' = dir[h]
  /\ \/ h \in Gens /\ Goto(h, "gate") /\ UNCHANGED reply
     \/ h \in Gens /\ Answer(h, "bad")
     \/ h \in Switches /\ Answer(h, "ok")
  /\ UNCHANGED <<inputDir, slot, output, locals, cancelled, engine>>

-----------------------------------------------------------------------------
(* handleGenerate: the gate.                                               *)

(* 409: a run holds the slot and the request does not force. *)
Reject(g) ==
  /\ pc[g] = "gate"
  /\ running /\ g \notin forced
  /\ cancelled' = cancelled \union {g}
  /\ Answer(g, "conflict")
  /\ UNCHANGED <<shared, locals, engine>>

ForcedStopOfAll == IF running THEN Gens ELSE cancelled

(* The contexts that are done after g passes the gate: a force cancels the *)
(* run it takes the slot from.                                             *)
ForcedStop ==
  IF running /\ genCancel # None THEN cancelled \union {genCancel}
                                 ELSE cancelled

EpochStuck == IF epoch = 0 THEN 1 ELSE epoch

EpochDown == epoch - 1

NextEpoch == epoch + 1

ClaimOnlyFree(g) == ~running

MayClaim(g) == running => g \in forced

(* The request takes the slot, from the run that holds it if it forces. *)
Claim(g) ==
  /\ pc[g] = "gate"
  /\ MayClaim(g)
  /\ cancelled' = ForcedStop
  /\ epoch' = NextEpoch
  /\ myEpoch' = [myEpoch EXCEPT ![g] = epoch']
  /\ running' = TRUE
  /\ stopping' = FALSE
  /\ phase' = "loading"
  /\ genCancel' = g
  /\ Goto(g, "start")
  /\ UNCHANGED <<inputDir, diagDir, output, dir, forced, engDir, target,
                 engine, reply>>

(* The engine gets the directory that is current now, and is started. *)
Start(g) ==
  /\ pc[g] = "start"
  /\ engDir' = [engDir EXCEPT ![g] = inputDir]
  /\ engine' = [engine EXCEPT ![g] = "running"]
  /\ Goto(g, "select")
  /\ UNCHANGED <<shared, dir, forced, myEpoch, target, cancelled, reply>>

-----------------------------------------------------------------------------
(* The engine goroutine.                                                   *)

(* OnPhase, at each phase boundary. *)
Phase(g) ==
  /\ engine[g] = "running"
  /\ phase' = g
  /\ UNCHANGED <<inputDir, diagDir, running, epoch, stopping, genCancel,
                 output, pc, locals, cancelled, engine, reply>>

(* GenerateOpenAPI returns and its result is in the channel.  A cancelled  *)
(* context makes it fail only at a checkpoint, so it may still succeed.    *)
EngineEnds(g) ==
  /\ engine[g] = "running"
  /\ \E r \in {"ok", "err"} : engine' = [engine EXCEPT ![g] = r]
  /\ UNCHANGED <<shared, pc, locals, cancelled, reply>>

Ended(g) == engine[g] \in {"ok", "err"}

-----------------------------------------------------------------------------
(* handleGenerate: waiting, and what follows.                              *)

Owns(g) == epoch = myEpoch[g]

NotesAnyStop(g) == TRUE

(* A run marks the slot as stopping only while it holds it. *)
NotesStop(g) == Owns(g)

StopSeenByOwner(g) == g \in cancelled /\ Owns(g)

StopSeen(g) == g \in cancelled

(* case <-genCtx.Done(): the client is answered now, a goroutine stays     *)
(* behind to wait for the engine.                                          *)
SelectStop(g) ==
  /\ pc[g] = "select"
  /\ StopSeen(g)
  /\ IF NotesStop(g)
       THEN stopping' = TRUE /\ phase' = "stopping"
       ELSE UNCHANGED <<stopping, phase>>
  /\ reply' = [reply EXCEPT ![g] = "stopped"]
  /\ Goto(g, "draining")
  /\ UNCHANGED <<inputDir, diagDir, running, epoch, genCancel, output,
                 locals, cancelled, engine>>

DrainedByOwner(g) == Ended(g) /\ Owns(g)

Drained(g) == Ended(g)

(* The goroutine left behind receives what the engine sent. *)
Drain(g) ==
  /\ pc[g] = "draining"
  /\ Drained(g)
  /\ Goto(g, "finish")
  /\ UNCHANGED <<shared, locals, cancelled, engine, reply>>

(* case res := <-done: cancel() releases the context, whether or not       *)
(* anyone asked for a stop.                                                *)
SelectDone(g) ==
  /\ pc[g] = "select"
  /\ Ended(g)
  /\ cancelled' = cancelled \union {g}
  /\ Goto(g, "check")
  /\ UNCHANGED <<shared, locals, engine, reply>>

(* superseded(): one read of the epoch, under a lock of its own. *)
Check(g) ==
  /\ pc[g] = "check"
  /\ IF Owns(g)
       THEN /\ Goto(g, IF engine[g] = "ok" THEN "publish" ELSE "fail")
            /\ UNCHANGED reply
       ELSE Answer(g, "superseded")
  /\ UNCHANGED <<shared, locals, cancelled, engine>>

(* The engine failed.  The context decides what the client is told. *)
Fail(g) ==
  /\ pc[g] = "fail"
  /\ phase' = "idle"
  /\ lastErr' = IF g \in cancelled THEN lastErr ELSE g
  /\ reply' = [reply EXCEPT ![g] = IF g \in cancelled THEN "stopped"
                                                    ELSE "failed"]
  /\ Goto(g, "finish")
  /\ UNCHANGED <<inputDir, diagDir, running, epoch, stopping, genCancel, spec,
                 result, summaryOf, locals, cancelled, engine>>

(* The output of the run replaces what the server shows. *)
Publish(g) ==
  /\ pc[g] = "publish"
  /\ spec' = g
  /\ lastErr' = None
  /\ phase' = "idle"
  /\ summaryOf' = [summaryOf EXCEPT ![inputDir] = g]
  /\ Goto(g, "result")
  /\ UNCHANGED <<inputDir, diagDir, running, epoch, stopping, genCancel,
                 result, locals, cancelled, engine, reply>>

(* A second critical section keeps the response for /api/status. *)
Retain(g) ==
  /\ pc[g] = "result"
  /\ result' = g
  /\ reply' = [reply EXCEPT ![g] = "ok"]
  /\ Goto(g, "finish")
  /\ UNCHANGED <<inputDir, diagDir, slot, spec, lastErr, summaryOf, locals,
                 cancelled, engine>>

ClearSlotButCancel ==
  /\ running' = FALSE
  /\ stopping' = FALSE
  /\ phase' = "idle"
  /\ UNCHANGED genCancel

ClearSlot ==
  /\ running' = FALSE
  /\ stopping' = FALSE
  /\ genCancel' = None
  /\ phase' = "idle"

ClearsAnySlot(g) == TRUE

ClearsUnstopped(g) == Owns(g) /\ ~stopping

(* finishRun clears the slot of its own epoch only. *)
ClearsSlot(g) == Owns(g)

(* finishRun. *)
Finish(g) ==
  /\ pc[g] = "finish"
  /\ IF ClearsSlot(g)
       THEN ClearSlot
       ELSE UNCHANGED <<running, stopping, genCancel, phase>>
  /\ Goto(g, "end")
  /\ UNCHANGED <<inputDir, diagDir, epoch, output, locals, cancelled, engine,
                 reply>>

-----------------------------------------------------------------------------
(* handleGenerateCancel: the cancel function is read under the lock and    *)
(* called after it.                                                        *)

TakeCancel(s) ==
  /\ pc[s] = "idle"
  /\ target' = [target EXCEPT ![s] = genCancel]
  /\ IF genCancel = None
       THEN Answer(s, "conflict")
       ELSE Goto(s, "cancel") /\ UNCHANGED reply
  /\ UNCHANGED <<shared, dir, forced, myEpoch, engDir, cancelled, engine>>

CallCancel(s) ==
  /\ pc[s] = "cancel"
  /\ cancelled' = cancelled \union {target[s]}
  /\ Answer(s, "ok")
  /\ UNCHANGED <<shared, locals, engine>>

-----------------------------------------------------------------------------
Generate(g) ==
  \/ Reject(g) \/ Claim(g) \/ Start(g)
  \/ SelectStop(g) \/ Drain(g) \/ SelectDone(g) \/ Check(g)
  \/ Fail(g) \/ Publish(g) \/ Retain(g) \/ Finish(g)

(* Every request has been answered: the server waits for another one. *)
AllAnswered ==
  /\ \A h \in Handlers : pc[h] = "end"
  /\ UNCHANGED vars

Next ==
  \/ \E h \in Gens \union Switches : Resolve(h) \/ SetDir(h) \/ Propagate(h)
  \/ \E g \in Gens : Generate(g) \/ Phase(g) \/ EngineEnds(g)
  \/ \E s \in Stops : TakeCancel(s) \/ CallCancel(s)
  \/ AllAnswered

(* A request that has arrived is carried through (net/http runs each       *)
(* handler in a goroutine of its own, and no critical section blocks); an  *)
(* engine comes back unless it is one of the Wedged.  Nothing makes a      *)
(* client send a request.                                                  *)
Fairness ==
  /\ \A h \in Gens \union Switches : WF_vars(SetDir(h) \/ Propagate(h))
  /\ \A g \in Gens : WF_vars(Generate(g))
  /\ \A g \in Gens \ Wedged : WF_vars(EngineEnds(g))
  /\ \A s \in Stops : WF_vars(CallCancel(s))

Spec == Init /\ [][Next]_vars /\ Fairness

-----------------------------------------------------------------------------
(* What the slot must guarantee.                                           *)

SlotOwner == IF running THEN CHOOSE g \in Gens : Owns(g) ELSE None

RetiredRuns == {g \in Gens : myEpoch[g] > 0 /\ ~(running /\ Owns(g))}

Slot == INSTANCE RunSlot WITH Runs <- Gens, owner <- SlotOwner,
                              retired <- RetiredRuns

(* The server implements the abstract slot: claims, forced claims and      *)
(* finishRun never hand the slot back to a run that lost it, and a         *)
(* superseded run never takes it from its successor.                       *)
ImplementsRunSlot == Slot!Spec

(* genRunning is never left set by a run that is over, nor cleared under   *)
(* a run that is not: it is set exactly while the run of the current epoch *)
(* is between its gate and its finishRun.                                  *)
SlotHeldByLiveRun ==
  running <=> \E g \in Gens : pc[g] \in Live /\ Owns(g)

(* genCancel belongs to the run that holds the slot, so a Stop never       *)
(* reaches another run, and there is none when the slot is free, so that a *)
(* Stop is then refused.                                                   *)
CancelBelongsToOwner ==
  /\ running => genCancel \in Gens /\ Owns(genCancel) /\ pc[genCancel] \in Live
  /\ ~running => genCancel = None

(* The UI shows "stopping" (and offers a Force) only while the run that    *)
(* holds the slot has answered its client and waits for its engine; a      *)
(* forced run never inherits the Stop of the run it took the slot from.    *)
StoppingIsTheOwners ==
  stopping => /\ running
              /\ pc[genCancel] \in {"draining", "finish"}
              /\ reply[genCancel] = "stopped"

(* The four fields that stand for the slot never come apart, in whatever   *)
(* order claims, Stops, Forces and finishRun interleave (main.go:1237).    *)
SlotOwnership == SlotHeldByLiveRun /\ CancelBelongsToOwner /\ StoppingIsTheOwners

(* No entry of the metadata cache outlives a project switch: whatever mix  *)
(* of switches, runs and late results, only the current directory has one, *)
(* so coming back to a project never revives its old suggestions.          *)
SummaryOfCurrentDirOnly ==
  \A d \in Dirs : summaryOf[d] # None => d = inputDir

AskedToStop(g) == \E s \in Stops : target[s] = g

Superseded(g) == myEpoch[g] < epoch

(* No run is abandoned without a cause: a handler leaves its engine behind *)
(* only if a Stop took its cancel function or a newer run took its slot.   *)
AbandonedForACause ==
  \A g \in Gens : pc[g] = "draining" => AskedToStop(g) \/ Superseded(g)

(* Every generate request whose engine comes back is answered in the end.  *)
Answered ==
  \A g \in Gens \ Wedged : (pc[g] = "setdir") ~> (pc[g] = "end")

(* A stopped or superseded client is answered even if its engine never     *)
(* comes back.                                                             *)
StopIsAnswered ==
  \A g \in Gens : (pc[g] = "select" /\ g \in cancelled) ~> (reply[g] # "none")

(* Nobody who can be answered is left waiting (handleGenerate's select).   *)
ClientsAnswered == Answered /\ StopIsAnswered

(* Force is an escape hatch: a forced request gets a run of its own,       *)
(* whatever the run that holds the slot is stuck in.                       *)
ForceGetsTheSlot ==
  \A g \in Gens : (pc[g] = "gate" /\ g \in forced) ~> (myEpoch[g] > 0)

(* A run whose engine comes back gives the slot up.                        *)
SlotRecovers ==
  \A g \in Gens \ Wedged :
    (running /\ genCancel = g) ~> ~(running /\ genCancel = g)

-----------------------------------------------------------------------------
(* What the comments of the code say and the code does not do.             *)

(* Not so: "generation stopped" is what a client is told when its run was stopped  *)
(* or superseded (main.go, case <-genCtx.Done()); a failed engine is       *)
(* "generation failed".                                                    *)
StoppedMeansStopped ==
  \A g \in Gens : reply[g] = "stopped" => AskedToStop(g) \/ Superseded(g)

(* Not so: "Switching projects: the previous spec/result no longer         *)
(* applies, so a refresh shouldn't restore another project's output."      *)
OutputIsOfThisProject ==
  \A g \in {spec, result} \ {None} : engDir[g] = inputDir

=============================================================================
