---------------------------- MODULE AnalysisJob ----------------------------
(***************************************************************************)
(* What the callers of the engine rely on when they hand it a context: a   *)
(* job that has been told to stop before it is past its last check fails;  *)
(* only a job past that check delivers; and every job comes to an end.     *)
(* The comment on EngineConfig.Context (internal/engine/engine.go:175)     *)
(* says "the engine aborts at each phase boundary when it's cancelled".    *)
(***************************************************************************)
VARIABLES
  stage,   \* "idle", "running", "committed": past the last check
  stop,    \* the context of the current job is cancelled
  result   \* "none", "delivered", "failed": of the latest job

jobvars == <<stage, stop, result>>

JobInit == stage = "idle" /\ stop = FALSE /\ result = "none"

Submit ==
  /\ stage = "idle"
  /\ stop' = FALSE
  /\ \/ stage' = "running" /\ result' = "none"
     \/ stage' = "idle" /\ result' = "failed"

Stop == stage # "idle" /\ stop' = TRUE /\ UNCHANGED <<stage, result>>

Commit == stage = "running" /\ ~stop /\ stage' = "committed" /\ UNCHANGED <<stop, result>>

GiveUp == stage # "idle" /\ stage' = "idle" /\ result' = "failed" /\ UNCHANGED stop

(* Delivering may be the step of the last check itself. *)
Deliver ==
  /\ stage = "committed" \/ (stage = "running" /\ ~stop)
  /\ stage' = "idle"
  /\ result' = "delivered"
  /\ UNCHANGED stop

JobNext == Submit \/ Stop \/ Commit \/ GiveUp \/ Deliver

JobSafety == JobInit /\ [][JobNext]_jobvars

JobSpec == JobSafety /\ WF_jobvars(Commit \/ GiveUp \/ Deliver)
=============================================================================
