----------------------------- MODULE CommandRun -----------------------------
(***************************************************************************)
(* The apispec command (cmd/apispec/main.go) and the files it leaves: one  *)
(* run after the other in one project directory, each with its own flags,  *)
(* each possibly killed at any moment.  A run starts the profiler          *)
(* (internal/profiler), runs the engine, which writes metadata             *)
(* (internal/metadata/io.go) and the effective configuration, writes the   *)
(* specification, saves and analyses the metrics, and stops the profiler;  *)
(* a failure before that ends it through log.Fatalf, which runs no         *)
(* deferred Stop.  Beside it the collector's goroutine adds metrics.       *)
(*                                                                         *)
(* A file is absent, or the work of some run, whole or not.  What is in    *)
(* it, other than the metrics, and the engine's own phases (Engine) are    *)
(* left out; so is output to the terminal.                                 *)
(***************************************************************************)
EXTENDS Naturals, Sequences, FiniteSets, SequencesExt

CONSTANTS
  FlagSets,   \* the sets of flags a user may give
  Levels,     \* how a measurement may compare: subset of "normal", "warning", "critical"
  MaxRuns, MaxTicks

Features == {"metadata", "split", "config", "output",
             "cpu", "mem", "block", "mutex", "trace", "metrics"}

Split == <<"string-pool", "packages", "call-graph">>

Profiles == {"cpu", "mem", "block", "mutex", "trace"}

Files == Range(Split) \union Profiles \union {"metadata", "config", "spec", "metrics"}

ASSUME FlagsAssumption == FlagSets \subseteq SUBSET Features
ASSUME LevelsAssumption == Levels \subseteq {"normal", "warning", "critical"}
ASSUME BoundsAssumption == MaxRuns \in Nat /\ MaxTicks \in Nat

VARIABLES
  run,        \* runs so far
  asked,      \* flags of the current run
  status,     \* "none" before the first run, "running", "ok", "failed", "killed"
  pc,         \* phase of the main goroutine
  left,       \* files it has still to write in this phase
  files,      \* file -> [run, whole]; run 0 for none
  recording,  \* profiles being recorded into an open file: cpu, trace
  collector,  \* "off", "waiting", "sampling"
  ticks,      \* samples taken in this run
  metrics,    \* MetricsCollector.metrics
  saved,      \* what the metrics file was written from
  report,     \* the performance report
  warned      \* an error was logged and passed over

process == <<recording, collector, ticks, metrics, saved, report, warned>>
vars == <<run, asked, status, pc, left, files, process>>

Absent == [run |-> 0, whole |-> FALSE]

NoReport == [made |-> FALSE]

Init ==
  /\ run = 0
  /\ asked = {}
  /\ status = "none"
  /\ pc = "done"
  /\ left = <<>>
  /\ files = [f \in Files |-> Absent]
  /\ recording = {}
  /\ collector = "off"
  /\ ticks = 0
  /\ metrics = <<>>
  /\ saved = <<>>
  /\ report = NoReport
  /\ warned = FALSE

-----------------------------------------------------------------------------
Profiling == asked \intersect (Profiles \union {"metrics"}) # {}

(* main up to the profiler: bad flags fail, --help and --version end the *)
(* run with nothing done.                                                *)
Begin(flags) ==
  /\ status # "running"
  /\ run < MaxRuns
  /\ run' = run + 1
  /\ metrics' = <<>>
  /\ saved' = <<>>
  /\ report' = NoReport
  /\ warned' = FALSE
  /\ ticks' = 0
  /\ recording' = {}
  /\ collector' = "off"
  /\ left' = <<>>
  /\ \/ asked' = flags /\ status' = "running" /\ pc' = "profile"
     \/ asked' = {} /\ status' \in {"ok", "failed"} /\ pc' = "done"
  /\ UNCHANGED files

(* The end of the process, one way or another: what it had in memory goes. *)
Exit(how) ==
  /\ status' = how
  /\ pc' = "done"
  /\ left' = <<>>
  /\ recording' = {}
  /\ collector' = "off"
  /\ ticks' = 0
  /\ metrics' = <<>>
  /\ saved' = <<>>
  /\ report' = NoReport

(* log.Fatalf *)
Fatal == Exit("failed") /\ UNCHANGED warned

Kill ==
  /\ status = "running"
  /\ Exit("killed")
  /\ UNCHANGED <<run, asked, files, warned>>

(* A step that has written what it should, and goes on. *)
GoOn == UNCHANGED <<status, ticks, metrics, saved, report, warned>>

If(f, S) == IF f \in S THEN <<f>> ELSE <<>>

Touch(f, isWhole) == files' = [files EXCEPT ![f] = [run |-> run, whole |-> isWhole]]

(* A file that cannot be opened stays what it is; WriteYAML has possibly *)
(* removed it before.                                                     *)
OpenFails(f) ==
  \/ UNCHANGED files
  \/ f \in Range(Split) \union {"metadata"} /\ files' = [files EXCEPT ![f] = Absent]

(* The same for a file written in one step, which may stay unfinished. *)
WriteFails(f) == UNCHANGED files \/ Touch(f, FALSE)

-----------------------------------------------------------------------------
(* Profiler.Start: cpu and trace open their files, the others record in    *)
(* memory.  left is what is still to be opened.                            *)
ToOpen == If("cpu", asked) \o If("trace", asked)

StartProfiler ==
  /\ pc = "profile"
  /\ Profiling
  /\ \/ pc' = "open" /\ left' = ToOpen /\ UNCHANGED <<status, process>>
     \/ Fatal      \* the directory of the profiles cannot be made
  /\ UNCHANGED <<run, asked, files>>

OpenProfile ==
  /\ pc = "open" /\ left # <<>>
  /\ \/ /\ Touch(Head(left), FALSE)
        /\ recording' = recording \union {Head(left)}
        /\ left' = Tail(left)
        /\ GoOn
        /\ UNCHANGED <<pc, collector>>
     \/ UNCHANGED files /\ Fatal
  /\ UNCHANGED <<run, asked>>

StartCollector ==
  /\ pc = "open" /\ left = <<>>
  /\ collector' = IF "metrics" \in asked THEN "waiting" ELSE collector
  /\ pc' = "generate"
  /\ UNCHANGED <<run, asked, status, left, files, recording, ticks, metrics, saved,
                 report, warned>>

WithoutProfiler ==
  /\ pc = "profile"
  /\ ~Profiling
  /\ pc' = "generate"
  /\ UNCHANGED <<run, asked, status, left, files, process>>

Sample(name, level) == [name |-> name, level |-> level]

(* collectSystemMetrics: on a tick, the memory metrics and then those about *)
(* goroutines are added, each under the lock.                               *)
Tick(level) ==
  /\ collector = "waiting" /\ ticks < MaxTicks
  /\ collector' = "sampling"
  /\ ticks' = ticks + 1
  /\ metrics' = Append(metrics, Sample("memory", level))
  /\ UNCHANGED <<run, asked, status, pc, left, files, recording, saved, report, warned>>

TickGoroutines(level) ==
  /\ collector = "sampling"
  /\ collector' = "waiting"
  /\ metrics' = Append(metrics, Sample("goroutines", level))
  /\ UNCHANGED <<run, asked, status, pc, left, files, recording, ticks, saved, report, warned>>

-----------------------------------------------------------------------------
(* What the engine writes after the specification is mapped, in order. *)
EngineFiles ==
  (CASE {"metadata", "split"} \subseteq asked -> Split
     [] "metadata" \in asked                  -> <<"metadata">>
     [] OTHER                                 -> <<>>)
  \o If("config", asked)

(* GenerateOpenAPI up to its files: it may fail. *)
RunEngine ==
  /\ pc = "generate"
  /\ \/ /\ pc' = "engine files"
        /\ left' = EngineFiles
        /\ GoOn
        /\ UNCHANGED <<recording, collector>>
     \/ Fatal
  /\ UNCHANGED <<run, asked, files>>

(* WriteYAML and os.WriteFile: one step to empty the file, one to fill it. *)
OpenFile(phase) ==
  /\ pc = phase
  /\ left # <<>> /\ files[Head(left)] # [run |-> run, whole |-> FALSE]
  /\ \/ Touch(Head(left), FALSE) /\ GoOn /\ UNCHANGED <<pc, left, recording, collector>>
     \/ OpenFails(Head(left)) /\ Fatal
  /\ UNCHANGED <<run, asked>>

FillFileRegardless(phase) ==
  /\ pc = phase
  /\ left # <<>> /\ files[Head(left)] = [run |-> run, whole |-> FALSE]
  /\ \E written \in BOOLEAN : Touch(Head(left), written)
  /\ left' = Tail(left)
  /\ UNCHANGED <<run, asked, status, pc, process>>

(* A file that cannot be written ends the run and stays as it is; if only  *)
(* closing it fails, which os.WriteFile tells, that is logged.             *)
FillFile(phase) ==
  /\ pc = phase
  /\ left # <<>> /\ files[Head(left)] = [run |-> run, whole |-> FALSE]
  /\ \/ /\ Touch(Head(left), TRUE)
        /\ left' = Tail(left)
        /\ GoOn
        /\ UNCHANGED <<pc, recording, collector>>
     \/ /\ Head(left) # "config"
        /\ left' = Tail(left)
        /\ warned' = TRUE
        /\ UNCHANGED <<files, status, pc, recording, collector, ticks, metrics, saved, report>>
     \/ UNCHANGED files /\ Fatal
  /\ UNCHANGED <<run, asked>>

Measure(sample) == metrics' = IF "metrics" \in asked THEN Append(metrics, sample) ELSE metrics

EngineDoneUntimed(level) ==
  /\ pc = "engine files" /\ left = <<>>
  /\ pc' = "generated"
  /\ UNCHANGED <<run, asked, status, left, files, process>>

(* The engine returns: ProfileFunc records its time. *)
EngineDone(level) ==
  /\ pc = "engine files" /\ left = <<>>
  /\ Measure(Sample("openapi_generation", level))
  /\ pc' = "generated"
  /\ UNCHANGED <<run, asked, status, left, files, recording, collector, ticks, saved, report,
                 warned>>

RecordSuccess ==
  /\ pc = "generated"
  /\ Measure(Sample("generation.success", "normal"))
  /\ pc' = "output"
  /\ left' = IF "output" \in asked THEN <<"spec">> ELSE <<>>
  /\ UNCHANGED <<run, asked, status, files, recording, collector, ticks, saved, report, warned>>

(* Without -output the specification goes to the terminal, if it can be encoded. *)
OutputDone ==
  /\ pc = "output" /\ left = <<>>
  /\ \/ /\ pc' = IF "metrics" \in asked THEN "save" ELSE "stop"
        /\ UNCHANGED <<status, left, process>>
     \/ "output" \notin asked /\ Fatal
  /\ UNCHANGED <<run, asked, files>>

-----------------------------------------------------------------------------
(* generatePerformanceAnalysis: WriteToFile holds the lock; an error ends  *)
(* the analysis, unless it comes from closing the file.  Both are logged.  *)
SaveMetrics ==
  /\ pc = "save"
  /\ \/ /\ saved' = metrics
        /\ pc' = "analyse"
        /\ \/ Touch("metrics", TRUE) /\ UNCHANGED warned
           \/ Touch("metrics", FALSE) /\ warned' = TRUE
     \/ /\ WriteFails("metrics")
        /\ pc' = "stop"
        /\ warned' = TRUE
        /\ UNCHANGED saved
  /\ UNCHANGED <<run, asked, status, left, recording, collector, ticks, metrics, report>>

Names(ms) == {ms[i].name : i \in DOMAIN ms}

(* The places in ms of the samples of one name. *)
Of(ms, name) == {i \in DOMAIN ms : ms[i].name = name}

(* A timer is as bad as its worst value, a gauge as its latest; only       *)
(* memory and goroutine gauges have limits.                                *)
Severity(ms, name) ==
  CASE name = "generation.success" -> "normal"
    [] name = "openapi_generation" /\ \E i \in Of(ms, name) : ms[i].level = "critical"
         -> "critical"
    [] OTHER -> ms[Max(Of(ms, name))].level

AnalyzeMetrics(ms) ==
  [made   |-> TRUE, from |-> ms,
   issues |-> {[name |-> n, severity |-> Severity(ms, n)] :
                 n \in {m \in Names(ms) : Severity(ms, m) # "normal"}}]

Analyse ==
  /\ pc = "analyse"
  /\ report' = AnalyzeMetrics(metrics)
  /\ pc' = "stop"
  /\ UNCHANGED <<run, asked, status, left, files, recording, collector, ticks, metrics,
                 saved, warned>>

-----------------------------------------------------------------------------
(* The deferred Profiler.Stop.  A profile in memory is written whenever it *)
(* has a path, which main gives to all of them; an error is remembered.    *)
ToStop == If("cpu", recording) \o <<"mem", "block", "mutex">> \o If("trace", recording)

StopProfiler ==
  /\ pc = "stop"
  /\ pc' = "stopping"
  /\ left' = IF Profiling THEN ToStop ELSE <<>>
  /\ UNCHANGED <<run, asked, status, files, process>>

StopProfile ==
  /\ pc = "stopping" /\ left # <<>>
  /\ left' = Tail(left)
  /\ recording' = recording \ {Head(left)}
  /\ \/ Touch(Head(left), TRUE) /\ UNCHANGED warned
     \/ /\ IF Head(left) \in recording THEN UNCHANGED files ELSE WriteFails(Head(left))
        /\ warned' = TRUE
  /\ UNCHANGED <<run, asked, status, pc, collector, ticks, metrics, saved, report>>

(* The last recorder is the collector; then main returns. *)
StopCollector ==
  /\ pc = "stopping" /\ left = <<>>
  /\ Exit("ok")
  /\ UNCHANGED <<run, asked, files, warned>>

Main ==
  \/ StartProfiler \/ OpenProfile \/ StartCollector \/ WithoutProfiler
  \/ RunEngine
  \/ \E phase \in {"engine files", "output"} : OpenFile(phase) \/ FillFile(phase)
  \/ \E level \in Levels : EngineDone(level)
  \/ RecordSuccess
  \/ OutputDone
  \/ SaveMetrics \/ Analyse
  \/ StopProfiler \/ StopProfile \/ StopCollector

Next ==
  \/ \E flags \in FlagSets : Begin(flags)
  \/ Kill
  \/ \E level \in Levels : Tick(level) \/ TickGoroutines(level)
  \/ Main

Spec == Init /\ [][Next]_vars

-----------------------------------------------------------------------------
Samples ==
  [name : {"memory", "goroutines", "openapi_generation", "generation.success"},
   level : Levels \union {"normal"}]

TypeOK ==
  /\ run \in 0..MaxRuns
  /\ asked \in SUBSET Features
  /\ status \in {"none", "running", "ok", "failed", "killed"}
  /\ left \in Seq(Files)
  /\ files \in [Files -> [run : 0..MaxRuns, whole : BOOLEAN]]
  /\ recording \subseteq {"cpu", "trace"}
  /\ collector \in {"off", "waiting", "sampling"}
  /\ ticks \in 0..MaxTicks
  /\ metrics \in Seq(Samples)
  /\ saved \in Seq(Samples)

(* The files a user who gave these flags looks for. *)
Wanted ==
  Range(EngineFiles)
  \union (asked \intersect Profiles)
  \union {f \in {"spec"} : "output" \in asked}
  \union {f \in {"metrics"} : "metrics" \in asked}

(* A run that reports success has left every file it was asked for whole   *)
(* and new, whatever runs before it left unfinished: no error on the way   *)
(* to a specification is passed over; those of the profiler and of closing *)
(* a file are, but have been logged (main.go:540-620, io.go:41-104).       *)
SuccessMeansWritten ==
  status = "ok" /\ ~warned =>
    \A f \in Wanted : files[f] = [run |-> run, whole |-> TRUE]

(* While the collector goes on measuring: the metrics file is a part of    *)
(* what the report is about, that a part of all measurements; both know    *)
(* how long the generation took, and a slow one is reported (main.go:      *)
(* 417-470, ProfileFunc).                                                  *)
MeasurementsAgree ==
  report.made =>
    /\ IsPrefix(saved, report.from)
    /\ IsPrefix(report.from, metrics)
    /\ \E i \in DOMAIN saved : Of(saved, "openapi_generation") = {i}
    /\ \A i \in DOMAIN saved :
         saved[i].name = "openapi_generation" /\ saved[i].level = "critical" =>
           [name |-> saved[i].name, severity |-> "critical"] \in report.issues
=============================================================================
