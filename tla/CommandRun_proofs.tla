------------------------- MODULE CommandRun_proofs -------------------------
(***************************************************************************)
(* Theorems about CommandRun for any flags and any number of runs.         *)
(***************************************************************************)
EXTENDS CommandRun, SequenceTheorems, TLAPS

-----------------------------------------------------------------------------
(* Facts about sequences. *)

LEMMA RangeFacts ==
  ASSUME NEW S, NEW s \in Seq(S), s # <<>>
  PROVE  /\ Head(s) \in S /\ Head(s) \in Range(s)
         /\ Tail(s) \in Seq(S)
         /\ Range(s) = {Head(s)} \union Range(Tail(s))
<1>1. /\ DOMAIN s = 1..Len(s) /\ Len(s) \in Nat /\ 1 \in DOMAIN s
      /\ Head(s) = s[1] /\ \A i \in DOMAIN s : s[i] \in S
  OBVIOUS
<1>2. /\ Tail(s) \in Seq(S) /\ DOMAIN Tail(s) = 1..(Len(s) - 1)
      /\ \A i \in 1..(Len(s) - 1) : Tail(s)[i] = s[i + 1]
  OBVIOUS
<1>3. ASSUME NEW x \in Range(s)
      PROVE  x = Head(s) \/ x \in Range(Tail(s))
  <2>1. PICK i \in DOMAIN s : x = s[i]
    BY DEF Range
  <2>2. CASE i # 1
    <3>1. i - 1 \in 1..(Len(s) - 1) /\ Tail(s)[i - 1] = x
      BY <1>1, <1>2, <2>1, <2>2
    <3> QED
      BY <1>2, <3>1 DEF Range
  <2> QED
    BY <1>1, <2>1, <2>2
<1>4. ASSUME NEW x \in Range(Tail(s))
      PROVE  x \in Range(s)
  <2>1. PICK i \in 1..(Len(s) - 1) : x = s[i + 1]
    BY <1>2 DEF Range
  <2>2. i + 1 \in DOMAIN s
    BY <1>1
  <2> QED
    BY <2>1, <2>2 DEF Range
<1>5. Head(s) \in Range(s)
  BY <1>1 DEF Range
<1> QED
  BY <1>1, <1>2, <1>3, <1>4, <1>5

LEMMA RangeOfNone == Range(<<>>) = {}
  BY DEF Range

LEMMA RangeOfOne ==
  ASSUME NEW f
  PROVE  Range(<<f>>) = {f}
  BY DEF Range

LEMMA RangeOfConcat ==
  ASSUME NEW S, NEW s \in Seq(S), NEW t \in Seq(S)
  PROVE  s \o t \in Seq(S) /\ Range(s \o t) = Range(s) \union Range(t)
<1>5. s \o t \in Seq(S)
  OBVIOUS
<1>1. /\ DOMAIN (s \o t) = 1..(Len(s) + Len(t))
      /\ \A i \in 1..Len(s) : (s \o t)[i] = s[i]
      /\ \A i \in 1..Len(t) : (s \o t)[Len(s) + i] = t[i]
      /\ DOMAIN s = 1..Len(s) /\ DOMAIN t = 1..Len(t)
      /\ Len(s) \in Nat /\ Len(t) \in Nat
  OBVIOUS
<1>2. ASSUME NEW x \in Range(s \o t)
      PROVE  x \in Range(s) \union Range(t)
  <2>1. PICK i \in 1..(Len(s) + Len(t)) : x = (s \o t)[i]
    BY <1>1 DEF Range
  <2>2. CASE i > Len(s)
    <3>1. i - Len(s) \in 1..Len(t) /\ (s \o t)[Len(s) + (i - Len(s))] = x
      BY <1>1, <2>1, <2>2
    <3> QED
      BY <1>1, <3>1 DEF Range
  <2>3. CASE ~(i > Len(s))
    BY <1>1, <2>1, <2>3 DEF Range
  <2> QED
    BY <2>2, <2>3
<1>3. ASSUME NEW x \in Range(s)
      PROVE  x \in Range(s \o t)
  <2>1. PICK i \in 1..Len(s) : x = s[i]
    BY <1>1 DEF Range
  <2> QED
    BY <1>1, <2>1 DEF Range
<1>4. ASSUME NEW x \in Range(t)
      PROVE  x \in Range(s \o t)
  <2>1. PICK i \in 1..Len(t) : x = t[i]
    BY <1>1 DEF Range
  <2>2. Len(s) + i \in 1..(Len(s) + Len(t)) /\ (s \o t)[Len(s) + i] = x
    BY <1>1, <2>1
  <2> QED
    BY <1>1, <2>2 DEF Range
<1> QED
  BY <1>2, <1>3, <1>4, <1>5

LEMMA FilesConcat ==
  \A s, t \in Seq(Files) :
    s \o t \in Seq(Files) /\ Range(s \o t) = Range(s) \union Range(t)
  BY RangeOfConcat

LEMMA RangeOfIf ==
  ASSUME NEW f \in Files, NEW S
  PROVE  If(f, S) \in Seq(Files) /\ Range(If(f, S)) = {f} \intersect S
  BY RangeOfNone, RangeOfOne DEF If

LEMMA FilesNamed ==
  Files = {"string-pool", "packages", "call-graph", "cpu", "mem", "block", "mutex", "trace",
           "metadata", "config", "spec", "metrics"}
<1>1. Range(Split) = {"string-pool", "packages", "call-graph"}
  BY DEF Range, Split
<1> QED
  BY <1>1 DEF Files, Profiles

(* What the lists of files consist of. *)
LEMMA ListsOfFiles ==
  /\ ToOpen \in Seq(Files) /\ Range(ToOpen) = asked \intersect {"cpu", "trace"}
  /\ ToStop \in Seq(Files) /\ Range(ToStop) = {"mem", "block", "mutex"} \union
                                              (recording \intersect {"cpu", "trace"})
  /\ EngineFiles \in Seq(Files)
  /\ Range(EngineFiles) \subseteq
       {"string-pool", "packages", "call-graph", "metadata", "config"}
<1>1. ToOpen \in Seq(Files) /\ Range(ToOpen) = asked \intersect {"cpu", "trace"}
  <2>1. "cpu" \in Files /\ "trace" \in Files
    BY FilesNamed
  <2> QED
    BY <2>1, RangeOfIf, FilesConcat DEF ToOpen
<1>2. ToStop \in Seq(Files) /\ Range(ToStop) = {"mem", "block", "mutex"} \union
                                               (recording \intersect {"cpu", "trace"})
  <2>1. "cpu" \in Files /\ "trace" \in Files
    BY FilesNamed
  <2>2. <<"mem", "block", "mutex">> \in Seq(Files)
    BY FilesNamed
  <2>3. Range(<<"mem", "block", "mutex">>) = {"mem", "block", "mutex"}
    BY DEF Range
  <2> DEFINE first == If("cpu", recording) \o <<"mem", "block", "mutex">>
  <2>7. If("cpu", recording) \in Seq(Files)
        /\ Range(If("cpu", recording)) = {"cpu"} \intersect recording
    BY <2>1, RangeOfIf
  <2>8. first \in Seq(Files)
        /\ Range(first) = Range(If("cpu", recording)) \union Range(<<"mem", "block", "mutex">>)
    <3>1. If("cpu", recording) \in Seq(Files)
      BY <2>7
    <3> QED
      BY <2>2, <3>1, FilesConcat, Zenon
  <2> HIDE DEF first
  <2>4. first \in Seq(Files) /\ Range(first) = {"mem", "block", "mutex"} \union
                                               ({"cpu"} \intersect recording)
    BY <2>3, <2>7, <2>8
  <2>5. If("trace", recording) \in Seq(Files)
        /\ Range(If("trace", recording)) = {"trace"} \intersect recording
    BY <2>1, RangeOfIf
  <2>6. first \o If("trace", recording) \in Seq(Files)
        /\ Range(first \o If("trace", recording)) =
             Range(first) \union Range(If("trace", recording))
    BY <2>4, <2>5, FilesConcat, Zenon
  <2>9. first \o If("trace", recording) = ToStop
    BY DEF first, ToStop
  <2> QED
    BY <2>4, <2>5, <2>6, <2>9
<1>3. /\ EngineFiles \in Seq(Files)
      /\ Range(EngineFiles) \subseteq
           {"string-pool", "packages", "call-graph", "metadata", "config"}
  <2> DEFINE meta == CASE {"metadata", "split"} \subseteq asked -> Split
                       [] "metadata" \in asked                  -> <<"metadata">>
                       [] OTHER                                 -> <<>>
  <2>1. Split \in Seq(Files) /\ Range(Split) = {"string-pool", "packages", "call-graph"}
    BY FilesNamed DEF Range, Split
  <2>2. <<"metadata">> \in Seq(Files) /\ Range(<<"metadata">>) = {"metadata"}
    BY FilesNamed, RangeOfOne
  <2>3. meta \in Seq(Files)
        /\ Range(meta) \subseteq {"string-pool", "packages", "call-graph", "metadata"}
    BY <2>1, <2>2, RangeOfNone
  <2>4. If("config", asked) \in Seq(Files)
        /\ Range(If("config", asked)) = {"config"} \intersect asked
    BY FilesNamed, RangeOfIf
  <2> HIDE DEF meta
  <2>5. meta \o If("config", asked) \in Seq(Files)
        /\ Range(meta \o If("config", asked)) = Range(meta) \union Range(If("config", asked))
    <3>1. meta \in Seq(Files) /\ If("config", asked) \in Seq(Files)
      BY <2>3, <2>4
    <3> QED
      BY <3>1, FilesConcat, Zenon
  <2>6. /\ meta \o If("config", asked) \in Seq(Files)
        /\ Range(meta \o If("config", asked)) \subseteq
             {"string-pool", "packages", "call-graph", "metadata", "config"}
    BY <2>3, <2>4, <2>5
  <2> QED
    BY <2>6 DEF EngineFiles, meta
<1> QED
  BY <1>1, <1>2, <1>3

(* A user who gives no flags gets no files. *)
LEMMA NothingWanted ==
  ASSUME asked = {}
  PROVE  EngineFiles = <<>> /\ Wanted = {}
<1>1. EngineFiles = <<>>
  BY DEF EngineFiles, If
<1> QED
  BY <1>1, RangeOfNone DEF Wanted
-----------------------------------------------------------------------------
(* The steps of Next one by one, which the proofs below split on. *)
Moves ==
  \/ \E flags \in FlagSets : Begin(flags)
  \/ Kill
  \/ \E level \in Levels : Tick(level)
  \/ \E level \in Levels : TickGoroutines(level)
  \/ StartProfiler
  \/ OpenProfile
  \/ StartCollector
  \/ WithoutProfiler
  \/ RunEngine
  \/ \E phase \in {"engine files", "output"} : OpenFile(phase)
  \/ \E phase \in {"engine files", "output"} : FillFile(phase)
  \/ \E level \in Levels : EngineDone(level)
  \/ RecordSuccess
  \/ OutputDone
  \/ SaveMetrics
  \/ Analyse
  \/ StopProfiler
  \/ StopProfile
  \/ StopCollector
  \/ UNCHANGED vars

LEMMA MovesOfNext == [Next]_vars => Moves
  BY Zenon DEF Next, Main, Moves

(* What is left to write in a phase belongs to that phase; a process that  *)
(* has ended is in none.                                                   *)
PhaseInv ==
  /\ status # "running" => pc = "done"
  /\ pc = "open" => Range(left) \subseteq {"cpu", "trace"}
  /\ pc = "engine files" => Range(left) \subseteq Range(EngineFiles)
  /\ pc = "output" => Range(left) \subseteq {"spec"}
  /\ pc = "stopping" => Range(left) \subseteq Profiles

Whole(f) == files[f] = [run |-> run, whole |-> TRUE]

(* The files of a phase that has ended are whole, those of the current one *)
(* are whole or left.                                                      *)
EngineFilesWritten ==
  /\ pc \in {"generated", "output", "save", "analyse", "stop", "stopping"} =>
       \A f \in Range(EngineFiles) : Whole(f)
  /\ pc = "engine files" => \A f \in Range(EngineFiles) : f \in Range(left) \/ Whole(f)

SpecWritten ==
  "output" \in asked =>
    /\ pc \in {"save", "analyse", "stop", "stopping"} => Whole("spec")
    /\ pc = "output" => Whole("spec") \/ "spec" \in Range(left)

MetricsWritten ==
  "metrics" \in asked /\ pc \in {"analyse", "stop", "stopping"} => Whole("metrics")

(* cpu and trace are recorded from the start, and every profile is written *)
(* at the end.                                                             *)
ProfilesWritten ==
  /\ pc = "open" => asked \intersect {"cpu", "trace"} \subseteq recording \union Range(left)
  /\ pc \in {"generate", "engine files", "generated", "output", "save", "analyse", "stop"} =>
       asked \intersect {"cpu", "trace"} \subseteq recording
  /\ pc = "stopping" => \A f \in asked \intersect Profiles : f \in Range(left) \/ Whole(f)

WrittenInv ==
  status = "running" /\ ~warned =>
    EngineFilesWritten /\ SpecWritten /\ MetricsWritten /\ ProfilesWritten

Inv == TypeOK /\ PhaseInv /\ WrittenInv /\ SuccessMeansWritten

LEMMA SameAsked ==
  ASSUME asked' = asked
  PROVE  EngineFiles' = EngineFiles /\ Wanted' = Wanted /\ Profiling' = Profiling
<1>1. EngineFiles' = EngineFiles
  BY DEF EngineFiles, If
<1> QED
  BY <1>1 DEF Wanted, Profiling

(* A run that has failed or was killed has promised nothing. *)
LEMMA ExitKeepsInv ==
  ASSUME Inv, NEW how \in {"failed", "killed"}, Exit(how),
         UNCHANGED <<run, asked, warned>>, files' \in [Files -> [run : 0..MaxRuns, whole : BOOLEAN]]
  PROVE  Inv'
<1>1. /\ left' = <<>> /\ left' \in Seq(Files) /\ recording' = {} /\ collector' = "off"
      /\ ticks' = 0 /\ metrics' = <<>> /\ saved' = <<>> /\ status' = how /\ pc' = "done"
  BY DEF Exit
<1>2. TypeOK'
  BY <1>1, BoundsAssumption DEF Inv, TypeOK
<1>3. PhaseInv'
  BY <1>1 DEF PhaseInv
<1> QED
  BY <1>1, <1>2, <1>3 DEF Inv, WrittenInv, SuccessMeansWritten

LEMMA TouchIsTyped ==
  ASSUME TypeOK, NEW f \in Files, NEW b \in BOOLEAN, Touch(f, b), run' = run
  PROVE  /\ files' \in [Files -> [run : 0..MaxRuns, whole : BOOLEAN]]
         /\ b => Whole(f)'
         /\ \A g \in Files : g # f /\ Whole(g) => Whole(g)'
  BY DEF TypeOK, Touch, Whole

LEMMA FailuresAreTyped ==
  ASSUME TypeOK, run' = run, NEW f \in Files, OpenFails(f) \/ WriteFails(f)
  PROVE  files' \in [Files -> [run : 0..MaxRuns, whole : BOOLEAN]]
<1>1. CASE UNCHANGED files
  BY <1>1 DEF TypeOK
<1>2. CASE files' = [files EXCEPT ![f] = Absent]
  BY <1>2, BoundsAssumption DEF TypeOK, Absent
<1>3. CASE Touch(f, FALSE)
  BY <1>3, TouchIsTyped
<1> QED
  BY <1>1, <1>2, <1>3 DEF OpenFails, WriteFails

(* Where a phase does not touch files or what it is to write, nothing      *)
(* changes.                                                                *)
LEMMA SameFiles ==
  ASSUME Inv, UNCHANGED <<run, asked, status, pc, left, files, recording, warned>>,
         TypeOK'
  PROVE  Inv'
<1>1. EngineFiles' = EngineFiles /\ Wanted' = Wanted
  BY SameAsked
<1>2. \A f : Whole(f)' <=> Whole(f)
  BY DEF Whole
<1>3. PhaseInv'
  BY <1>1 DEF Inv, PhaseInv
<1>4. WrittenInv'
  BY <1>1, <1>2 DEF Inv, WrittenInv, EngineFilesWritten, SpecWritten, MetricsWritten,
                    ProfilesWritten
<1>5. SuccessMeansWritten'
  BY <1>1 DEF Inv, SuccessMeansWritten
<1> QED
  BY <1>3, <1>4, <1>5 DEF Inv

(* Each step keeps the invariant. *)
LEMMA BeginKeepsInv ==
  ASSUME Inv, NEW flags \in FlagSets, Begin(flags)
  PROVE  Inv'
<1>1. TypeOK'
  <2>1. flags \in SUBSET Features
    BY FlagsAssumption
  <2>2. /\ run' \in 0..MaxRuns /\ left' = <<>> /\ left' \in Seq(Files) /\ files' = files
        /\ metrics' = <<>> /\ saved' = <<>> /\ ticks' = 0 /\ recording' = {}
        /\ collector' = "off" /\ status' \in {"running", "ok", "failed"}
    BY BoundsAssumption DEF Inv, TypeOK, Begin
  <2>3. asked' \in SUBSET Features
    BY <2>1 DEF Begin
  <2>4. files' \in [Files -> [run : 0..MaxRuns, whole : BOOLEAN]]
    BY <2>2 DEF Inv, TypeOK
  <2> QED
    BY <2>2, <2>3, <2>4, BoundsAssumption DEF TypeOK
<1>2. CASE status' = "running" /\ pc' = "profile"
  BY <1>1, <1>2 DEF Inv, PhaseInv, WrittenInv, EngineFilesWritten, SpecWritten,
                    MetricsWritten, ProfilesWritten, SuccessMeansWritten
<1>3. CASE asked' = {} /\ status' \in {"ok", "failed"} /\ pc' = "done"
  <2>1. Wanted' = {}
    <3>1. EngineFiles' = <<>>
      BY <1>3 DEF EngineFiles, If
    <3> QED
      BY <1>3, <3>1, RangeOfNone DEF Wanted
  <2> QED
    BY <1>1, <1>3, <2>1 DEF Inv, PhaseInv, WrittenInv, SuccessMeansWritten
<1> QED
  BY <1>2, <1>3 DEF Begin

LEMMA SamplesAppend ==
  ASSUME Inv, NEW s \in Samples
  PROVE  Append(metrics, s) \in Seq(Samples) /\ metrics \in Seq(Samples)
<1>1. metrics \in Seq(Samples)
  BY DEF Inv, TypeOK
<1> QED
  BY <1>1, AppendProperties

LEMMA TicksKeepInv ==
  ASSUME Inv, NEW level \in Levels, Tick(level) \/ TickGoroutines(level)
  PROVE  Inv'
<1>1. UNCHANGED <<run, asked, status, pc, left, files, recording, saved, report, warned>>
  BY DEF Tick, TickGoroutines
<1>2. metrics' \in Seq(Samples)
  <2>1. Sample("memory", level) \in Samples /\ Sample("goroutines", level) \in Samples
    BY DEF Sample, Samples
  <2>2. \A s \in Samples : Append(metrics, s) \in Seq(Samples)
    BY SamplesAppend
  <2> QED
    BY <2>1, <2>2 DEF Tick, TickGoroutines
<1>3. ticks' \in 0..MaxTicks /\ collector' \in {"off", "waiting", "sampling"}
  BY BoundsAssumption DEF Inv, TypeOK, Tick, TickGoroutines
<1>4. TypeOK'
  BY <1>1, <1>2, <1>3 DEF Inv, TypeOK
<1> QED
  BY <1>1, <1>4, SameFiles

LEMMA StartKeepsInv ==
  ASSUME Inv, StartProfiler \/ StartCollector \/ WithoutProfiler
  PROVE  Inv'
<1>1. UNCHANGED <<run, asked, files>>
  BY DEF StartProfiler, StartCollector, WithoutProfiler
<1>2. EngineFiles' = EngineFiles /\ Wanted' = Wanted
  BY <1>1, SameAsked
<1>3. CASE Fatal
  BY <1>1, <1>3, ExitKeepsInv DEF Fatal, Inv, TypeOK
<1>4. CASE ~Fatal
  <2>1. /\ UNCHANGED <<status, recording, ticks, metrics, saved, report, warned>>
        /\ collector' \in {collector, "waiting"}
        /\ \/ pc = "profile" /\ pc' = "open" /\ left' = ToOpen
           \/ pc = "open" /\ left = <<>> /\ left' = left /\ pc' = "generate"
           \/ pc = "profile" /\ ~Profiling /\ left' = left /\ pc' = "generate"
    BY <1>4 DEF StartProfiler, StartCollector, WithoutProfiler, process
  <2>2. ToOpen \in Seq(Files) /\ Range(ToOpen) = asked \intersect {"cpu", "trace"}
    BY ListsOfFiles
  <2>3. TypeOK'
    BY <1>1, <2>1, <2>2 DEF Inv, TypeOK
  <2>4. PhaseInv'
    BY <1>1, <2>1, <2>2 DEF Inv, PhaseInv
  <2>5. ProfilesWritten' \/ ~(status = "running" /\ ~warned)
    BY <1>1, <2>1, <2>2, RangeOfNone
       DEF Inv, WrittenInv, ProfilesWritten, Profiling, Profiles
  <2>6. WrittenInv'
    BY <1>1, <2>1, <2>5 DEF WrittenInv, EngineFilesWritten, SpecWritten, MetricsWritten
  <2>7. SuccessMeansWritten'
    BY <1>1, <1>2, <2>1 DEF Inv, SuccessMeansWritten
  <2> QED
    BY <2>3, <2>4, <2>6, <2>7 DEF Inv
<1> QED
  BY <1>3, <1>4

LEMMA OpenProfileKeepsInv ==
  ASSUME Inv, OpenProfile
  PROVE  Inv'
<1>1. UNCHANGED <<run, asked>> /\ pc = "open" /\ left # <<>> /\ status = "running"
  BY DEF OpenProfile, Inv, PhaseInv
<1>2. /\ Head(left) \in Files /\ Tail(left) \in Seq(Files)
      /\ Range(left) = {Head(left)} \union Range(Tail(left))
  BY <1>1, RangeFacts DEF Inv, TypeOK
<1>3. CASE UNCHANGED files /\ Fatal
  BY <1>1, <1>3, ExitKeepsInv DEF Fatal, Inv, TypeOK
<1>4. CASE /\ Touch(Head(left), FALSE)
           /\ recording' = recording \union {Head(left)}
           /\ left' = Tail(left)
           /\ GoOn
           /\ UNCHANGED <<pc, collector>>
  <2>1. files' \in [Files -> [run : 0..MaxRuns, whole : BOOLEAN]]
    BY <1>1, <1>2, <1>4, TouchIsTyped DEF Inv
  <2>2. TypeOK'
    BY <1>1, <1>2, <1>4, <2>1 DEF Inv, TypeOK, PhaseInv, GoOn
  <2>3. PhaseInv'
    BY <1>1, <1>2, <1>4 DEF Inv, PhaseInv, GoOn
  <2>4. WrittenInv'
    BY <1>1, <1>2, <1>4 DEF Inv, WrittenInv, EngineFilesWritten, SpecWritten, MetricsWritten,
                            ProfilesWritten, GoOn
  <2>5. SuccessMeansWritten'
    BY <1>1, <1>4 DEF SuccessMeansWritten, GoOn
  <2> QED
    BY <2>2, <2>3, <2>4, <2>5 DEF Inv
<1> QED
  BY <1>3, <1>4 DEF OpenProfile

LEMMA RunEngineKeepsInv ==
  ASSUME Inv, RunEngine
  PROVE  Inv'
<1>1. UNCHANGED <<run, asked, files>> /\ pc = "generate" /\ status = "running"
  BY DEF RunEngine, Inv, PhaseInv
<1>2. CASE Fatal
  BY <1>1, <1>2, ExitKeepsInv DEF Fatal, Inv, TypeOK
<1>3. CASE pc' = "engine files" /\ left' = EngineFiles /\ GoOn /\ UNCHANGED <<recording, collector>>
  <2>1. EngineFiles' = EngineFiles /\ EngineFiles \in Seq(Files)
    BY <1>1, SameAsked, ListsOfFiles
  <2>2. TypeOK'
    BY <1>1, <1>3, <2>1 DEF Inv, TypeOK, GoOn
  <2>3. PhaseInv'
    BY <1>1, <1>3, <2>1 DEF PhaseInv, GoOn
  <2>4. WrittenInv'
    BY <1>1, <1>3, <2>1 DEF Inv, WrittenInv, EngineFilesWritten, SpecWritten, MetricsWritten,
                            ProfilesWritten, GoOn
  <2>5. SuccessMeansWritten'
    BY <1>1, <1>3 DEF SuccessMeansWritten, GoOn
  <2> QED
    BY <2>2, <2>3, <2>4, <2>5 DEF Inv
<1> QED
  BY <1>2, <1>3 DEF RunEngine

(* A file of the phase is touched: those of the other phases stay. *)
LEMMA FileOfPhase ==
  ASSUME Inv, pc \in {"engine files", "output"}, left # <<>>
  PROVE  /\ status = "running"
         /\ Head(left) \in Files
         /\ Tail(left) \in Seq(Files)
         /\ Range(left) = {Head(left)} \union Range(Tail(left))
         /\ pc = "output" => Head(left) = "spec" /\ "spec" \notin Range(EngineFiles)
         /\ Range(EngineFiles) \subseteq Files
         /\ "spec" \in Files
<1>1. /\ Head(left) \in Files /\ Head(left) \in Range(left) /\ Tail(left) \in Seq(Files)
      /\ Range(left) = {Head(left)} \union Range(Tail(left))
  BY RangeFacts DEF Inv, TypeOK
<1>2. /\ Range(EngineFiles) \subseteq
           {"string-pool", "packages", "call-graph", "metadata", "config"}
      /\ "spec" \in Files
  BY ListsOfFiles, FilesNamed
<1> QED
  BY <1>1, <1>2, FilesNamed DEF Inv, PhaseInv

LEMMA OpenFileKeepsInv ==
  ASSUME Inv, NEW phase \in {"engine files", "output"}, OpenFile(phase)
  PROVE  Inv'
<1>1. UNCHANGED <<run, asked>> /\ pc = phase /\ left # <<>>
  BY DEF OpenFile
<1>2. EngineFiles' = EngineFiles
  BY <1>1, SameAsked
<1>3. CASE OpenFails(Head(left)) /\ Fatal
  <2>1. files' \in [Files -> [run : 0..MaxRuns, whole : BOOLEAN]]
    BY <1>1, <1>3, FileOfPhase, FailuresAreTyped DEF Inv
  <2> QED
    BY <1>1, <1>3, <2>1, ExitKeepsInv DEF Fatal
<1>4. CASE Touch(Head(left), FALSE) /\ GoOn /\ UNCHANGED <<pc, left, recording, collector>>
  <2>1. /\ files' \in [Files -> [run : 0..MaxRuns, whole : BOOLEAN]]
        /\ \A g \in Files : g # Head(left) /\ Whole(g) => Whole(g)'
    BY <1>1, <1>4, FileOfPhase, TouchIsTyped DEF Inv
  <2>2. TypeOK'
    BY <1>1, <1>4, <2>1 DEF Inv, TypeOK, GoOn
  <2>3. PhaseInv'
    BY <1>1, <1>2, <1>4 DEF Inv, PhaseInv, GoOn
  <2>4. ASSUME status = "running" /\ ~warned
        PROVE  EngineFilesWritten' /\ SpecWritten'
    BY <1>1, <1>2, <1>4, <2>1, <2>4, FileOfPhase
       DEF Inv, WrittenInv, EngineFilesWritten, SpecWritten
  <2>5. WrittenInv'
    BY <1>1, <1>4, <2>4 DEF Inv, WrittenInv, MetricsWritten, ProfilesWritten, GoOn
  <2>6. SuccessMeansWritten'
    BY <1>1, <1>4, FileOfPhase DEF SuccessMeansWritten, GoOn
  <2> QED
    BY <2>2, <2>3, <2>5, <2>6 DEF Inv
<1> QED
  BY <1>3, <1>4 DEF OpenFile

LEMMA FillFileKeepsInv ==
  ASSUME Inv, NEW phase \in {"engine files", "output"}, FillFile(phase)
  PROVE  Inv'
<1>1. UNCHANGED <<run, asked>> /\ pc = phase /\ left # <<>>
  BY DEF FillFile
<1>2. EngineFiles' = EngineFiles
  BY <1>1, SameAsked
<1>3. CASE UNCHANGED files /\ Fatal
  BY <1>1, <1>3, ExitKeepsInv DEF Fatal, Inv, TypeOK
<1>4. CASE /\ Touch(Head(left), TRUE)
           /\ left' = Tail(left)
           /\ GoOn
           /\ UNCHANGED <<pc, recording, collector>>
  <2>0. PICK h \in Files : h = Head(left)
    BY <1>1, FileOfPhase
  <2>1. /\ files' \in [Files -> [run : 0..MaxRuns, whole : BOOLEAN]]
        /\ Whole(h)'
        /\ \A g \in Files : Whole(g) => Whole(g)'
    BY <1>1, <1>4, <2>0, TouchIsTyped DEF Inv
  <2>2. TypeOK'
    BY <1>1, <1>4, <2>1, FileOfPhase DEF Inv, TypeOK, GoOn
  <2>3. PhaseInv'
    BY <1>1, <1>2, <1>4, FileOfPhase DEF Inv, PhaseInv, GoOn
  <2>4. ASSUME status = "running" /\ ~warned
        PROVE  EngineFilesWritten' /\ SpecWritten'
    BY <1>1, <1>2, <1>4, <2>0, <2>1, <2>4, FileOfPhase
       DEF Inv, WrittenInv, EngineFilesWritten, SpecWritten
  <2>5. WrittenInv'
    BY <1>1, <1>4, <2>4 DEF Inv, WrittenInv, MetricsWritten, ProfilesWritten, GoOn
  <2>6. SuccessMeansWritten'
    BY <1>1, <1>4, FileOfPhase DEF SuccessMeansWritten, GoOn
  <2> QED
    BY <2>2, <2>3, <2>5, <2>6 DEF Inv
<1>5. CASE /\ left' = Tail(left)
           /\ warned' = TRUE
           /\ UNCHANGED <<files, status, pc, recording, collector, ticks, metrics, saved, report>>
  <2>1. TypeOK'
    BY <1>1, <1>5, FileOfPhase DEF Inv, TypeOK
  <2>2. PhaseInv'
    BY <1>1, <1>2, <1>5, FileOfPhase DEF Inv, PhaseInv
  <2> QED
    BY <1>5, <2>1, <2>2 DEF Inv, WrittenInv, SuccessMeansWritten
<1> QED
  BY <1>3, <1>4, <1>5 DEF FillFile

LEMMA EngineDoneKeepsInv ==
  ASSUME Inv, NEW level \in Levels, EngineDone(level)
  PROVE  Inv'
<1>1. /\ UNCHANGED <<run, asked, status, left, files, recording, collector, ticks, saved, report,
                     warned>>
      /\ pc = "engine files" /\ left = <<>> /\ pc' = "generated"
      /\ Measure(Sample("openapi_generation", level))
  BY DEF EngineDone
<1>2. EngineFiles' = EngineFiles /\ Wanted' = Wanted
  BY <1>1, SameAsked
<1>3. metrics' \in Seq(Samples)
  <2>1. Sample("openapi_generation", level) \in Samples
    BY DEF Sample, Samples
  <2> QED
    BY <1>1, <2>1, SamplesAppend DEF Measure
<1>4. TypeOK'
  BY <1>1, <1>3 DEF Inv, TypeOK
<1>5. PhaseInv'
  BY <1>1 DEF Inv, PhaseInv
<1>6. WrittenInv'
  <2>1. \A f : Whole(f)' <=> Whole(f)
    BY <1>1 DEF Whole
  <2> QED
    BY <1>1, <1>2, <2>1, RangeOfNone DEF Inv, WrittenInv, EngineFilesWritten, SpecWritten,
                                         MetricsWritten, ProfilesWritten
<1>7. SuccessMeansWritten'
  BY <1>1, <1>2 DEF Inv, SuccessMeansWritten
<1> QED
  BY <1>4, <1>5, <1>6, <1>7 DEF Inv

LEMMA RecordSuccessKeepsInv ==
  ASSUME Inv, RecordSuccess
  PROVE  Inv'
<1>1. /\ UNCHANGED <<run, asked, status, files, recording, collector, ticks, saved, report,
                     warned>>
      /\ pc = "generated" /\ pc' = "output"
      /\ Measure(Sample("generation.success", "normal"))
      /\ left' = IF "output" \in asked THEN <<"spec">> ELSE <<>>
  BY DEF RecordSuccess
<1>2. EngineFiles' = EngineFiles /\ Wanted' = Wanted
  BY <1>1, SameAsked
<1>3. metrics' \in Seq(Samples)
  <2>1. Sample("generation.success", "normal") \in Samples
    BY DEF Sample, Samples
  <2> QED
    BY <1>1, <2>1, SamplesAppend DEF Measure
<1>4. /\ left' \in Seq(Files)
      /\ Range(left') \subseteq {"spec"}
      /\ "output" \in asked => "spec" \in Range(left')
  <2>1. CASE "output" \in asked
    <3>1. left' = <<"spec">>
      BY <1>1, <2>1
    <3>2. <<"spec">> \in Seq(Files) /\ Range(<<"spec">>) = {"spec"}
      BY FilesNamed, RangeOfOne
    <3> QED
      BY <3>1, <3>2
  <2>2. CASE "output" \notin asked
    <3>1. left' = <<>>
      BY <1>1, <2>2
    <3> QED
      BY <2>2, <3>1, RangeOfNone
  <2> QED
    BY <2>1, <2>2
<1>5. TypeOK'
  BY <1>1, <1>3, <1>4 DEF Inv, TypeOK
<1>6. PhaseInv'
  BY <1>1, <1>4 DEF Inv, PhaseInv
<1>7. WrittenInv'
  <2>1. \A f : Whole(f)' <=> Whole(f)
    BY <1>1 DEF Whole
  <2>2. Range(left)' = Range(left')
    OBVIOUS
  <2> QED
    BY <1>1, <1>2, <1>4, <2>1, <2>2 DEF Inv, WrittenInv, EngineFilesWritten, SpecWritten,
                                         MetricsWritten, ProfilesWritten
<1>8. SuccessMeansWritten'
  BY <1>1, <1>2 DEF Inv, SuccessMeansWritten
<1> QED
  BY <1>5, <1>6, <1>7, <1>8 DEF Inv

LEMMA OutputDoneKeepsInv ==
  ASSUME Inv, OutputDone
  PROVE  Inv'
<1>1. UNCHANGED <<run, asked, files>> /\ pc = "output" /\ left = <<>>
  BY DEF OutputDone
<1>2. EngineFiles' = EngineFiles /\ Wanted' = Wanted
  BY <1>1, SameAsked
<1>3. CASE Fatal
  BY <1>1, <1>3, ExitKeepsInv DEF Fatal, Inv, TypeOK
<1>4. CASE /\ pc' = IF "metrics" \in asked THEN "save" ELSE "stop"
           /\ UNCHANGED <<status, left, process>>
  <2>1. TypeOK'
    BY <1>1, <1>4 DEF Inv, TypeOK, process
  <2>2. PhaseInv'
    BY <1>1, <1>4 DEF Inv, PhaseInv
  <2>3. WrittenInv'
    <3>1. \A f : Whole(f)' <=> Whole(f)
      BY <1>1 DEF Whole
    <3> QED
      BY <1>1, <1>2, <1>4, <3>1, RangeOfNone
         DEF Inv, WrittenInv, EngineFilesWritten, SpecWritten, MetricsWritten, ProfilesWritten,
             process
  <2>4. SuccessMeansWritten'
    BY <1>1, <1>2, <1>4 DEF Inv, SuccessMeansWritten, process
  <2> QED
    BY <2>1, <2>2, <2>3, <2>4 DEF Inv
<1> QED
  BY <1>3, <1>4 DEF OutputDone

LEMMA SaveMetricsKeepsInv ==
  ASSUME Inv, SaveMetrics
  PROVE  Inv'
<1>1. /\ UNCHANGED <<run, asked, status, left, recording, collector, ticks, metrics, report>>
      /\ pc = "save" /\ pc' \in {"analyse", "stop"}
      /\ saved' \in {saved, metrics}
      /\ status = "running"
  BY DEF SaveMetrics, Inv, PhaseInv
<1>2. EngineFiles' = EngineFiles
  BY <1>1, SameAsked
<1>3. "metrics" \in Files /\ "spec" \in Files /\ Range(EngineFiles) \subseteq Files \ {"metrics"}
  BY FilesNamed, ListsOfFiles
<1>4. files' \in [Files -> [run : 0..MaxRuns, whole : BOOLEAN]]
  BY <1>1, <1>3, TouchIsTyped, FailuresAreTyped DEF SaveMetrics, Inv
<1>5. TypeOK'
  BY <1>1, <1>4 DEF Inv, TypeOK
<1>6. PhaseInv'
  BY <1>1 DEF Inv, PhaseInv
<1>7. WrittenInv'
  <2> SUFFICES ASSUME ~warned' PROVE WrittenInv'
    BY DEF WrittenInv
  <2>1. Touch("metrics", TRUE) /\ UNCHANGED warned
    BY DEF SaveMetrics
  <2>2. /\ Whole("metrics")'
        /\ \A g \in Files : Whole(g) => Whole(g)'
    BY <1>1, <1>3, <2>1, TouchIsTyped DEF Inv
  <2> QED
    BY <1>1, <1>2, <1>3, <2>1, <2>2 DEF Inv, WrittenInv, EngineFilesWritten, SpecWritten,
                                         MetricsWritten, ProfilesWritten
<1> QED
  BY <1>1, <1>5, <1>6, <1>7 DEF Inv, SuccessMeansWritten

LEMMA AnalyseKeepsInv ==
  ASSUME Inv, Analyse
  PROVE  Inv'
<1>1. /\ UNCHANGED <<run, asked, status, left, files, recording, collector, ticks, metrics,
                     saved, warned>>
      /\ pc = "analyse" /\ pc' = "stop"
  BY DEF Analyse
<1>2. EngineFiles' = EngineFiles /\ Wanted' = Wanted
  BY <1>1, SameAsked
<1>3. TypeOK'
  BY <1>1 DEF Inv, TypeOK
<1>4. PhaseInv'
  BY <1>1 DEF Inv, PhaseInv
<1>5. WrittenInv'
  <2>1. \A f : Whole(f)' <=> Whole(f)
    BY <1>1 DEF Whole
  <2> QED
    BY <1>1, <1>2, <2>1 DEF Inv, WrittenInv, EngineFilesWritten, SpecWritten, MetricsWritten,
                            ProfilesWritten
<1>6. SuccessMeansWritten'
  BY <1>1, <1>2 DEF Inv, SuccessMeansWritten
<1> QED
  BY <1>3, <1>4, <1>5, <1>6 DEF Inv

LEMMA StopProfilerKeepsInv ==
  ASSUME Inv, StopProfiler
  PROVE  Inv'
<1>1. /\ UNCHANGED <<run, asked, status, files, process>>
      /\ pc = "stop" /\ pc' = "stopping"
      /\ left' = IF Profiling THEN ToStop ELSE <<>>
  BY DEF StopProfiler
<1>2. EngineFiles' = EngineFiles /\ Wanted' = Wanted
  BY <1>1, SameAsked
<1>3. /\ left' \in Seq(Files)
      /\ Range(left') \subseteq Profiles
      /\ Profiling => Range(left') = {"mem", "block", "mutex"} \union
                                     (recording \intersect {"cpu", "trace"})
  <2>1. CASE Profiling
    <3>1. left' = ToStop
      BY <1>1, <2>1
    <3> QED
      BY <3>1, ListsOfFiles DEF Profiles
  <2>2. CASE ~Profiling
    <3>1. left' = <<>>
      BY <1>1, <2>2
    <3>2. left' \in Seq(Files) /\ Range(left') = {}
      BY <3>1, RangeOfNone
    <3> QED
      BY <2>2, <3>2
  <2> QED
    BY <2>1, <2>2
<1>4. TypeOK'
  BY <1>1, <1>3 DEF Inv, TypeOK, process
<1>5. PhaseInv'
  BY <1>1, <1>3 DEF Inv, PhaseInv
<1>6. WrittenInv'
  <2> SUFFICES ASSUME status = "running", ~warned PROVE WrittenInv'
    BY <1>1 DEF WrittenInv, process
  <2>1. \A f : Whole(f)' <=> Whole(f)
    BY <1>1 DEF Whole
  <2>2. EngineFilesWritten' /\ SpecWritten' /\ MetricsWritten'
    BY <1>1, <1>2, <2>1 DEF Inv, WrittenInv, EngineFilesWritten, SpecWritten, MetricsWritten
  <2>3. asked \intersect {"cpu", "trace"} \subseteq recording
    BY <1>1 DEF Inv, WrittenInv, ProfilesWritten
  <2>4. ASSUME NEW f \in asked \intersect Profiles
        PROVE  f \in Range(left')
    BY <1>3, <2>3 DEF Profiling, Profiles
  <2>5. ProfilesWritten'
    BY <1>1, <2>4 DEF ProfilesWritten
  <2> QED
    BY <2>2, <2>5 DEF WrittenInv
<1>7. SuccessMeansWritten'
  BY <1>1, <1>2 DEF Inv, SuccessMeansWritten, process
<1> QED
  BY <1>4, <1>5, <1>6, <1>7 DEF Inv

LEMMA StopProfileKeepsInv ==
  ASSUME Inv, StopProfile
  PROVE  Inv'
<1>1. /\ UNCHANGED <<run, asked, status, pc, collector, ticks, metrics, saved, report>>
      /\ pc = "stopping" /\ left # <<>> /\ left' = Tail(left)
      /\ recording' = recording \ {Head(left)}
      /\ status = "running"
  BY DEF StopProfile, Inv, PhaseInv
<1>2. EngineFiles' = EngineFiles
  BY <1>1, SameAsked
<1>3. /\ Head(left) \in Files /\ Head(left) \in Profiles /\ Tail(left) \in Seq(Files)
      /\ Range(left) = {Head(left)} \union Range(Tail(left))
  BY <1>1, RangeFacts DEF Inv, TypeOK, PhaseInv
<1>4. /\ {"spec", "metrics"} \subseteq Files /\ Profiles \subseteq Files
      /\ Range(EngineFiles) \subseteq Files
  BY FilesNamed, ListsOfFiles DEF Profiles
<1>5. files' \in [Files -> [run : 0..MaxRuns, whole : BOOLEAN]]
  BY <1>1, <1>3, TouchIsTyped, FailuresAreTyped DEF StopProfile, WriteFails, Inv, TypeOK
<1>6. TypeOK'
  BY <1>1, <1>3, <1>5 DEF Inv, TypeOK
<1>7. PhaseInv'
  BY <1>1, <1>3 DEF Inv, PhaseInv
<1>8. WrittenInv'
  <2> SUFFICES ASSUME ~warned' PROVE WrittenInv'
    BY DEF WrittenInv
  <2>1. Touch(Head(left), TRUE) /\ UNCHANGED warned
    BY DEF StopProfile
  <2>0. PICK h \in Files : h = Head(left)
    BY <1>3
  <2>2. /\ Whole(h)'
        /\ \A g \in Files : Whole(g) => Whole(g)'
    BY <1>1, <2>0, <2>1, TouchIsTyped DEF Inv
  <2> QED
    BY <1>1, <1>2, <1>3, <1>4, <2>0, <2>1, <2>2
       DEF Inv, WrittenInv, EngineFilesWritten, SpecWritten, MetricsWritten, ProfilesWritten
<1> QED
  BY <1>1, <1>6, <1>7, <1>8 DEF Inv, SuccessMeansWritten

(* The run returns from main: everything is behind it. *)
LEMMA StopCollectorKeepsInv ==
  ASSUME Inv, StopCollector
  PROVE  Inv'
<1>1. /\ UNCHANGED <<run, asked, files, warned>>
      /\ pc = "stopping" /\ left = <<>>
      /\ status = "running"
      /\ left' = <<>> /\ recording' = {} /\ collector' = "off"
      /\ ticks' = 0 /\ metrics' = <<>> /\ saved' = <<>> /\ status' = "ok" /\ pc' = "done"
  BY DEF StopCollector, Exit, Inv, PhaseInv
<1>2. TypeOK'
  BY <1>1, BoundsAssumption DEF Inv, TypeOK
<1>3. PhaseInv' /\ WrittenInv'
  BY <1>1 DEF PhaseInv, WrittenInv
<1>4. ASSUME ~warned
      PROVE  \A f \in Wanted : Whole(f)
  <2>1. EngineFilesWritten /\ SpecWritten /\ MetricsWritten /\ ProfilesWritten
    BY <1>1, <1>4 DEF Inv, WrittenInv
  <2> QED
    BY <1>1, <2>1, RangeOfNone DEF Wanted, EngineFilesWritten, SpecWritten, MetricsWritten,
                                   ProfilesWritten
<1>5. SuccessMeansWritten'
  <2>1. Wanted' = Wanted
    BY <1>1, SameAsked
  <2> QED
    BY <1>1, <1>4, <2>1 DEF SuccessMeansWritten, Whole
<1> QED
  BY <1>2, <1>3, <1>5 DEF Inv

-----------------------------------------------------------------------------
THEOREM InvHolds == Spec => []Inv
<1>1. Init => Inv
  <2> SUFFICES ASSUME Init PROVE Inv
    OBVIOUS
  <2>1. TypeOK
    BY BoundsAssumption DEF Init, TypeOK, Absent
  <2> QED
    BY <2>1 DEF Init, Inv, PhaseInv, WrittenInv, SuccessMeansWritten
<1>2. Inv /\ [Next]_vars => Inv'
  <2> SUFFICES ASSUME Inv, Moves PROVE Inv'
    BY MovesOfNext
  <2>1. CASE \E flags \in FlagSets : Begin(flags)
    BY <2>1, BeginKeepsInv
  <2>2. CASE Kill
    BY <2>2, ExitKeepsInv DEF Kill, Inv, TypeOK
  <2>3. CASE \E level \in Levels : Tick(level) \/ TickGoroutines(level)
    BY <2>3, TicksKeepInv
  <2>4. CASE StartProfiler \/ StartCollector \/ WithoutProfiler
    BY <2>4, StartKeepsInv
  <2>5. CASE OpenProfile
    BY <2>5, OpenProfileKeepsInv
  <2>6. CASE RunEngine
    BY <2>6, RunEngineKeepsInv
  <2>7. CASE \E phase \in {"engine files", "output"} : OpenFile(phase)
    BY <2>7, OpenFileKeepsInv
  <2>8. CASE \E phase \in {"engine files", "output"} : FillFile(phase)
    BY <2>8, FillFileKeepsInv
  <2>9. CASE \E level \in Levels : EngineDone(level)
    BY <2>9, EngineDoneKeepsInv
  <2>10. CASE RecordSuccess
    BY <2>10, RecordSuccessKeepsInv
  <2>11. CASE OutputDone
    BY <2>11, OutputDoneKeepsInv
  <2>12. CASE SaveMetrics
    BY <2>12, SaveMetricsKeepsInv
  <2>13. CASE Analyse
    BY <2>13, AnalyseKeepsInv
  <2>14. CASE StopProfiler
    BY <2>14, StopProfilerKeepsInv
  <2>15. CASE StopProfile
    BY <2>15, StopProfileKeepsInv
  <2>16. CASE StopCollector
    BY <2>16, StopCollectorKeepsInv
  <2>17. CASE UNCHANGED vars
    <3>1. TypeOK'
      BY <2>17 DEF Inv, TypeOK, vars, process
    <3> QED
      BY <2>17, <3>1, SameFiles DEF vars, process
  <2> QED
    BY <2>1, <2>2, <2>3, <2>4, <2>5, <2>6, <2>7, <2>8, <2>9, <2>10, <2>11, <2>12, <2>13,
       <2>14, <2>15, <2>16, <2>17 DEF Moves
<1> QED
  BY <1>1, <1>2, PTL DEF Spec

(* Every variable keeps its type. *)
THEOREM TypeCorrect == Spec => []TypeOK
<1>1. Inv => TypeOK
  BY DEF Inv
<1> QED
  BY <1>1, InvHolds, PTL

(* Whatever the flags, and whatever runs before it have left behind, a run *)
(* that reports success and has logged no error has written every file it  *)
(* was asked for, whole (main.go:540-620, io.go:41-104).                   *)
THEOREM SuccessWritten == Spec => []SuccessMeansWritten
<1>1. Inv => SuccessMeansWritten
  BY DEF Inv
<1> QED
  BY <1>1, InvHolds, PTL

-----------------------------------------------------------------------------
(* Metrics, the file they are saved in and the report about them.          *)

Generations(ms) == Of(ms, "openapi_generation")

MeasuredOnce(ms) == \E i \in DOMAIN ms : Generations(ms) = {i}

(* The generation is measured once it is over, and once only; what has     *)
(* been saved is a part of what the report will be made from.              *)
MeasureInv ==
  /\ pc \in {"profile", "open", "generate", "engine files"} => Generations(metrics) = {}
  /\ pc \in {"save", "analyse"} => "metrics" \in asked
  /\ pc \in {"generated", "output", "save"} /\ "metrics" \in asked => MeasuredOnce(metrics)
  /\ pc = "analyse" => IsPrefix(saved, metrics) /\ MeasuredOnce(saved)
  /\ pc \notin {"stop", "stopping"} => ~report.made
  /\ report.made => report.from \in Seq(Samples)
  /\ MeasurementsAgree

LEMMA PrefixPointwise ==
  ASSUME NEW s \in Seq(Samples), NEW t \in Seq(Samples)
  PROVE  IsPrefix(s, t) <=> Len(s) <= Len(t) /\ \A i \in 1..Len(s) : s[i] = t[i]
<1>1. Len(s) \in Nat /\ Len(t) \in Nat /\ DOMAIN s = 1..Len(s) /\ DOMAIN t = 1..Len(t)
  OBVIOUS
<1>2. SubSeq(s, 1, Len(s)) = s
  OBVIOUS
<1>3. ASSUME Len(s) <= Len(t)
      PROVE  SubSeq(t, 1, Len(s)) = s <=> \A i \in 1..Len(s) : s[i] = t[i]
  <2> DEFINE u == SubSeq(t, 1, Len(s))
  <2>1. u \in Seq(Samples) /\ Len(u) = Len(s) /\ \A i \in 1..Len(s) : u[i] = t[i]
    BY <1>1, <1>3
  <2> HIDE DEF u
  <2>2. u = s <=> \A i \in 1..Len(s) : u[i] = s[i]
    BY <1>1, <2>1
  <2>3. u = s <=> \A i \in 1..Len(s) : s[i] = t[i]
    BY <2>1, <2>2
  <2> QED
    BY <2>3 DEF u
<1> QED
  BY <1>2, <1>3 DEF IsPrefix

(* A sample more, of another name, changes nothing of what is known. *)
LEMMA AppendedSample ==
  ASSUME NEW ms \in Seq(Samples), NEW e \in Samples
  PROVE  /\ Append(ms, e) \in Seq(Samples)
         /\ \A s \in Seq(Samples) : IsPrefix(s, ms) => IsPrefix(s, Append(ms, e))
         /\ e.name # "openapi_generation" => Generations(Append(ms, e)) = Generations(ms)
         /\ e.name = "openapi_generation" /\ Generations(ms) = {} => MeasuredOnce(Append(ms, e))
<1> DEFINE more == Append(ms, e)
<1>1. /\ more \in Seq(Samples) /\ Len(ms) \in Nat
      /\ Len(more) = Len(ms) + 1
      /\ \A i \in 1..Len(ms) : more[i] = ms[i]
      /\ more[Len(ms) + 1] = e
      /\ DOMAIN ms = 1..Len(ms) /\ DOMAIN more = 1..(Len(ms) + 1)
  BY AppendProperties
<1> HIDE DEF more
<1>2. ASSUME NEW s \in Seq(Samples), IsPrefix(s, ms)
      PROVE  IsPrefix(s, more)
  <2>1. Len(s) \in Nat /\ Len(s) <= Len(ms) /\ \A i \in 1..Len(s) : s[i] = ms[i]
    BY <1>2, PrefixPointwise
  <2>2. Len(s) <= Len(more) /\ \A i \in 1..Len(s) : s[i] = more[i]
    BY <1>1, <2>1
  <2> QED
    BY <1>1, <2>2, PrefixPointwise
<1>3. Generations(more) =
        Generations(ms) \union {i \in {Len(ms) + 1} : e.name = "openapi_generation"}
  BY <1>1 DEF Generations, Of
<1>4. ASSUME e.name = "openapi_generation", Generations(ms) = {}
      PROVE  MeasuredOnce(more)
  BY <1>1, <1>3, <1>4 DEF MeasuredOnce
<1>5. e.name # "openapi_generation" => Generations(more) = Generations(ms)
  BY <1>3
<1> QED
  BY <1>1, <1>2, <1>4, <1>5 DEF more

(* The report, and the saved metrics, do not change while more is measured. *)
LEMMA MeasuringKeepsInv ==
  ASSUME Inv, MeasureInv, NEW e \in Samples,
         metrics' = Append(metrics, e),
         e.name # "openapi_generation",
         UNCHANGED <<asked, saved, report>>,
         \/ pc' = pc
         \/ pc = "generated" /\ pc' = "output"
  PROVE  MeasureInv'
<1>1. metrics \in Seq(Samples) /\ saved \in Seq(Samples)
  BY DEF Inv, TypeOK
<1>2. /\ Generations(metrics') = Generations(metrics)
      /\ \A s \in Seq(Samples) : IsPrefix(s, metrics) => IsPrefix(s, metrics')
  BY <1>1, AppendedSample
<1>3. MeasuredOnce(metrics) => MeasuredOnce(metrics')
  <2>1. Generations(metrics') \subseteq DOMAIN metrics'
    BY DEF Generations, Of
  <2> QED
    BY <1>2, <2>1 DEF MeasuredOnce
<1>4. MeasurementsAgree'
  BY <1>2 DEF MeasureInv, MeasurementsAgree
<1> QED
  BY <1>1, <1>2, <1>3, <1>4 DEF MeasureInv

LEMMA NotMadeAgrees ==
  ASSUME ~report.made
  PROVE  MeasurementsAgree
  BY DEF MeasurementsAgree

(* An end of the process takes everything with it. *)
LEMMA ExitForgets ==
  ASSUME NEW how, Exit(how)
  PROVE  MeasureInv'
<1>1. pc' = "done" /\ report' = NoReport /\ ~report'.made
  BY DEF Exit, NoReport
<1>2. MeasurementsAgree'
  BY <1>1 DEF MeasurementsAgree
<1> QED
  BY <1>1, <1>2 DEF MeasureInv

(* Steps that neither measure nor report. *)
LEMMA SameMeasurements ==
  ASSUME MeasureInv, UNCHANGED <<asked, metrics, saved, report>>,
         \/ pc' = pc
         \/ pc = "profile" /\ pc' \in {"open", "generate"}
         \/ pc = "open" /\ pc' = "generate"
         \/ pc = "generate" /\ pc' = "engine files"
         \/ pc = "output" /\ pc' = "save" /\ "metrics" \in asked
         \/ pc \in {"output", "save", "stop"} /\ pc' \in {"stop", "stopping"}
  PROVE  MeasureInv'
<1>1. MeasurementsAgree'
  BY DEF MeasureInv, MeasurementsAgree
<1> QED
  BY <1>1 DEF MeasureInv

LEMMA AnalyseAgrees ==
  ASSUME Inv, MeasureInv, Analyse
  PROVE  MeasureInv'
<1>1. /\ UNCHANGED <<asked, metrics, saved>>
      /\ pc' = "stop" /\ report' = AnalyzeMetrics(metrics)
      /\ metrics \in Seq(Samples) /\ saved \in Seq(Samples)
      /\ IsPrefix(saved, metrics) /\ MeasuredOnce(saved)
  BY DEF Analyse, Inv, TypeOK, MeasureInv
<1>2. report'.made /\ report'.from = metrics
  BY <1>1 DEF AnalyzeMetrics
<1>3. IsPrefix(metrics, metrics)
  <2>1. Len(metrics) <= Len(metrics) /\ \A i \in 1..Len(metrics) : metrics[i] = metrics[i]
    BY <1>1
  <2> QED
    BY <1>1, <2>1, PrefixPointwise
<1>4. ASSUME NEW i \in DOMAIN saved,
             saved[i].name = "openapi_generation", saved[i].level = "critical"
      PROVE  [name |-> saved[i].name, severity |-> "critical"] \in report'.issues
  <2>1. i \in DOMAIN metrics /\ metrics[i] = saved[i]
    BY <1>1, PrefixPointwise
  <2>2. i \in Of(metrics, "openapi_generation") /\ metrics[i].level = "critical"
    BY <1>4, <2>1 DEF Of
  <2>3. Severity(metrics, "openapi_generation") = "critical"
    BY <2>2 DEF Severity
  <2>4. "openapi_generation" \in Names(metrics)
    BY <1>4, <2>1 DEF Names
  <2>5. report'.issues = {[name |-> n, severity |-> Severity(metrics, n)] :
                            n \in {m \in Names(metrics) : Severity(metrics, m) # "normal"}}
    BY <1>1 DEF AnalyzeMetrics
  <2>6. [name |-> "openapi_generation", severity |-> "critical"] \in report'.issues
    BY <2>3, <2>4, <2>5
  <2> QED
    BY <1>4, <2>6
<1>5. MeasurementsAgree'
  BY <1>1, <1>2, <1>3, <1>4 DEF MeasurementsAgree, MeasuredOnce, Generations
<1> QED
  BY <1>1, <1>2, <1>5 DEF MeasureInv

LEMMA MeasureStep ==
  ASSUME Inv, MeasureInv, Moves
  PROVE  MeasureInv'
<1>1. CASE \E flags \in FlagSets : Begin(flags)
  <2>1. /\ metrics' = <<>> /\ report' = NoReport /\ pc' \in {"profile", "done"}
        /\ ~report'.made
    BY <1>1 DEF Begin, NoReport
  <2>2. Generations(metrics') = {}
    BY <2>1 DEF Generations, Of
  <2>3. MeasurementsAgree'
    BY <2>1 DEF MeasurementsAgree
  <2> QED
    BY <2>1, <2>2, <2>3 DEF MeasureInv
<1>2. CASE Kill
  BY <1>2, ExitForgets DEF Kill
<1>3. CASE \E level \in Levels : Tick(level)
  <2>1. PICK level \in Levels : Tick(level)
    BY <1>3
  <2>2. Sample("memory", level) \in Samples /\ Sample("memory", level).name = "memory"
    BY DEF Sample, Samples
  <2> QED
    BY <2>1, <2>2, MeasuringKeepsInv DEF Tick
<1>4. CASE \E level \in Levels : TickGoroutines(level)
  <2>1. PICK level \in Levels : TickGoroutines(level)
    BY <1>4
  <2>2. /\ Sample("goroutines", level) \in Samples
        /\ Sample("goroutines", level).name = "goroutines"
    BY DEF Sample, Samples
  <2> QED
    BY <2>1, <2>2, MeasuringKeepsInv DEF TickGoroutines
<1>5. CASE \E level \in Levels : EngineDone(level)
  <2>1. PICK level \in Levels : EngineDone(level)
    BY <1>5
  <2>2. /\ UNCHANGED <<asked, saved, report>>
        /\ pc = "engine files" /\ pc' = "generated"
        /\ Measure(Sample("openapi_generation", level))
    BY <2>1 DEF EngineDone
  <2>3. /\ Sample("openapi_generation", level) \in Samples
        /\ Sample("openapi_generation", level).name = "openapi_generation"
    BY DEF Sample, Samples
  <2>4. metrics \in Seq(Samples) /\ Generations(metrics) = {} /\ ~report.made
    BY <2>2 DEF Inv, TypeOK, MeasureInv
  <2>5. "metrics" \in asked => MeasuredOnce(metrics')
    BY <2>2, <2>3, <2>4, AppendedSample DEF Measure
  <2>6. MeasurementsAgree'
    BY <2>2, <2>4 DEF MeasurementsAgree
  <2> QED
    BY <2>2, <2>4, <2>5, <2>6 DEF MeasureInv
<1>6. CASE RecordSuccess
  <2>1. /\ UNCHANGED <<asked, saved, report>>
        /\ pc = "generated" /\ pc' = "output"
        /\ Measure(Sample("generation.success", "normal"))
    BY <1>6 DEF RecordSuccess
  <2>2. /\ Sample("generation.success", "normal") \in Samples
        /\ Sample("generation.success", "normal").name = "generation.success"
    BY DEF Sample, Samples
  <2>3. CASE "metrics" \in asked
    BY <2>1, <2>2, <2>3, MeasuringKeepsInv DEF Measure
  <2>4. CASE "metrics" \notin asked
    <3>1. MeasurementsAgree' /\ ~report'.made
      BY <2>1 DEF MeasureInv, MeasurementsAgree
    <3> QED
      BY <2>1, <2>4, <3>1 DEF MeasureInv
  <2> QED
    BY <2>3, <2>4
<1>7. CASE SaveMetrics
  <2>1. /\ UNCHANGED <<asked, metrics, report>> /\ pc = "save" /\ ~report.made
        /\ metrics \in Seq(Samples)
    BY <1>7 DEF SaveMetrics, Inv, TypeOK, MeasureInv
  <2>2. CASE pc' = "analyse" /\ saved' = metrics
    <3>1. IsPrefix(metrics, metrics)
      <4>1. Len(metrics) <= Len(metrics) /\ \A i \in 1..Len(metrics) : metrics[i] = metrics[i]
        BY <2>1
      <4> QED
        BY <2>1, <4>1, PrefixPointwise
    <3>2. MeasurementsAgree'
      BY <2>1 DEF MeasurementsAgree
    <3> QED
      BY <2>1, <2>2, <3>1, <3>2 DEF MeasureInv
  <2>3. CASE pc' = "stop" /\ UNCHANGED saved
    BY <2>1, <2>3, SameMeasurements
  <2> QED
    BY <1>7, <2>2, <2>3 DEF SaveMetrics
<1>8. CASE Analyse
  BY <1>8, AnalyseAgrees
<1>9. CASE Fatal \/ StopCollector
  BY <1>9, ExitForgets DEF Fatal, StopCollector
<1>10. CASE /\ ~Fatal
            /\ \/ StartProfiler \/ OpenProfile \/ StartCollector \/ WithoutProfiler \/ RunEngine
               \/ \E phase \in {"engine files", "output"} : OpenFile(phase) \/ FillFile(phase)
               \/ OutputDone \/ StopProfiler \/ StopProfile
  <2>1. UNCHANGED <<asked, metrics, saved, report>>
    BY <1>10 DEF StartProfiler, OpenProfile, StartCollector, WithoutProfiler, RunEngine,
                 OpenFile, FillFile, OutputDone, StopProfiler, StopProfile, GoOn, process
  <2>2. \/ pc' = pc
        \/ pc = "profile" /\ pc' \in {"open", "generate"}
        \/ pc = "open" /\ pc' = "generate"
        \/ pc = "generate" /\ pc' = "engine files"
        \/ pc = "output" /\ pc' = "save" /\ "metrics" \in asked
        \/ pc \in {"output", "save", "stop"} /\ pc' \in {"stop", "stopping"}
    BY <1>10 DEF StartProfiler, OpenProfile, StartCollector, WithoutProfiler, RunEngine,
                 OpenFile, FillFile, OutputDone, StopProfiler, StopProfile
  <2> QED
    BY <2>1, <2>2, SameMeasurements
<1>11. CASE UNCHANGED vars
  BY <1>11, SameMeasurements DEF vars, process
<1> QED
  BY <1>1, <1>2, <1>3, <1>4, <1>5, <1>6, <1>7, <1>8, <1>9, <1>10, <1>11 DEF Moves

(* However long the collector goes on and whatever it measures: the saved  *)
(* metrics are a part of those reported on, these of all there are, and a  *)
(* generation that took too long is reported (main.go:417-470).            *)
THEOREM MeasurementsHeld == Spec => []MeasurementsAgree
<1>1. Init => MeasureInv
  <2> SUFFICES ASSUME Init PROVE MeasureInv
    OBVIOUS
  <2>1. pc = "done" /\ ~report.made
    BY DEF Init, NoReport
  <2> QED
    BY <2>1, NotMadeAgrees DEF MeasureInv
<1>2. Inv /\ MeasureInv /\ [Next]_vars => MeasureInv'
  BY MovesOfNext, MeasureStep
<1>3. MeasureInv => MeasurementsAgree
  BY DEF MeasureInv
<1> QED
  BY <1>1, <1>2, <1>3, InvHolds, PTL DEF Spec

=============================================================================
