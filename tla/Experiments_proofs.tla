------------------------- MODULE Experiments_proofs -------------------------
(***************************************************************************)
(* Proofs about the experiment driver, for any manifest, baselines, command*)
(* lines, programs and readings, and any number of invocations, kills,     *)
(* edits and removals.                                                     *)
(*                                                                         *)
(* The argument: from the moment its record is RUNNING, a task owns its    *)
(* files (BodyOK), so nothing disturbs the files of a PASSED one; within a *)
(* stage every selected case is finished, still queued or under way        *)
(* (SolveProgress, BenchProgress), so that a stage that ends well has      *)
(* finished them all, and "all" carries this to the report.                *)
(***************************************************************************)
EXTENDS Experiments, FiniteSums, SequenceTheorems

SmokeBody == {"smoke.xml", "smoke.run"}
SolveBody == {"solve.layout", "solve.execute", "solve.report"}
BenchBody == {"bench.command", "bench.environment", "bench.upload", "bench.launch",
              "bench.measurements", "bench.activation"}
Labels == {"idle", "dispatch", "next", "finish", "report"}
            \cup SmokeBody \cup SolveBody \cup BenchBody
SolveTasks == {SolveTask(c) : c \in Cases}
OwnTasks == {PerfTask(c) : c \in Cases}

\* A task is being executed: its record is RUNNING.
InBody == pc \in {"finish"} \cup SmokeBody \cup SolveBody \cup BenchBody

JobOK ==
    /\ pc \in Labels
    /\ DOMAIN job = DOMAIN NoJob
    /\ job.todo \in Seq(Stages)
    /\ job.queue \in Seq(Cases) \cup Seq(PerfTasks)
    /\ job.ok \in BOOLEAN
    /\ pc # "idle" => /\ job.request \in Requests /\ job.todo # <<>>
                      /\ job.exit = None
    /\ pc = "dispatch" => job.queue = <<>>
    /\ pc # "finish" => job.made = None

\* An invocation is in this stage.
At(stage) == pc # "idle" /\ Head(job.todo) = stage

\* The label and the stage agree with the task under way.
StageOK ==
    /\ At("solve") => job.queue \in Seq(Cases)
    /\ At("benchmark") => /\ job.queue \in Seq(PerfTasks)
                          /\ job.seen # None => job.queue \in Seq(OwnTasks)
    /\ InBody => \/ At("smoke") /\ job.task = SmokeTask
                 \/ At("solve") /\ job.task \in SolveTasks
                 \/ At("benchmark") /\ job.task \in PerfTasks
    /\ pc \in SmokeBody => At("smoke")
    /\ pc \in SolveBody => At("solve")
    /\ pc \in BenchBody => At("benchmark")
    /\ pc = "report" => At("summarize") /\ summary.files \in {1, 2}

\* A RUNNING record is that of the task under way, or was left by a kill.
RunningOK ==
    \A t \in Tasks : store[t] # None /\ store[t].status = "running" =>
        t \in interrupted \/ (InBody /\ t = job.task)

\* The task under way has a RUNNING record of its inputs and no leftovers that
\* were removed.
BodyOK ==
    InBody =>
        /\ store[job.task] # None /\ store[job.task].status = "running"
        /\ job.task \notin cleaned
        /\ job.task \in SolveTasks => store[job.task].input = input[job.task[2]]
        /\ job.task \in PerfTasks => store[job.task].input = BenchmarkInput(job.task)

\* reading is of the program and environment that in is the digest of.
ReadingOf(reading, in) ==
    /\ reading \in ReadingRecords
    /\ reading.xmls = {in.xml} /\ reading.env.digested = in.env

\* What the labels of a body say of the files.
FilesOK ==
    /\ pc \in {"solve.execute", "solve.report"} => runs[job.task[2]].root
    /\ pc = "solve.report" => runs[job.task[2]].xml \in Xmls
    /\ pc = "bench.launch" => remote[job.task] = BenchmarkXml(job.task)
    /\ pc \in {"bench.measurements", "bench.activation"} =>
         /\ ReadingOf(perf[job.task].reading, BenchmarkInput(job.task))
         /\ perf[job.task].reading.env = env

\* out is on disk as the output of t.
Complete(t, out) ==
    CASE t[1] = "solve" -> runs[t[2]].xml = out /\ ReportIsValid(runs[t[2]].report)
      [] t[1] = "smoke" -> smokeDir.report /\ smokeDir.xml = out
      [] OTHER -> perf[t].files = 6 /\ perf[t].reading = out

MadeOK ==
    pc = "finish" /\ job.made # None =>
        /\ job.made \in DigestedOutput(job.task)
        /\ Complete(job.task, job.made)
        /\ job.task \in PerfTasks => /\ ReadingOf(job.made, BenchmarkInput(job.task))
                                     /\ job.made.env = env

\* Records and files of benchmarks, whoever removed what.
ReadingsOK ==
    \A t \in PerfTasks :
        /\ perf[t].files >= 5 => perf[t].reading \in ReadingRecords
        /\ Passed(store[t]) => ReadingOf(store[t].output, store[t].input)
CleanedOK ==
    /\ \A c \in Cases : SolveTask(c) \in cleaned => runs[c].xml = None
    /\ \A t \in PerfTasks \cap cleaned : perf[t].files = 0

RecordsInv ==
    /\ TypeOK /\ JobOK /\ StageOK /\ RunningOK /\ BodyOK /\ FilesOK /\ MadeOK
    /\ ReadingsOK /\ CleanedOK /\ PassedIsComplete

-----------------------------------------------------------------------------
(* Progress of the stages *)

SolvedCase(c) ==
    LET t == SolveTask(c) IN
    /\ Passed(store[t]) /\ store[t].input = input[c]
    /\ runs[c].xml = store[t].output /\ ReportIsValid(runs[c].report)
PerfDone(t) ==
    /\ Passed(store[t]) /\ store[t].input = BenchmarkInput(t)
    /\ perf[t].files >= 5 /\ perf[t].reading = store[t].output
    /\ perf[t].reading.env # env => job.request.resume

\* The benchmarks of the selected cases, and of the baselines they are
\* compared with, which the second loop of benchmark_matrix runs.
CaseTasks == {PerfTask(c) : c \in Selected}
RivalTasks == {BaseTask(b) : b \in {x \in Range(Baselines) : PairSelected(x)}}
Due == CaseTasks \cup (IF job.seen = None THEN RivalTasks ELSE {})
Benchmarked(t) == PerfDone(t) \/ t \in Range(job.queue) \/ (InBody /\ job.task = t)

Within(stage) == pc # "dispatch" /\ At(stage)
RunsAll == pc # "idle" /\ job.request.stage = "all"

\* What solve_matrix read at its start is still true of the cases that wait.
SeenOK ==
    Within("solve") =>
        /\ \A i, j \in DOMAIN job.queue : job.queue[i] = job.queue[j] => i = j
        /\ \A c \in Range(job.queue) : /\ job.seen[SolveTask(c)] = store[SolveTask(c)]
                                       /\ InBody => job.task # SolveTask(c)
SolveProgress ==
    Within("solve") /\ job.ok =>
        \A c \in Selected : \/ SolvedCase(c)
                            \/ c \in Range(job.queue)
                            \/ InBody /\ job.task = SolveTask(c)
BenchProgress ==
    Within("benchmark") /\ RunsAll =>
        /\ job.seen # None => Selected \subseteq job.seen
        /\ job.ok => \A t \in Due : Benchmarked(t)

\* "all" walks through AllStages; what the stages before have done stands.
TodoOK ==
    RunsAll => /\ Len(job.todo) \in 1..5
               /\ \A i \in 1..Len(job.todo) :
                    job.todo[i] = AllStages[5 - Len(job.todo) + i]
StagesDone ==
    RunsAll =>
        /\ At("benchmark") \/ At("summarize") => \A c \in Selected : SolvedCase(c)
        /\ At("summarize") => \A t \in CaseTasks \cup RivalTasks : PerfDone(t)

\* The row of t at size s that the report holds.
Reported(t, s) ==
    \E row \in summary.rows :
        /\ row.task = t /\ row.size = s /\ row.reading = perf[t].reading
        /\ t \in CaseTasks => row.metadata = runs[t[2]].xml
RowsOK ==
    RunsAll /\ pc = "report" => \A c \in Selected :
        /\ Reported(PerfTask(c), Size[c])
        /\ \A t \in RivalTasks : Reported(t, Size[c])

ResultsInv ==
    /\ SeenOK /\ SolveProgress /\ BenchProgress /\ TodoOK /\ StagesDone /\ RowsOK
    /\ AllMeansMeasured
-----------------------------------------------------------------------------
(* Tasks and their kinds *)

LEMMA Kinds ==
    /\ \A c : SolveTask(c)[1] = "solve" /\ SolveTask(c)[2] = c
    /\ \A c : PerfTask(c)[1] = "perf" /\ PerfTask(c)[2] = c
    /\ \A b : BaseTask(b)[1] = "base" /\ BaseTask(b)[2] = b
    /\ SmokeTask[1] = "smoke"
  BY DEF SolveTask, PerfTask, BaseTask, SmokeTask

LEMMA PerfKind ==
    ASSUME NEW t \in PerfTasks
    PROVE  /\ t \in Tasks
           /\ \/ t[1] = "perf" /\ t[2] \in Cases /\ t = PerfTask(t[2])
              \/ t[1] = "base" /\ t[2] \in Range(Baselines) /\ t = BaseTask(t[2])
  BY Kinds DEF PerfTasks, Tasks

LEMMA SolveKind ==
    ASSUME NEW t \in SolveTasks
    PROVE  t \in Tasks /\ t[1] = "solve" /\ t[2] \in Cases /\ t = SolveTask(t[2])
  BY Kinds DEF SolveTasks, Tasks

LEMMA TaskKind ==
    /\ \A t \in Tasks : t \in PerfTasks \/ t \in SolveTasks \/ t = SmokeTask
    /\ \A t \in PerfTasks : t[1] \in {"perf", "base"}
    /\ \A t \in SolveTasks : t[1] = "solve"
    /\ PerfTasks \subseteq Tasks /\ SolveTasks \subseteq Tasks /\ SmokeTask \in Tasks
    /\ PerfTasks \cap SolveTasks = {} /\ SmokeTask \notin PerfTasks \cup SolveTasks
    /\ \A c \in Cases : SolveTask(c) \in SolveTasks /\ PerfTask(c) \in PerfTasks
<1>1. \A t \in Tasks : t \in PerfTasks \/ t \in SolveTasks \/ t = SmokeTask
  BY DEF Tasks, SolveTasks
<1>2. \A t \in PerfTasks : t[1] \in {"perf", "base"}
  BY PerfKind
<1>3. \A t \in SolveTasks : t[1] = "solve"
  BY SolveKind
<1>4. PerfTasks \subseteq Tasks /\ SolveTasks \subseteq Tasks /\ SmokeTask \in Tasks
  BY DEF Tasks, SolveTasks
<1>5. PerfTasks \cap SolveTasks = {} /\ SmokeTask \notin PerfTasks \cup SolveTasks
  BY <1>2, <1>3, Kinds
<1>6. \A c \in Cases : SolveTask(c) \in SolveTasks /\ PerfTask(c) \in PerfTasks
  BY DEF SolveTasks, PerfTasks
<1> QED
  BY <1>1, <1>2, <1>3, <1>4, <1>5, <1>6

LEMMA Queue ==
    ASSUME NEW S, NEW s \in Seq(S), s # <<>>
    PROVE  /\ Head(s) \in S /\ Tail(s) \in Seq(S)
           /\ Head(s) = s[1] /\ Len(s) \in Nat /\ Len(s) >= 1
           /\ Len(Tail(s)) = Len(s) - 1
           /\ \A i \in 1..(Len(s) - 1) : Tail(s)[i] = s[i + 1]
           /\ Len(s) # 1 => Tail(s) # <<>>
           /\ Range(s) = {Head(s)} \cup Range(Tail(s))
<1>1. Head(s) \in S /\ Tail(s) \in Seq(S) /\ Head(s) = s[1]
  OBVIOUS
<1>2. Len(s) \in Nat /\ Len(s) >= 1 /\ DOMAIN s = 1..Len(s)
  BY EmptySeq, LenProperties
<1>3. /\ Len(Tail(s)) = Len(s) - 1
      /\ \A i \in 1..(Len(s) - 1) : Tail(s)[i] = s[i + 1]
  BY HeadTailProperties
<1>4. Len(s) # 1 => Tail(s) # <<>>
  BY <1>2, <1>3, EmptySeq
<1>5. Range(s) = {Head(s)} \cup Range(Tail(s))
  <2>1. DOMAIN Tail(s) = 1..(Len(s) - 1)
    BY <1>1, <1>3, LenProperties
  <2>2. ASSUME NEW i \in DOMAIN s PROVE s[i] \in {Head(s)} \cup Range(Tail(s))
    <3>1. CASE i = 1
      BY <3>1, <1>1
    <3>2. CASE i # 1
      <4>1. i - 1 \in 1..(Len(s) - 1) /\ (i - 1) + 1 = i
        BY <1>2, <3>2
      <4>2. Tail(s)[i - 1] = s[i]
        BY <4>1, <1>3
      <4> QED
        BY <4>1, <4>2, <2>1 DEF Range
    <3> QED
      BY <3>1, <3>2
  <2>3. ASSUME NEW i \in DOMAIN Tail(s) PROVE Tail(s)[i] \in Range(s)
    <3>1. i + 1 \in DOMAIN s /\ Tail(s)[i] = s[i + 1]
      BY <1>2, <1>3, <2>1
    <3> QED
      BY <3>1 DEF Range
  <2>4. Head(s) \in Range(s)
    BY <1>1, <1>2 DEF Range
  <2> QED
    BY <2>2, <2>3, <2>4 DEF Range
<1> QED
  BY <1>1, <1>2, <1>3, <1>4, <1>5

LEMMA CaseFacts == Head(CaseList) \in Cases /\ 1 \in DOMAIN CaseList
  BY ManifestAssumption DEF Cases, Range

LEMMA VersionFacts == 1 \in Versions /\ MaxVersion \in Nat /\ Versions \subseteq Nat
  BY VersionAssumption DEF Versions

-----------------------------------------------------------------------------
(* Control *)

LEMMA ExitControl ==
    ASSUME NEW code, Exit(code), JobOK
    PROVE  JobOK' /\ StageOK' /\ pc' = "idle" /\ ~InBody'
<1>1. /\ pc' = "idle" /\ DOMAIN job' = DOMAIN NoJob
      /\ job'.todo = <<>> /\ job'.queue = <<>> /\ job'.ok = TRUE /\ job'.made = None
  BY DEF Exit, NoJob
<1>2. <<>> \in Seq(Stages) /\ <<>> \in Seq(Cases)
  OBVIOUS
<1>3. JobOK'
  BY <1>1, <1>2 DEF JobOK, Labels
<1> QED
  BY <1>1, <1>3 DEF StageOK, At, InBody, SmokeBody, SolveBody, BenchBody

LEMMA StageEndsControl ==
    ASSUME NEW ok, StageEnds(ok), JobOK, pc \notin {"idle", "finish"}
    PROVE  JobOK' /\ StageOK' /\ pc' \in {"idle", "dispatch"} /\ ~InBody'
<1>1. CASE pc' = "idle"
  <2>1. Exit(1) \/ Exit(0)
    BY <1>1 DEF StageEnds
  <2> QED
    BY <2>1, ExitControl
<1>2. CASE pc' # "idle"
  <2>1. /\ pc' = "dispatch" /\ Len(job.todo) # 1
        /\ job' = [job EXCEPT !.todo = Tail(@), !.queue = <<>>, !.task = None, !.ok = TRUE]
    BY <1>2 DEF StageEnds, Exit
  <2>2. job.todo \in Seq(Stages) /\ job.todo # <<>>
    BY DEF JobOK
  <2>3. Tail(job.todo) \in Seq(Stages) /\ Tail(job.todo) # <<>>
    BY <2>1, <2>2, Queue
  <2>4. <<>> \in Seq(PerfTasks) /\ <<>> \in Seq(Cases) /\ <<>> \in Seq(OwnTasks)
    OBVIOUS
  <2>5. /\ DOMAIN job' = DOMAIN job /\ job'.todo = Tail(job.todo) /\ job'.queue = <<>>
        /\ job'.ok = TRUE /\ job'.request = job.request /\ job'.exit = job.exit
        /\ job'.made = job.made
    BY <2>1 DEF JobOK, NoJob
  <2>6. JobOK'
    BY <2>1, <2>3, <2>4, <2>5 DEF JobOK, Labels
  <2> QED
    BY <2>1, <2>4, <2>5, <2>6 DEF StageOK, At, InBody, SmokeBody, SolveBody, BenchBody
<1> QED
  BY <1>1, <1>2

LEMMA BodyControl ==
    ASSUME JobOK, StageOK, InBody, NEW content, NEW label,
           \/ Outcome(content)
           \/ /\ Goto(label) /\ pc # "finish"
              /\ \/ pc \in SmokeBody /\ label \in SmokeBody
                 \/ pc \in SolveBody /\ label \in SolveBody
                 \/ pc \in BenchBody /\ label \in BenchBody
    PROVE  /\ JobOK' /\ StageOK' /\ InBody'
           /\ job'.task = job.task /\ job'.todo = job.todo /\ job'.queue = job.queue
           /\ job'.seen = job.seen /\ job'.ok = job.ok /\ job'.request = job.request
           /\ job'.exit = job.exit
           /\ Outcome(content) => pc' = "finish" /\ job'.made = content
<1> USE DEF InBody, SmokeBody, SolveBody, BenchBody
<1>1. pc # "idle" /\ InBody' /\ pc' \in Labels
  BY DEF Outcome, Goto, Labels
<1>2. /\ DOMAIN job' = DOMAIN job
      /\ job'.task = job.task /\ job'.todo = job.todo /\ job'.queue = job.queue
      /\ job'.seen = job.seen /\ job'.ok = job.ok /\ job'.request = job.request
      /\ job'.exit = job.exit /\ (Goto(label) => job'.made = job.made)
  BY DEF Outcome, Goto, JobOK, NoJob
<1>3. Outcome(content) => pc' = "finish" /\ job'.made = content
  BY DEF Outcome, JobOK, NoJob
<1>4. pc' \notin {"idle", "dispatch", "report"}
  BY <1>1
<1>5. pc' # "finish" => Goto(label) /\ pc # "finish"
  BY DEF Outcome
<1>6. JobOK'
  BY <1>1, <1>2, <1>4, <1>5 DEF JobOK
<1>7. StageOK'
  <2>1. At("smoke")' = At("smoke") /\ At("solve")' = At("solve") /\ At("benchmark")' = At("benchmark")
    BY <1>1, <1>2, <1>4 DEF At
  <2>2. /\ pc' \in SmokeBody => pc \in SmokeBody
        /\ pc' \in SolveBody => pc \in SolveBody
        /\ pc' \in BenchBody => pc \in BenchBody
    BY DEF Outcome, Goto
  <2> QED
    BY <1>1, <1>2, <1>4, <2>1, <2>2 DEF StageOK
<1> QED
  BY <1>1, <1>2, <1>3, <1>6, <1>7

-----------------------------------------------------------------------------
(* Steps between tasks change records, files and inputs only where stated *)

DataOK == TypeOK /\ ReadingsOK /\ CleanedOK /\ PassedIsComplete
BodiesOK == RunningOK /\ BodyOK /\ FilesOK /\ MadeOK

LEMMA Parts ==
    /\ RecordsInv <=> DataOK /\ BodiesOK /\ JobOK /\ StageOK
    /\ RecordsInv' <=> DataOK' /\ BodiesOK' /\ JobOK' /\ StageOK'
  BY DEF RecordsInv, DataOK, BodiesOK

\* No task is under way before or after.
LEMMA NoBody ==
    ASSUME RunningOK, ~InBody, ~InBody', UNCHANGED <<store, interrupted>>
    PROVE  BodiesOK'
<1>1. RunningOK'
  BY DEF RunningOK
<1>2. pc' \notin {"solve.execute", "solve.report", "bench.launch", "bench.measurements",
                  "bench.activation", "finish"}
  BY DEF InBody, SolveBody, BenchBody
<1> QED
  BY <1>1, <1>2 DEF BodiesOK, BodyOK, FilesOK, MadeOK

LEMMA SameData ==
    ASSUME DataOK, UNCHANGED <<input, env, store, files, interrupted, cleaned>>
    PROVE  DataOK'
<1> USE DEF files
<1>1. TypeOK'
  BY DEF DataOK, TypeOK
<1>2. ReadingsOK' /\ CleanedOK'
  BY DEF DataOK, ReadingsOK, CleanedOK
<1>3. PassedIsComplete'
  BY DEF DataOK, PassedIsComplete
<1> QED
  BY <1>1, <1>2, <1>3 DEF DataOK

\* What a benchmark is to be run with depends on its request, the configuration
\* and the run directory of its case.
LEMMA InputSame ==
    ASSUME NEW t \in PerfTasks, env' = env, job'.request = job.request,
           \A c \in Cases : t = PerfTask(c) => runs'[c] = runs[c]
    PROVE  /\ BenchmarkXml(t)' = BenchmarkXml(t)
           /\ BenchmarkInput(t)' = BenchmarkInput(t)
<1>1. t[1] = "perf" => runs'[t[2]] = runs[t[2]]
  BY PerfKind, Kinds
<1>2. BenchmarkXml(t)' = BenchmarkXml(t)
  BY <1>1 DEF BenchmarkXml
<1>3. FirstCase(t[2])' = FirstCase(t[2])
  BY DEF FirstCase, Select
<1>4. BenchmarkCase(t)' = BenchmarkCase(t)
  BY <1>3 DEF BenchmarkCase
<1> QED
  BY <1>2, <1>4 DEF BenchmarkInput

\* A task under way changes its own files only.
LEMMA BodyStep ==
    ASSUME RecordsInv, InBody, InBody', job'.task = job.task, job'.request = job.request,
           UNCHANGED <<store, input, env, interrupted, cleaned>>,
           \A c \in Cases : job.task # SolveTask(c) => runs'[c] = runs[c],
           \A t \in PerfTasks : job.task # t => perf'[t] = perf[t],
           job.task # SmokeTask => smokeDir' = smokeDir
    PROVE  /\ RunningOK' /\ BodyOK' /\ CleanedOK' /\ PassedIsComplete'
           /\ job.task \in PerfTasks => BenchmarkXml(job.task)' = BenchmarkXml(job.task)
           /\ job.task \in PerfTasks => BenchmarkInput(job.task)' = BenchmarkInput(job.task)
<1>1. RunningOK'
  BY DEF RecordsInv, RunningOK
<1>2. ASSUME job.task \in PerfTasks
      PROVE  /\ BenchmarkXml(job.task)' = BenchmarkXml(job.task)
             /\ BenchmarkInput(job.task)' = BenchmarkInput(job.task)
  <2>1. \A c \in Cases : job.task # SolveTask(c)
    BY <1>2, TaskKind
  <2>2. \A c \in Cases : runs'[c] = runs[c]
    BY <2>1
  <2> QED
    BY <1>2, <2>2, InputSame
<1>3. BodyOK'
  BY <1>2 DEF RecordsInv, BodyOK
<1>4. CleanedOK'
  BY DEF RecordsInv, CleanedOK, BodyOK
<1>5. PassedIsComplete'
  <2> SUFFICES ASSUME NEW t \in Tasks, t \notin cleaned, Passed(store[t])
               PROVE  CASE t[1] = "solve" -> /\ runs'[t[2]].xml = store[t].output
                                             /\ ReportIsValid(runs'[t[2]].report)
                        [] t[1] = "smoke" -> smokeDir'.report /\ smokeDir'.xml = store[t].output
                        [] OTHER -> perf'[t].files = 6 /\ perf'[t].reading = store[t].output
    BY DEF PassedIsComplete, ReportIsValid, Passed
  <2>1. t # job.task
    BY DEF RecordsInv, BodyOK, Passed
  <2>2. CASE t \in PerfTasks
    <3>1. t[1] \notin {"solve", "smoke"} /\ perf'[t] = perf[t]
      BY <2>1, <2>2, TaskKind
    <3> QED
      BY <3>1 DEF RecordsInv, PassedIsComplete
  <2>3. CASE t \in SolveTasks
    <3>1. t[1] = "solve" /\ runs'[t[2]] = runs[t[2]]
      BY <2>1, <2>3, SolveKind
    <3> QED
      BY <3>1 DEF RecordsInv, PassedIsComplete
  <2>4. CASE t = SmokeTask
    <3>1. t[1] = "smoke" /\ smokeDir' = smokeDir
      BY <2>1, <2>4, Kinds
    <3> QED
      BY <3>1 DEF RecordsInv, PassedIsComplete
  <2> QED
    BY <2>2, <2>3, <2>4, TaskKind
<1> QED
  BY <1>1, <1>2, <1>3, <1>4, <1>5

-----------------------------------------------------------------------------
(* The steps of a task *)

RunDir == [root : BOOLEAN, xml : Xmls \cup {None}, report : Reports \cup {None}]
PerfDir == [files : 0..6, reading : ReadingRecords \cup {None}]

LEMMA SmokeXmlRecords == ASSUME RecordsInv, SmokeXml PROVE RecordsInv'
<1> DEFINE text == input[Head(CaseList)]
<1>1. InBody /\ job.task = SmokeTask /\ pc # "finish" /\ JobOK /\ StageOK
  BY Kinds DEF SmokeXml, RecordsInv, InBody, SmokeBody, StageOK, At
<1>2. Outcome(None) \/ Goto("smoke.run")
  BY DEF SmokeXml
<1>3. JobOK' /\ StageOK' /\ InBody' /\ job'.task = job.task
      /\ job'.request = job.request
  BY <1>1, <1>2, BodyControl DEF SmokeXml, SmokeBody
<1>4. UNCHANGED <<store, input, env, interrupted, cleaned, runs, perf, baseIndex, remote, summary>>
  BY DEF SmokeXml, user
<1>5. /\ RunningOK' /\ BodyOK' /\ CleanedOK' /\ PassedIsComplete'
  BY <1>1, <1>3, <1>4, BodyStep
<1>6. TypeOK'
  <2>1. text \in Versions
    BY CaseFacts DEF RecordsInv, TypeOK
  <2>2. smokeDir' = smokeDir \/ smokeDir' = [smokeDir EXCEPT !.xml = text]
    BY DEF SmokeXml
  <2>3. smokeDir' \in [xml : Versions \cup {None}, report : BOOLEAN]
    BY <2>1, <2>2 DEF RecordsInv, TypeOK
  <2> QED
    BY <1>4, <2>3 DEF RecordsInv, TypeOK
<1>7. ReadingsOK'
  BY <1>4 DEF RecordsInv, ReadingsOK
<1>8. FilesOK' /\ MadeOK'
  <2>1. pc' = "smoke.run" \/ (pc' = "finish" /\ job'.made = None)
    BY <1>1, <1>2 DEF Outcome, Goto, JobOK, NoJob
  <2> QED
    BY <2>1 DEF FilesOK, MadeOK
<1> QED
  BY <1>3, <1>5, <1>6, <1>7, <1>8 DEF RecordsInv

LEMMA SmokeRunRecords ==
    ASSUME RecordsInv, NEW valid \in BOOLEAN, SmokeRun(valid)
    PROVE  RecordsInv'
<1>1. InBody /\ job.task = SmokeTask /\ pc # "finish" /\ JobOK /\ StageOK
  BY Kinds DEF SmokeRun, RecordsInv, InBody, SmokeBody, StageOK, At
<1>2. \/ Outcome(None) /\ smokeDir' = smokeDir
      \/ Outcome(smokeDir.xml) /\ smokeDir' = [smokeDir EXCEPT !.report = TRUE]
  BY DEF SmokeRun
<1>3. JobOK' /\ StageOK' /\ InBody' /\ job'.task = job.task /\ pc' = "finish"
      /\ job'.request = job.request
  BY <1>1, <1>2, BodyControl
<1>4. UNCHANGED <<store, input, env, interrupted, cleaned, runs, perf, baseIndex, remote, summary>>
  BY DEF SmokeRun, user
<1>5. /\ RunningOK' /\ BodyOK' /\ CleanedOK' /\ PassedIsComplete'
  BY <1>1, <1>3, <1>4, BodyStep
<1>6. smokeDir' \in [xml : Versions \cup {None}, report : BOOLEAN]
  BY <1>2 DEF RecordsInv, TypeOK
<1>7. TypeOK' /\ ReadingsOK' /\ FilesOK'
  BY <1>3, <1>4, <1>6 DEF RecordsInv, TypeOK, ReadingsOK, FilesOK
<1>8. MadeOK'
  <2>1. CASE Outcome(None)
    BY <2>1, <1>1 DEF MadeOK, Outcome, JobOK, NoJob
  <2>2. CASE Outcome(smokeDir.xml) /\ smokeDir' = [smokeDir EXCEPT !.report = TRUE]
    <3>1. job'.made = smokeDir.xml /\ smokeDir'.xml = smokeDir.xml /\ smokeDir'.report = TRUE
      BY <2>2, <1>1 DEF Outcome, JobOK, NoJob, RecordsInv, TypeOK
    <3>2. job'.task[1] = "smoke" /\ job'.task \notin PerfTasks
      BY <1>1, <1>3, Kinds, TaskKind
    <3>3. job'.made # None => job'.made \in DigestedOutput(job'.task)
      BY <1>1, <1>3, <3>1, <3>2 DEF DigestedOutput, RecordsInv, TypeOK
    <3> QED
      BY <3>1, <3>2, <3>3 DEF MadeOK, Complete
  <2> QED
    BY <1>2, <2>1, <2>2
<1> QED
  BY <1>3, <1>5, <1>7, <1>8 DEF RecordsInv

LEMMA SolveLayoutRecords == ASSUME RecordsInv, SolveLayout PROVE RecordsInv'
<1> DEFINE c == job.task[2]
<1>1. InBody /\ job.task \in SolveTasks /\ pc # "finish" /\ JobOK /\ StageOK
  BY Kinds DEF SolveLayout, RecordsInv, InBody, SolveBody, StageOK, At
<1>2. \/ Outcome(None) /\ runs' = runs
      \/ Goto("solve.execute") /\ runs' = [runs EXCEPT ![c].root = TRUE]
  BY DEF SolveLayout
<1>3. JobOK' /\ StageOK' /\ InBody' /\ job'.task = job.task
      /\ job'.request = job.request
  BY <1>1, <1>2, BodyControl DEF SolveLayout, SolveBody
<1>4. UNCHANGED <<store, input, env, interrupted, cleaned, perf, smokeDir, baseIndex, remote, summary>>
  BY DEF SolveLayout, user
<1>5. c \in Cases /\ job.task = SolveTask(c)
  BY <1>1, SolveKind
<1>6. \A d \in Cases : job.task # SolveTask(d) => runs'[d] = runs[d]
  BY <1>2, <1>5 DEF RecordsInv, TypeOK
<1>7. /\ RunningOK' /\ BodyOK' /\ CleanedOK' /\ PassedIsComplete'
  BY <1>1, <1>3, <1>4, <1>6, BodyStep
<1>8. TypeOK'
  <2>1. runs \in [Cases -> RunDir] /\ \A d \in Cases : runs[d].xml # None => runs[d].root
    BY DEF RecordsInv, TypeOK, RunDir
  <2> HIDE DEF c
  <2>2. runs'[c] \in RunDir /\ (runs'[c].xml # None => runs'[c].root)
    <3>1. CASE runs' = runs
      BY <3>1, <1>5, <2>1
    <3>2. CASE runs' = [runs EXCEPT ![c].root = TRUE]
      <4>1. runs'[c] = [runs[c] EXCEPT !.root = TRUE] /\ runs[c] \in RunDir
        BY <3>2, <1>5, <2>1
      <4> QED
        BY <4>1 DEF RunDir
    <3> QED
      BY <1>2, <3>1, <3>2
  <2>3. runs' \in [Cases -> RunDir]
    BY <1>2, <1>5, <2>1, <2>2
  <2>4. \A d \in Cases : runs'[d].xml # None => runs'[d].root
    BY <1>5, <1>6, <2>1, <2>2, Kinds
  <2> QED
    BY <1>4, <2>3, <2>4 DEF RecordsInv, TypeOK, RunDir
<1>9. ReadingsOK'
  BY <1>4 DEF RecordsInv, ReadingsOK
<1>10. FilesOK' /\ MadeOK'
  <2>1. CASE Outcome(None)
    BY <2>1, <1>1 DEF FilesOK, MadeOK, Outcome, JobOK, NoJob
  <2>2. CASE Goto("solve.execute") /\ runs' = [runs EXCEPT ![c].root = TRUE]
    <3>1. runs'[c].root
      BY <2>2, <1>5 DEF RecordsInv, TypeOK
    <3> QED
      BY <2>2, <1>3, <3>1 DEF FilesOK, MadeOK, Goto
  <2> QED
    BY <1>2, <2>1, <2>2
<1> QED
  BY <1>3, <1>7, <1>8, <1>9, <1>10 DEF RecordsInv

\* A step of execute_solve: it may change the run directory of its case.
LEMMA SolveStep ==
    ASSUME RecordsInv, pc \in {"solve.execute", "solve.report"}, NEW content,
           Outcome(content) \/ Goto("solve.report"),
           UNCHANGED <<store, perf, smokeDir, baseIndex, remote, summary, interrupted, user>>,
           NEW d \in RunDir, d.root, runs' = [runs EXCEPT ![job.task[2]] = d],
           Goto("solve.report") => d.xml \in Xmls,
           Outcome(content) /\ content # None =>
               content = d.xml /\ d.xml \in Xmls /\ ReportIsValid(d.report)
    PROVE  RecordsInv'
<1> DEFINE c == job.task[2]
<1>1. InBody /\ job.task \in SolveTasks /\ pc # "finish" /\ JobOK /\ StageOK /\ pc \in SolveBody
  BY Kinds DEF RecordsInv, InBody, SolveBody, StageOK, At
<1>2. /\ JobOK' /\ StageOK' /\ InBody' /\ job'.task = job.task /\ job'.request = job.request
      /\ Outcome(content) => pc' = "finish" /\ job'.made = content
  BY <1>1, BodyControl DEF SolveBody
<1>3. UNCHANGED <<store, input, env, interrupted, cleaned, perf, smokeDir, baseIndex, remote, summary>>
  BY DEF user
<1>4. c \in Cases /\ job.task = SolveTask(c) /\ runs \in [Cases -> RunDir]
  BY <1>1, SolveKind DEF RecordsInv, TypeOK, RunDir
<1> HIDE DEF c
<1>5. /\ \A e \in Cases : job.task # SolveTask(e) => runs'[e] = runs[e]
      /\ runs'[c] = d /\ runs' \in [Cases -> RunDir]
  BY <1>4 DEF c
<1>6. /\ RunningOK' /\ BodyOK' /\ CleanedOK' /\ PassedIsComplete'
  BY <1>1, <1>2, <1>3, <1>5, BodyStep
<1>7. TypeOK'
  <2>1. \A e \in Cases : runs'[e].xml # None => runs'[e].root
    BY <1>4, <1>5, Kinds DEF RecordsInv, TypeOK
  <2> QED
    BY <1>3, <1>5, <2>1 DEF RecordsInv, TypeOK, RunDir
<1>8. ReadingsOK'
  BY <1>3 DEF RecordsInv, ReadingsOK
<1>9. FilesOK' /\ MadeOK'
  <2>1. CASE Outcome(content)
    <3>1. pc' = "finish" /\ job'.made = content /\ job'.task = SolveTask(c)
      BY <2>1, <1>2, <1>4
    <3>2. SolveTask(c)[1] = "solve" /\ SolveTask(c)[2] = c /\ SolveTask(c) \notin PerfTasks
          /\ SolveTask(c) # SmokeTask
      BY <1>4, Kinds, TaskKind
    <3>3. content # None => content \in DigestedOutput(SolveTask(c))
      BY <2>1, <3>2 DEF DigestedOutput
    <3>4. content # None => /\ runs'[c].xml = content
                            /\ ReportIsValid(runs'[c].report)
      BY <2>1, <1>5
    <3>5. FilesOK'
      BY <3>1 DEF FilesOK
    <3>6. job'.made # None => Complete(job.task, job.made)'
      BY <3>1, <3>2, <3>4 DEF Complete, ReportIsValid
    <3>7. job'.made # None => job'.made \in DigestedOutput(job'.task)
      BY <3>1, <3>3
    <3> QED
      BY <3>1, <3>2, <3>5, <3>6, <3>7 DEF MadeOK
  <2>2. CASE Goto("solve.report")
    <3>1. pc' = "solve.report" /\ job'.task[2] = c
      BY <2>2, <1>2 DEF Goto, c
    <3> QED
      BY <2>2, <3>1, <1>5 DEF FilesOK, MadeOK
  <2> QED
    BY <2>1, <2>2
<1> QED
  BY <1>2, <1>6, <1>7, <1>8, <1>9 DEF RecordsInv

LEMMA SolveRunDir ==
    ASSUME RecordsInv, pc \in {"solve.execute", "solve.report"}
    PROVE  LET c == job.task[2]
           IN /\ c \in Cases /\ runs \in [Cases -> RunDir] /\ runs[c] \in RunDir
              /\ runs[c].root /\ (pc = "solve.report" => runs[c].xml \in Xmls)
<1>1. InBody /\ job.task \in SolveTasks
  BY Kinds DEF RecordsInv, InBody, SolveBody, StageOK, At
<1>2. job.task[2] \in Cases /\ runs \in [Cases -> RunDir]
  BY <1>1, SolveKind DEF RecordsInv, TypeOK, RunDir
<1> QED
  BY <1>2 DEF RecordsInv, FilesOK

LEMMA SolveXmlRecords ==
    ASSUME RecordsInv, NEW k \in Programs, SolveXml(k)
    PROVE  RecordsInv'
<1> DEFINE c == job.task[2]
           xml == [case |-> c, input |-> input[c], program |-> k]
           d == [runs[c] EXCEPT !.xml = xml]
<1>1. pc = "solve.execute" /\ Goto("solve.report") /\ runs' = [runs EXCEPT ![c].xml = xml]
  BY DEF SolveXml
<1>2. UNCHANGED <<store, perf, smokeDir, baseIndex, remote, summary, interrupted, user>>
  BY DEF SolveXml
<1>3. c \in Cases /\ runs \in [Cases -> RunDir] /\ runs[c] \in RunDir /\ runs[c].root
  BY <1>1, SolveRunDir
<1>4. xml \in Xmls
  BY <1>3, VersionFacts DEF Xmls, Versions, RecordsInv, TypeOK
<1>5. ~Outcome(None)
  BY <1>1 DEF Outcome, Goto
<1> HIDE DEF xml
<1>6. d \in RunDir /\ d.root /\ d.xml = xml
  BY <1>3, <1>4 DEF RunDir
<1>7. runs' = [runs EXCEPT ![c] = d]
  BY <1>1, <1>3
<1> HIDE DEF d
<1> QED
  BY <1>1, <1>2, <1>4, <1>5, <1>6, <1>7, SolveStep

LEMMA SolveReportRecords ==
    ASSUME RecordsInv, NEW report \in Reports, NEW rest \in BOOLEAN, SolveReport(report, rest)
    PROVE  RecordsInv'
<1> DEFINE c == job.task[2]
           d == [runs[c] EXCEPT !.report = report]
           made == IF ReportIsValid(report) /\ rest THEN runs[c].xml ELSE None
<1>1. pc = "solve.report" /\ Outcome(made) /\ runs' = [runs EXCEPT ![c].report = report]
  BY DEF SolveReport
<1>2. UNCHANGED <<store, perf, smokeDir, baseIndex, remote, summary, interrupted, user>>
  BY DEF SolveReport
<1>3. /\ c \in Cases /\ runs \in [Cases -> RunDir] /\ runs[c] \in RunDir /\ runs[c].root
      /\ runs[c].xml \in Xmls
  BY <1>1, SolveRunDir
<1>4. ~Goto("solve.report")
  BY <1>1 DEF Outcome, Goto
<1>5. d \in RunDir /\ d.root /\ d.xml = runs[c].xml /\ d.report = report
  BY <1>3 DEF RunDir
<1>6. runs' = [runs EXCEPT ![c] = d]
  BY <1>1, <1>3
<1>7. made # None => made = runs[c].xml /\ ReportIsValid(report)
  OBVIOUS
<1> HIDE DEF d, made
<1> QED
  BY <1>1, <1>2, <1>3, <1>4, <1>5, <1>6, <1>7, SolveStep

\* A step of benchmark_xml: it may change the files of its task and the copy
\* on the remote host.
LEMMA BenchStep ==
    ASSUME RecordsInv, pc \in BenchBody, NEW content, NEW label \in BenchBody,
           Outcome(content) \/ Goto(label),
           UNCHANGED <<store, runs, smokeDir, baseIndex, summary, interrupted, user>>,
           perf' \in [PerfTasks -> PerfDir],
           \A t \in PerfTasks : job.task # t => perf'[t] = perf[t],
           perf'[job.task].files >= 5 => perf'[job.task].reading \in ReadingRecords,
           remote' \in [PerfTasks -> Xmls \cup {None}],
           MadeOK', FilesOK'
    PROVE  RecordsInv'
<1>1. InBody /\ job.task \in PerfTasks /\ pc # "finish" /\ JobOK /\ StageOK
  BY Kinds DEF RecordsInv, InBody, BenchBody, StageOK, At
<1>2. JobOK' /\ StageOK' /\ InBody' /\ job'.task = job.task
      /\ job'.request = job.request
  BY <1>1, BodyControl
<1>3. UNCHANGED <<input, env, cleaned>>
  BY DEF user
<1>4. /\ RunningOK' /\ BodyOK' /\ CleanedOK' /\ PassedIsComplete'
  BY <1>1, <1>2, <1>3, BodyStep
<1>5. TypeOK'
  BY <1>3 DEF RecordsInv, TypeOK, PerfDir
<1>6. ReadingsOK'
  <2> SUFFICES ASSUME NEW t \in PerfTasks
               PROVE  /\ perf'[t].files >= 5 => perf'[t].reading \in ReadingRecords
                      /\ Passed(store[t]) => ReadingOf(store[t].output, store[t].input)
    BY DEF ReadingsOK, Passed, ReadingOf
  <2>1. CASE t = job.task
    BY <2>1 DEF RecordsInv, ReadingsOK
  <2>2. CASE t # job.task
    BY <2>2 DEF RecordsInv, ReadingsOK
  <2> QED
    BY <2>1, <2>2
<1> QED
  BY <1>2, <1>4, <1>5, <1>6 DEF RecordsInv

LEMMA PerfUpdate ==
    ASSUME RecordsInv, NEW t \in PerfTasks, NEW d \in PerfDir, perf' = [perf EXCEPT ![t] = d]
    PROVE  /\ perf' \in [PerfTasks -> PerfDir] /\ perf'[t] = d
           /\ \A u \in PerfTasks : t # u => perf'[u] = perf[u]
  BY DEF RecordsInv, TypeOK, PerfDir

\* Publish refuses or adds one file; the reading of the task stays.
LEMMA PublishStep ==
    ASSUME RecordsInv, pc \in BenchBody, NEW file \in {1, 2, 5}, NEW label \in BenchBody,
           Publish(file, label),
           file = 5 => perf[job.task].reading \in ReadingRecords,
           label \notin {"bench.launch", "bench.measurements"},
           label = "bench.activation" => pc = "bench.measurements",
           UNCHANGED <<store, runs, smokeDir, baseIndex, remote, summary, interrupted, user>>
    PROVE  RecordsInv'
<1> DEFINE t == job.task
<1>1. t \in PerfTasks /\ JobOK /\ InBody
  BY Kinds DEF RecordsInv, InBody, BenchBody, StageOK, At
<1>2. perf \in [PerfTasks -> PerfDir] /\ perf[t] \in PerfDir
  BY <1>1 DEF RecordsInv, TypeOK, PerfDir
<1>3. remote' \in [PerfTasks -> Xmls \cup {None}]
  BY DEF RecordsInv, TypeOK
<1>4. CASE Outcome(None) /\ perf' = perf
  <2>1. pc' = "finish" /\ job'.made = None
    BY <1>1, <1>4 DEF Outcome, JobOK, NoJob
  <2>2. MadeOK' /\ FilesOK'
    BY <2>1 DEF MadeOK, FilesOK
  <2>3. perf'[t].files >= 5 => perf'[t].reading \in ReadingRecords
    BY <1>1, <1>4 DEF RecordsInv, ReadingsOK
  <2> QED
    BY <1>2, <1>3, <1>4, <2>2, <2>3, BenchStep
<1>5. CASE Goto(label) /\ perf' = [perf EXCEPT ![t].files = file]
  <2> DEFINE d == [perf[t] EXCEPT !.files = file]
  <2>1. d \in PerfDir /\ d.files = file /\ d.reading = perf[t].reading
    BY <1>2 DEF PerfDir
  <2>2. perf' = [perf EXCEPT ![t] = d]
    BY <1>1, <1>2, <1>5
  <2> HIDE DEF d
  <2>3. /\ perf' \in [PerfTasks -> PerfDir] /\ perf'[t] = d
        /\ \A u \in PerfTasks : t # u => perf'[u] = perf[u]
    BY <1>1, <2>1, <2>2, PerfUpdate
  <2>4. pc' = label /\ job' = job
    BY <1>5 DEF Goto
  <2>5. MadeOK'
    BY <2>4 DEF MadeOK, BenchBody
  <2>6. FilesOK'
    <3>1. BenchmarkInput(t)' = BenchmarkInput(t) /\ env' = env
      BY <1>1, <2>4, InputSame DEF user
    <3>2. label = "bench.activation" => /\ ReadingOf(perf'[t].reading, BenchmarkInput(t))
                                        /\ perf'[t].reading.env = env
      BY <2>1, <2>3 DEF RecordsInv, FilesOK
    <3> QED
      BY <2>4, <3>1, <3>2 DEF FilesOK, ReadingOf, BenchBody
  <2>7. perf'[t].files >= 5 => perf'[t].reading \in ReadingRecords
    BY <2>1, <2>3
  <2> QED
    BY <1>3, <1>5, <2>3, <2>5, <2>6, <2>7, BenchStep
<1> QED
  BY <1>4, <1>5 DEF Publish

LEMMA PublishRecords ==
    ASSUME RecordsInv, BenchCommand \/ BenchEnvironment \/ BenchMeasurements
    PROVE  RecordsInv'
<1>1. CASE BenchCommand
  BY <1>1, PublishStep DEF BenchCommand, BenchBody
<1>2. CASE BenchEnvironment
  BY <1>2, PublishStep DEF BenchEnvironment, BenchBody
<1>3. CASE BenchMeasurements
  <2>1. pc = "bench.measurements" /\ perf[job.task].reading \in ReadingRecords
    BY <1>3 DEF BenchMeasurements, RecordsInv, FilesOK, ReadingOf
  <2> QED
    BY <1>3, <2>1, PublishStep DEF BenchMeasurements, BenchBody
<1> QED
  BY <1>1, <1>2, <1>3

LEMMA BenchXmlType ==
    ASSUME TypeOK, NEW t \in PerfTasks
    PROVE  BenchmarkXml(t) \in Xmls \cup {None}
<1>1. CASE t[1] = "perf"
  <2>1. t[2] \in Cases
    BY <1>1, PerfKind
  <2> QED
    BY <1>1, <2>1 DEF BenchmarkXml, TypeOK
<1>2. CASE t[1] # "perf"
  <2>1. t[2] \in Range(Baselines)
    BY <1>2, PerfKind
  <2>2. BaselineXml(t[2]) \in Xmls
    BY <2>1, VersionFacts DEF BaselineXml, Xmls
  <2> QED
    BY <1>2, <2>2 DEF BenchmarkXml
<1> QED
  BY <1>1, <1>2

LEMMA UploadRecords ==
    ASSUME RecordsInv, NEW ok \in BOOLEAN, Upload(ok)
    PROVE  RecordsInv'
<1> DEFINE t == job.task
<1>1. t \in PerfTasks /\ JobOK /\ pc \in BenchBody /\ TypeOK
  BY Kinds DEF RecordsInv, Upload, InBody, BenchBody, StageOK, At
<1>2. /\ perf' = perf /\ perf' \in [PerfTasks -> PerfDir]
      /\ perf'[t].files >= 5 => perf'[t].reading \in ReadingRecords
  BY <1>1 DEF RecordsInv, TypeOK, PerfDir, ReadingsOK, Upload
<1>3. UNCHANGED <<store, runs, smokeDir, baseIndex, summary, interrupted, user>>
  BY DEF Upload
<1>4. CASE Outcome(None) /\ remote' = remote
  <2>1. pc' = "finish" /\ job'.made = None
    BY <1>1, <1>4 DEF Outcome, JobOK, NoJob
  <2>2. MadeOK' /\ FilesOK'
    BY <2>1 DEF MadeOK, FilesOK
  <2>3. remote' \in [PerfTasks -> Xmls \cup {None}]
    BY <1>1, <1>4 DEF TypeOK
  <2> QED
    BY <1>1, <1>2, <1>3, <1>4, <2>2, <2>3, BenchStep DEF BenchBody
<1>5. CASE Goto("bench.launch") /\ remote' = [remote EXCEPT ![t] = BenchmarkXml(t)]
  <2>1. remote' \in [PerfTasks -> Xmls \cup {None}] /\ remote'[t] = BenchmarkXml(t)
    BY <1>1, <1>5, BenchXmlType DEF TypeOK
  <2>2. pc' = "bench.launch" /\ job' = job
    BY <1>5 DEF Goto
  <2>3. BenchmarkXml(t)' = BenchmarkXml(t)
    BY <1>3, <2>2 DEF BenchmarkXml
  <2>4. MadeOK' /\ FilesOK'
    BY <2>1, <2>2, <2>3 DEF MadeOK, FilesOK
  <2> QED
    BY <1>1, <1>2, <1>3, <1>5, <2>1, <2>4, BenchStep DEF BenchBody
<1> QED
  BY <1>4, <1>5 DEF Upload

LEMMA PerfDirUpdate ==
    ASSUME NEW e \in PerfDir, NEW r \in ReadingRecords \cup {None}
    PROVE  [e EXCEPT !.files = 4, !.reading = r] \in PerfDir
<1> DEFINE f == [e EXCEPT !.files = 4]
           g == [f EXCEPT !.reading = r]
<1>1. f \in PerfDir
  BY DEF PerfDir
<1> HIDE DEF f
<1>2. g \in PerfDir
  BY <1>1 DEF PerfDir
<1>3. g = [e EXCEPT !.files = 4, !.reading = r]
  BY DEF f
<1> QED
  BY <1>2, <1>3

LEMMA LaunchRecords ==
    ASSUME RecordsInv, NEW table \in Tables \cup {None}, Launch(table)
    PROVE  RecordsInv'
<1> DEFINE t == job.task
           r == IF table = None THEN None
                ELSE [xmls |-> {BenchmarkXml(t), remote[t]}, env |-> env, table |-> table]
           d == [perf[t] EXCEPT !.files = 4, !.reading = r]
<1>1. t \in PerfTasks /\ JobOK /\ pc \in BenchBody /\ TypeOK
  BY Kinds DEF RecordsInv, Launch, InBody, BenchBody, StageOK, At
<1>2. perf \in [PerfTasks -> PerfDir] /\ perf[t] \in PerfDir
  BY <1>1 DEF TypeOK, PerfDir
<1>3. UNCHANGED <<store, runs, smokeDir, baseIndex, remote, summary, interrupted, user>>
  BY DEF Launch
<1>4. table # None => r \in ReadingRecords /\ r.xmls = {BenchmarkXml(t)} /\ r.env = env
  <2>1. remote[t] = BenchmarkXml(t) /\ BenchmarkXml(t) \in Xmls \cup {None}
    BY <1>1, BenchXmlType DEF RecordsInv, FilesOK, Launch
  <2>2. env \in Environments
    BY <1>1 DEF TypeOK
  <2> QED
    BY <2>1, <2>2 DEF ReadingRecords
<1>5. d.files = 4 /\ d.reading = r /\ perf' = [perf EXCEPT ![t] = d]
  BY <1>1, <1>2 DEF Launch, PerfDir
<1> HIDE DEF r
<1>6. d \in PerfDir
  <2>1. r \in ReadingRecords \cup {None}
    BY <1>4 DEF r
  <2> QED
    BY <1>2, <2>1, PerfDirUpdate
<1> HIDE DEF d
<1>7. /\ perf' \in [PerfTasks -> PerfDir] /\ perf'[t] = d
      /\ \A u \in PerfTasks : t # u => perf'[u] = perf[u]
  BY <1>1, <1>5, <1>6, PerfUpdate
<1>8. ~(perf'[t].files >= 5) /\ remote' \in [PerfTasks -> Xmls \cup {None}]
  BY <1>1, <1>3, <1>5, <1>7 DEF TypeOK
<1>9. CASE Outcome(None)
  <2>1. pc' = "finish" /\ job'.made = None
    BY <1>1, <1>9 DEF Outcome, JobOK, NoJob
  <2>2. MadeOK' /\ FilesOK'
    BY <2>1 DEF MadeOK, FilesOK
  <2> QED
    BY <1>1, <1>3, <1>7, <1>8, <1>9, <2>2, BenchStep
<1>10. CASE table # None /\ Goto("bench.measurements")
  <2>1. pc' = "bench.measurements" /\ job' = job
    BY <1>10 DEF Goto
  <2>2. BenchmarkInput(t)' = BenchmarkInput(t) /\ env' = env
    BY <1>1, <1>3, <2>1, InputSame DEF user
  <2>3. ReadingOf(perf'[t].reading, BenchmarkInput(t)) /\ perf'[t].reading.env = env
    BY <1>4, <1>5, <1>7, <1>10 DEF ReadingOf, BenchmarkInput
  <2>4. (ReadingOf(perf[t].reading, BenchmarkInput(t)) /\ perf[t].reading.env = env)'
    BY <2>1, <2>2, <2>3 DEF ReadingOf
  <2>5. MadeOK' /\ FilesOK'
    BY <2>1, <2>4 DEF MadeOK, FilesOK
  <2> QED
    BY <1>1, <1>3, <1>7, <1>8, <1>10, <2>5, BenchStep DEF BenchBody
<1> QED
  BY <1>9, <1>10 DEF Launch

LEMMA BenchActivationRecords == ASSUME RecordsInv, BenchActivation PROVE RecordsInv'
<1> DEFINE t == job.task
           d == [perf[t] EXCEPT !.files = 6]
<1>1. t \in PerfTasks /\ JobOK /\ pc \in BenchBody /\ TypeOK
  BY Kinds DEF RecordsInv, BenchActivation, InBody, BenchBody, StageOK, At
<1>2. perf \in [PerfTasks -> PerfDir] /\ perf[t] \in PerfDir
  BY <1>1 DEF TypeOK, PerfDir
<1>3. UNCHANGED <<store, runs, smokeDir, baseIndex, remote, summary, interrupted, user>>
  BY DEF BenchActivation
<1>4. d \in PerfDir /\ d.files = 6 /\ d.reading = perf[t].reading
  BY <1>2 DEF PerfDir
<1>5. perf' = [perf EXCEPT ![t] = d]
  BY <1>1, <1>2 DEF BenchActivation
<1> HIDE DEF d
<1>6. /\ perf' \in [PerfTasks -> PerfDir] /\ perf'[t] = d
      /\ \A u \in PerfTasks : t # u => perf'[u] = perf[u]
  BY <1>1, <1>4, <1>5, PerfUpdate
<1>7. ReadingOf(perf[t].reading, BenchmarkInput(t)) /\ perf[t].reading.env = env
  BY DEF RecordsInv, FilesOK, BenchActivation
<1>8. /\ pc' = "finish" /\ job'.made = perf[t].reading /\ job'.task = t
      /\ job'.request = job.request
  BY <1>1 DEF BenchActivation, Outcome, JobOK, NoJob
<1>9. BenchmarkInput(t)' = BenchmarkInput(t) /\ env' = env
  BY <1>1, <1>3, <1>8, InputSame DEF user
<1>10. MadeOK'
  <2>1. (ReadingOf(job.made, BenchmarkInput(job.task)) /\ job.made.env = env)'
    BY <1>7, <1>8, <1>9 DEF ReadingOf
  <2>2. job'.made \in DigestedOutput(job.task)'
    BY <1>1, <1>7, <1>8 DEF DigestedOutput, ReadingOf
  <2>3. Complete(job.task, job.made)'
    <3>1. t[1] \notin {"solve", "smoke"}
      BY <1>1, TaskKind
    <3> QED
      BY <1>4, <1>6, <1>8, <3>1 DEF Complete
  <2> QED
    BY <2>1, <2>2, <2>3 DEF MadeOK
<1>11. FilesOK' /\ remote' \in [PerfTasks -> Xmls \cup {None}]
  BY <1>1, <1>3, <1>8 DEF FilesOK, TypeOK
<1>12. perf'[t].reading \in ReadingRecords
  BY <1>4, <1>6, <1>7 DEF ReadingOf
<1> QED
  BY <1>1, <1>3, <1>6, <1>10, <1>11, <1>12, BenchStep DEF BenchActivation

-----------------------------------------------------------------------------
(* Beginning and ending a task *)

LEMMA StatusFacts == DOMAIN Successors = {"pending", "running", "passed", "failed", "skipped"}
  BY DEF Successors

LEMMA ClosedFacts ==
    ASSUME RecordsInv, pc = "finish"
    PROVE  LET t == job.task
               rec == Closed(job.made, store[t].input)
           IN /\ t \in Tasks /\ InBody /\ rec \in TaskRecord(t) /\ rec # None
              /\ rec.status = IF job.made = None THEN "failed" ELSE "passed"
              /\ rec.input = store[t].input /\ rec.output = job.made
<1> DEFINE t == job.task
           status == IF job.made = None THEN "failed" ELSE "passed"
           rec == Record(status, store[t].input, job.made)
<1>1. InBody /\ t \in Tasks
  BY TaskKind DEF RecordsInv, InBody, StageOK
<1>2. rec.status = status /\ rec.input = store[t].input /\ rec.output = job.made
  BY DEF Record
<1>3. rec \in TaskRecord(t)
  <2>1. store[t] \in TaskRecord(t)
    BY <1>1 DEF RecordsInv, BodyOK, TypeOK
  <2>2. job.made \in DigestedOutput(t) \cup {None}
    BY DEF RecordsInv, MadeOK
  <2>3. status \in DOMAIN Successors
    BY StatusFacts
  <2> HIDE DEF status
  <2> QED
    BY <2>1, <2>2, <2>3 DEF TaskRecord, Record
<1>4. rec # None
  BY <1>1, <1>3, NoneAssumption
<1>5. rec = Closed(job.made, store[t].input)
  BY DEF Closed
<1> HIDE DEF rec
<1> QED
  BY <1>1, <1>2, <1>3, <1>4, <1>5

\* The final record of the task under way is put.
LEMMA CloseRecords ==
    ASSUME RecordsInv, pc = "finish", NEW rec, rec = Closed(job.made, store[job.task].input),
           store' = [store EXCEPT ![job.task] = rec],
           UNCHANGED <<files, input, env, cleaned, interrupted>>, JobOK', StageOK', ~InBody'
    PROVE  RecordsInv'
<1> DEFINE t == job.task
<1>1. t \in Tasks /\ InBody /\ TypeOK
  BY ClosedFacts DEF RecordsInv
<1>2. /\ rec \in TaskRecord(t) /\ rec.input = store[t].input /\ rec.output = job.made
      /\ rec.status = IF job.made = None THEN "failed" ELSE "passed"
  BY ClosedFacts
<1>3. \A u \in Tasks : store'[u] = IF u = t THEN rec ELSE store[u]
  BY <1>1 DEF TypeOK
<1>4. TypeOK'
  <2>1. DOMAIN store' = Tasks /\ \A u \in Tasks : store'[u] \in TaskRecord(u) \cup {None}
    BY <1>1, <1>2, <1>3 DEF TypeOK
  <2> QED
    BY <1>1, <2>1 DEF TypeOK, files
<1>5. RunningOK'
  BY <1>1, <1>2, <1>3 DEF RecordsInv, RunningOK
<1>6. ReadingsOK'
  <2> SUFFICES ASSUME NEW u \in PerfTasks
               PROVE  /\ perf'[u].files >= 5 => perf'[u].reading \in ReadingRecords
                      /\ Passed(store'[u]) => ReadingOf(store'[u].output, store'[u].input)
    BY DEF ReadingsOK, Passed, ReadingOf
  <2>1. perf' = perf /\ u \in Tasks
    BY TaskKind DEF files
  <2>2. CASE u = t
    <3>1. store'[u] = rec
      BY <1>3, <2>1, <2>2
    <3>2. Passed(rec) => job.made # None
      BY <1>2 DEF Passed
    <3>3. job.made # None => ReadingOf(job.made, BenchmarkInput(t))
      BY <1>1, <2>2 DEF RecordsInv, MadeOK
    <3>4. rec.input = BenchmarkInput(t)
      BY <1>1, <1>2, <2>2 DEF RecordsInv, BodyOK
    <3> QED
      BY <1>2, <2>1, <3>1, <3>2, <3>3, <3>4 DEF RecordsInv, ReadingsOK
  <2>3. CASE u # t
    BY <1>3, <2>1, <2>3 DEF RecordsInv, ReadingsOK
  <2> QED
    BY <2>2, <2>3
<1>7. CleanedOK'
  BY DEF RecordsInv, CleanedOK, files
<1>8. PassedIsComplete'
  <2> SUFFICES ASSUME NEW u \in Tasks, u \notin cleaned, Passed(store'[u])
               PROVE  Complete(u, store'[u].output)
    BY DEF PassedIsComplete, Complete, ReportIsValid, Passed, files
  <2>1. CASE u = t
    BY <1>1, <1>2, <1>3, <2>1 DEF RecordsInv, MadeOK, Passed
  <2>2. CASE u # t
    BY <1>3, <2>2 DEF RecordsInv, PassedIsComplete, Complete
  <2> QED
    BY <2>1, <2>2
<1>9. BodyOK' /\ FilesOK' /\ MadeOK'
  BY DEF BodyOK, FilesOK, MadeOK, InBody, SolveBody, BenchBody
<1> QED
  BY <1>4, <1>5, <1>6, <1>7, <1>8, <1>9 DEF RecordsInv

LEMMA FinishRecords == ASSUME RecordsInv, Finish PROVE RecordsInv'
<1>1. InBody /\ JobOK /\ StageOK /\ pc = "finish" /\ pc' = "next" /\ ~InBody'
  BY DEF RecordsInv, Finish, InBody, SmokeBody, SolveBody, BenchBody
<1>2. UNCHANGED <<files, interrupted, input, env, cleaned>>
  BY DEF Finish, user
<1>3. /\ DOMAIN job' = DOMAIN job /\ job'.todo = job.todo /\ job'.queue = job.queue
      /\ job'.request = job.request /\ job'.exit = job.exit /\ job'.made = None
      /\ job'.ok \in BOOLEAN /\ job'.seen = job.seen
  BY <1>1 DEF Finish, JobOK, NoJob
<1>4. JobOK'
  BY <1>1, <1>3 DEF JobOK, Labels
<1>5. StageOK'
  <2>1. \A x : At(x)' = At(x)
    BY <1>1, <1>3 DEF At
  <2> QED
    BY <1>1, <1>3, <2>1 DEF StageOK, SmokeBody, SolveBody, BenchBody
<1>6. store' = [store EXCEPT ![job.task] = Closed(job.made, store[job.task].input)]
  BY DEF Finish, Put
<1> QED
  BY <1>1, <1>2, <1>4, <1>5, <1>6, CloseRecords

LEMMA StartRecords ==
    ASSUME RecordsInv, ~InBody, NEW t \in Tasks, NEW in \in DigestedInput(t),
           NEW label \in {"smoke.xml", "solve.layout", "bench.command"},
           Start(t, in, label), UNCHANGED files, JobOK', StageOK', job'.task = t,
           job'.request = job.request,
           t \in SolveTasks => in = input[t[2]],
           t \in PerfTasks => in = BenchmarkInput(t)
    PROVE  RecordsInv'
<1> DEFINE rec == Record("running", in, None)
<1>1. /\ store' = [store EXCEPT ![t] = rec] /\ pc' = label
      /\ interrupted' = interrupted \ {t} /\ cleaned' = cleaned \ {t}
      /\ UNCHANGED <<input, env, runs, perf, smokeDir, baseIndex, remote, summary>>
  BY DEF Start, Put, files
<1>2. rec.status = "running" /\ rec.input = in /\ rec.output = None
  BY DEF Record
<1>3. rec \in TaskRecord(t) /\ rec # None
  BY StatusFacts, NoneAssumption DEF TaskRecord, Record
<1> HIDE DEF rec
<1>4. \A u \in Tasks : store'[u] = IF u = t THEN rec ELSE store[u]
  BY <1>1 DEF RecordsInv, TypeOK
<1>5. InBody' /\ pc' # "finish"
  BY <1>1 DEF InBody, SmokeBody, SolveBody, BenchBody
<1>6. TypeOK'
  <2>1. DOMAIN store' = Tasks /\ \A u \in Tasks : store'[u] \in TaskRecord(u) \cup {None}
    BY <1>1, <1>3, <1>4 DEF RecordsInv, TypeOK
  <2>2. interrupted' \subseteq Tasks /\ cleaned' \subseteq Tasks
    BY <1>1 DEF RecordsInv, TypeOK
  <2> QED
    BY <1>1, <2>1, <2>2 DEF RecordsInv, TypeOK
<1>7. RunningOK'
  BY <1>1, <1>4, <1>5 DEF RecordsInv, RunningOK
<1>8. BodyOK'
  <2>1. store'[t] = rec
    BY <1>4
  <2>2. t \in PerfTasks => BenchmarkInput(job.task)' = BenchmarkInput(t)
    BY <1>1, InputSame
  <2>3. t \in SolveTasks => input'[job'.task[2]] = input[t[2]]
    BY <1>1
  <2> QED
    BY <1>1, <1>2, <1>3, <2>1, <2>2, <2>3 DEF BodyOK
<1>9. FilesOK' /\ MadeOK'
  BY <1>1, <1>5 DEF FilesOK, MadeOK
<1>10. ReadingsOK'
  <2> SUFFICES ASSUME NEW u \in PerfTasks
               PROVE  /\ perf'[u].files >= 5 => perf'[u].reading \in ReadingRecords
                      /\ Passed(store'[u]) => ReadingOf(store'[u].output, store'[u].input)
    BY DEF ReadingsOK, Passed, ReadingOf
  <2>1. u \in Tasks
    BY TaskKind
  <2> QED
    BY <1>1, <1>2, <1>4, <2>1 DEF RecordsInv, ReadingsOK, Passed
<1>11. CleanedOK'
  BY <1>1 DEF RecordsInv, CleanedOK
<1>12. PassedIsComplete'
  <2> SUFFICES ASSUME NEW u \in Tasks, u \notin cleaned', Passed(store'[u])
               PROVE  Complete(u, store'[u].output)
    BY <1>1 DEF PassedIsComplete, Complete, ReportIsValid, Passed
  <2>1. u # t
    BY <1>2, <1>4 DEF Passed
  <2>2. store'[u] = store[u] /\ u \notin cleaned
    BY <1>1, <1>4, <2>1
  <2> QED
    BY <2>2 DEF RecordsInv, PassedIsComplete, Complete
<1> QED
  BY <1>6, <1>7, <1>8, <1>9, <1>10, <1>11, <1>12 DEF RecordsInv

-----------------------------------------------------------------------------
(* The loops of the stages *)

LEMMA LoopControl ==
    ASSUME JobOK, pc \in {"dispatch", "next"},
           DOMAIN job' = DOMAIN job, job'.todo = job.todo, job'.request = job.request,
           job'.exit = job.exit, job'.ok = job.ok, job'.made = job.made,
           job'.queue \in Seq(Cases) \cup Seq(PerfTasks),
           At("solve") => job'.queue \in Seq(Cases),
           At("benchmark") => /\ job'.queue \in Seq(PerfTasks)
                              /\ job'.seen # None => job'.queue \in Seq(OwnTasks),
           \/ pc' = "next"
           \/ pc' = "smoke.xml" /\ At("smoke") /\ job'.task = SmokeTask
           \/ pc' = "solve.layout" /\ At("solve") /\ job'.task \in SolveTasks
           \/ pc' = "bench.command" /\ At("benchmark") /\ job'.task \in PerfTasks
    PROVE  JobOK' /\ StageOK'
<1>1. \A x : At(x)' = At(x)
  BY DEF At
<1>2. JobOK'
  BY DEF JobOK, Labels, SmokeBody, SolveBody, BenchBody
<1>3. StageOK'
  BY <1>1 DEF StageOK, InBody, SmokeBody, SolveBody, BenchBody
<1> QED
  BY <1>2, <1>3

LEMMA BeginSmokeRecords == ASSUME RecordsInv, BeginSmoke PROVE RecordsInv'
<1>1. /\ JobOK /\ StageOK /\ ~InBody /\ At("smoke") /\ pc = "dispatch"
      /\ job' = [job EXCEPT !.task = SmokeTask] /\ pc' = "smoke.xml"
  BY DEF RecordsInv, BeginSmoke, InBody, SmokeBody, SolveBody, BenchBody, At, Start
<1>2. /\ DOMAIN job' = DOMAIN job /\ job'.todo = job.todo /\ job'.request = job.request
      /\ job'.exit = job.exit /\ job'.ok = job.ok /\ job'.made = job.made
      /\ job'.queue = job.queue /\ job'.task = SmokeTask
  BY <1>1 DEF JobOK, NoJob
<1>3. JobOK' /\ StageOK'
  BY <1>1, <1>2, LoopControl DEF At, JobOK
<1>4. input[Head(CaseList)] \in DigestedInput(SmokeTask)
  BY CaseFacts, TaskKind DEF DigestedInput, RecordsInv, TypeOK
<1> QED
  BY <1>1, <1>2, <1>3, <1>4, TaskKind, StartRecords DEF BeginSmoke

LEMMA LoopStep ==
    ASSUME RecordsInv, pc = "next", pc' = "next", job' = [job EXCEPT !.queue = Tail(@)],
           job.queue # <<>>, UNCHANGED <<store, files, interrupted, user>>
    PROVE  RecordsInv'
<1>1. ~InBody /\ ~InBody' /\ JobOK /\ StageOK
  BY DEF RecordsInv, InBody, SmokeBody, SolveBody, BenchBody
<1>2. DataOK' /\ BodiesOK'
  BY <1>1, NoBody, SameData, Parts DEF user, RecordsInv
<1>3. /\ DOMAIN job' = DOMAIN job /\ job'.todo = job.todo /\ job'.request = job.request
      /\ job'.exit = job.exit /\ job'.ok = job.ok /\ job'.made = job.made
      /\ job'.queue = Tail(job.queue) /\ job'.seen = job.seen
  BY <1>1 DEF JobOK, NoJob
<1>4. /\ job.queue \in Seq(Cases) => Tail(job.queue) \in Seq(Cases)
      /\ job.queue \in Seq(PerfTasks) => Tail(job.queue) \in Seq(PerfTasks)
      /\ job.queue \in Seq(OwnTasks) => Tail(job.queue) \in Seq(OwnTasks)
  BY Queue
<1>5. JobOK' /\ StageOK'
  BY <1>1, <1>3, <1>4, LoopControl DEF JobOK, StageOK
<1> QED
  BY <1>2, <1>5, Parts

LEMMA SolveNextRecords == ASSUME RecordsInv, SolveNext PROVE RecordsInv'
<1> DEFINE c == Head(job.queue)
           t == SolveTask(c)
<1>1. /\ pc = "next" /\ job.queue # <<>> /\ At("solve") /\ ~InBody
      /\ job.queue \in Seq(Cases) /\ JobOK /\ UNCHANGED files
  BY DEF SolveNext, RecordsInv, StageOK, At, InBody, SmokeBody, SolveBody, BenchBody
<1>2. c \in Cases /\ Tail(job.queue) \in Seq(Cases)
  BY <1>1, Queue
<1>3. CASE job' = [job EXCEPT !.queue = Tail(@)] /\ UNCHANGED <<store, pc, interrupted, user>>
  BY <1>1, <1>3, LoopStep
<1>4. CASE Start(t, input[c], "solve.layout") /\ job' = [job EXCEPT !.queue = Tail(@), !.task = t]
  <2>1. /\ DOMAIN job' = DOMAIN job /\ job'.todo = job.todo /\ job'.request = job.request
        /\ job'.exit = job.exit /\ job'.ok = job.ok /\ job'.made = job.made
        /\ job'.queue = Tail(job.queue) /\ job'.task = t
    BY <1>1, <1>4 DEF JobOK, NoJob
  <2>2. pc' = "solve.layout" /\ t \in SolveTasks /\ t \in Tasks /\ t[2] = c
    BY <1>2, <1>4, TaskKind, Kinds DEF Start
  <2>3. JobOK' /\ StageOK'
    BY <1>1, <1>2, <2>1, <2>2, LoopControl DEF At
  <2>4. input[c] \in DigestedInput(t)
    BY <1>2, <2>2, TaskKind DEF DigestedInput, RecordsInv, TypeOK
  <2>5. t \notin PerfTasks
    BY <2>2, TaskKind
  <2> HIDE DEF t
  <2> QED
    BY <1>1, <1>4, <2>1, <2>2, <2>3, <2>4, <2>5, StartRecords
<1> QED
  BY <1>3, <1>4 DEF SolveNext

-----------------------------------------------------------------------------
(* The largest element of a finite set, and the rows of a report *)

LEMMA ImageFinite ==
    ASSUME NEW S, IsFiniteSet(S), NEW f
    PROVE  IsFiniteSet({f[x] : x \in S})
<1> DEFINE T == {f[x] : x \in S}
           g == [x \in S |-> f[x]]
<1>1. g \in Surjection(S, T)
  BY DEF Surjection
<1> QED
  BY <1>1, FS_Surjection

LEMMA MaxFacts ==
    ASSUME NEW S \in SUBSET Nat, IsFiniteSet(S), S # {}
    PROVE  Max(S) \in S /\ \A y \in S : y <= Max(S)
<1> DEFINE Has(T) == \E x \in T : \A y \in T : x >= y
           B == {T \in SUBSET S : T # {} /\ ~Has(T)}
<1>1. ASSUME B # {} PROVE FALSE
  <2>1. PICK T \in B : \A x \in T : T \ {x} \notin B
    <3>1. B \in SUBSET (SUBSET S) /\ B # {}
      BY <1>1
    <3> HIDE DEF B
    <3> QED
      BY <3>1, SmallestSubset
  <2>2. PICK x \in T : TRUE
    BY <2>1
  <2>3. x \in Nat /\ T \subseteq Nat
    BY <2>1, <2>2
  <2>4. CASE T \ {x} = {}
    <3>1. \A y \in T : x >= y
      BY <2>3, <2>4
    <3> QED
      BY <2>1, <2>2, <3>1
  <2>5. CASE T \ {x} # {}
    <3>1. Has(T \ {x})
      BY <2>1, <2>2, <2>5
    <3>2. PICK m \in T \ {x} : \A y \in T \ {x} : m >= y
      BY <3>1
    <3>3. CASE m >= x
      BY <2>1, <3>2, <3>3
    <3>4. CASE ~(m >= x)
      <4>1. \A y \in T : x >= y
        BY <2>3, <3>2, <3>4
      <4> QED
        BY <2>1, <2>2, <4>1
    <3> QED
      BY <3>3, <3>4
  <2> QED
    BY <2>4, <2>5
<1>2. Has(S)
  BY <1>1
<1>3. Max(S) \in S /\ \A y \in S : Max(S) >= y
  BY <1>2 DEF Max
<1> QED
  BY <1>3

LEMMA MinFacts ==
    ASSUME NEW n \in Nat, NEW S \in SUBSET (1..n), S # {}
    PROVE  Min(S) \in S /\ \A y \in S : Min(S) <= y
<1> DEFINE f == [x \in S |-> n - x]
           T == {f[x] : x \in S}
<1>1. IsFiniteSet(S)
  <2>1. 1 \in Int /\ n \in Int
    OBVIOUS
  <2>2. IsFiniteSet(1..n)
    BY <2>1, FS_Interval
  <2> QED
    BY <2>2, FS_Subset
<1>2. T \in SUBSET Nat /\ T # {}
  <2>1. \A x \in S : f[x] \in Nat
    OBVIOUS
  <2> HIDE DEF f
  <2> QED
    BY <2>1
<1>3. IsFiniteSet(T)
  <2> HIDE DEF f
  <2> QED
    BY <1>1, ImageFinite
<1>4. Max(T) \in T /\ \A y \in T : y <= Max(T)
  <2> HIDE DEF T
  <2> QED
    BY <1>2, <1>3, MaxFacts
<1>5. PICK x \in S : Max(T) = n - x
  BY <1>4
<1>6. \A y \in S : n - y <= n - x
  BY <1>4, <1>5
<1>7. \A y \in S : x <= y
  BY <1>6
<1> QED
  BY <1>7 DEF Min

LEMMA TasksFinite == IsFiniteSet(PerfTasks)
<1>1. ASSUME NEW U, NEW s \in Seq(U) PROVE IsFiniteSet(Range(s))
  <2>1. DOMAIN s = 1..Len(s) /\ Len(s) \in Nat
    BY LenProperties
  <2>2. IsFiniteSet(DOMAIN s)
    BY <2>1, FS_Interval
  <2> QED
    BY <2>2, ImageFinite DEF Range
<1>2. IsFiniteSet(Cases) /\ IsFiniteSet(Range(Baselines))
  BY <1>1, ManifestAssumption, BaselinesAssumption DEF Cases
<1>3. IsFiniteSet({PerfTask(c) : c \in Cases})
  <2> DEFINE f == [c \in Cases |-> PerfTask(c)]
  <2>1. {PerfTask(c) : c \in Cases} = {f[c] : c \in Cases}
    OBVIOUS
  <2> HIDE DEF f
  <2>2. IsFiniteSet({f[c] : c \in Cases})
    BY <1>2, ImageFinite
  <2> QED
    BY <2>1, <2>2
<1>4. IsFiniteSet({BaseTask(b) : b \in Range(Baselines)})
  <2> DEFINE f == [b \in Range(Baselines) |-> BaseTask(b)]
  <2>1. {BaseTask(b) : b \in Range(Baselines)} = {f[b] : b \in Range(Baselines)}
    OBVIOUS
  <2> HIDE DEF f
  <2>2. IsFiniteSet({f[b] : b \in Range(Baselines)})
    BY <1>2, ImageFinite
  <2> QED
    BY <2>1, <2>2
<1> QED
  BY <1>3, <1>4, FS_Union DEF PerfTasks

LEMMA RunTypes ==
    ASSUME ReadingsOK, NEW u \in Measured, NEW s \in Sizes
    PROVE  /\ u \in PerfTasks /\ perf[u].reading \in ReadingRecords
           /\ RunOf(u, s) \in Run /\ RunOf(u, s).bw \in Nat
<1>1. u \in PerfTasks /\ perf[u].reading \in ReadingRecords
  BY DEF Measured, ReadingsOK
<1>2. perf[u].reading.table \in [Sizes -> Run]
  BY <1>1, TablesAssumption DEF ReadingRecords
<1> QED
  BY <1>1, <1>2 DEF RunOf, Run

\* The baseline of a topology, a collective and a size is the largest of the
\* eligible ones, or 0.
LEMMA BestBaselineFacts ==
    ASSUME ReadingsOK, NEW p, NEW s \in Sizes
    PROVE  /\ BestBaseline(p, s) \in Nat
           /\ \A u \in Rivals(p, s) : RunOf(u, s).bw <= BestBaseline(p, s)
           /\ BestBaseline(p, s) > 0 =>
                \E u \in Rivals(p, s) : RunOf(u, s).bw = BestBaseline(p, s)
<1> DEFINE R == Rivals(p, s)
           f == [u \in R |-> RunOf(u, s).bw]
           T == {f[u] : u \in R}
           S == {0} \cup T
<1>1. R \subseteq Measured /\ R \subseteq PerfTasks /\ IsFiniteSet(R)
  BY TasksFinite, FS_Subset DEF Rivals, Measured
<1>2. \A u \in R : RunOf(u, s).bw \in Nat
  BY <1>1, RunTypes
<1>3. BestBaseline(p, s) = Max({0} \cup {RunOf(u, s).bw : u \in R})
  BY DEF BestBaseline
<1> HIDE DEF R
<1>4. T \subseteq Nat /\ T = {RunOf(u, s).bw : u \in R}
  BY <1>2
<1>5. IsFiniteSet(T)
  <2> HIDE DEF f
  <2> QED
    BY <1>1, ImageFinite
<1>6. IsFiniteSet(S) /\ S \in SUBSET Nat /\ S # {}
  <2> HIDE DEF T
  <2>0. IsFiniteSet({0})
    BY FS_Singleton, Zenon
  <2>1. IsFiniteSet({0}) /\ {0} \subseteq Nat
    BY <2>0
  <2>2. IsFiniteSet(S)
    BY <1>5, <2>1, FS_Union
  <2> QED
    BY <1>4, <2>1, <2>2
<1>7. BestBaseline(p, s) = Max(S)
  BY <1>3, <1>4
<1>8. Max(S) \in S /\ \A y \in S : y <= Max(S)
  BY <1>6, MaxFacts
<1> HIDE DEF S
<1>9. \A y : y \in S <=> y = 0 \/ \E u \in R : RunOf(u, s).bw = y
  BY <1>4 DEF S
<1>10. BestBaseline(p, s) \in Nat
  BY <1>6, <1>7, <1>8
<1>11. \A u \in R : RunOf(u, s).bw <= BestBaseline(p, s)
  BY <1>7, <1>8, <1>9
<1>12. BestBaseline(p, s) > 0 => \E u \in R : RunOf(u, s).bw = BestBaseline(p, s)
  BY <1>7, <1>8, <1>9, <1>10
<1> QED
  BY <1>10, <1>11, <1>12 DEF R

LEMMA RowFields ==
    \A t, s : /\ Row(t, s).task = t /\ Row(t, s).size = s
              /\ Row(t, s).reading = perf[t].reading /\ Row(t, s).metadata = Metadata(t)
              /\ Row(t, s).baseline # None =>
                   /\ t[1] = "perf" /\ Eligible(t, s) /\ BestBaseline(Pair[t[2]], s) > 0
                   /\ Row(t, s).baseline = BestBaseline(Pair[t[2]], s)
  BY DEF Row

\* The rows of a report are those of the lines of its measurements.
LEMMA RowsOfLines ==
    /\ \A row \in ReportRows : \E t \in Measured, s \in Sizes : row = Row(t, s)
    /\ \A t \in Measured, s \in Sizes : s \in SizesOf(t) => Row(t, s) \in ReportRows
<1>1. ASSUME NEW row \in ReportRows PROVE \E t \in Measured, s \in Sizes : row = Row(t, s)
  <2>1. PICK x \in Lines : row = Row(x[1], x[2])
    BY DEF ReportRows
  <2>2. x[1] \in Measured /\ x[2] \in Sizes
    BY DEF Lines
  <2> QED
    BY <2>1, <2>2
<1>2. ASSUME NEW t \in Measured, NEW s \in Sizes, s \in SizesOf(t)
      PROVE  Row(t, s) \in ReportRows
  <2> DEFINE x == <<t, s>>
  <2>1. x \in Lines /\ x[1] = t /\ x[2] = s
    BY <1>2 DEF Lines
  <2> QED
    BY <2>1 DEF ReportRows
<1> QED
  BY <1>1, <1>2

LEMMA ReportRowsType ==
    ASSUME RecordsInv
    PROVE  ReportRows \subseteq ReportRow
<1> SUFFICES ASSUME NEW t \in Measured, NEW s \in Sizes PROVE Row(t, s) \in ReportRow
  BY RowsOfLines
<1>1. t \in PerfTasks /\ perf[t].reading \in ReadingRecords
  BY RunTypes DEF RecordsInv
<1>2. Metadata(t) \in Xmls \cup {None}
  <2>1. t[1] = "perf" => runs[t[2]].xml \in Xmls \cup {None}
    BY <1>1, PerfKind DEF RecordsInv, TypeOK
  <2> QED
    BY <2>1 DEF Metadata
<1>3. BestBaseline(Pair[t[2]], s) \in Nat
  BY BestBaselineFacts DEF RecordsInv
<1> QED
  BY <1>1, <1>2, <1>3 DEF ReportRow, Row

-----------------------------------------------------------------------------
(* Steps between tasks *)

Summaries == [files : 0..3, rows : SUBSET ReportRow, failed : SUBSET Tasks]

LEMMA SameRecords ==
    ASSUME DataOK, UNCHANGED <<input, env, store, runs, perf, smokeDir, remote, cleaned>>,
           baseIndex' \in BOOLEAN, summary' \in Summaries, interrupted' \subseteq Tasks
    PROVE  DataOK'
<1>1. TypeOK'
  BY DEF DataOK, TypeOK, Summaries
<1>2. ReadingsOK' /\ CleanedOK'
  BY DEF DataOK, ReadingsOK, CleanedOK
<1>3. PassedIsComplete'
  BY DEF DataOK, PassedIsComplete
<1> QED
  BY <1>1, <1>2, <1>3 DEF DataOK

LEMMA SelectFacts ==
    ASSUME NEW request \in Requests
    PROVE  /\ Select(request) \in Seq(Cases)
           /\ \A i, j \in DOMAIN Select(request) :
                Select(request)[i] = Select(request)[j] => i = j
           /\ Range(Select(request)) \subseteq Cases
<1>1. request.case \in Cases \cup {None}
  BY RequestsAssumption
<1>2. CASE request.case = None
  BY <1>2, ManifestAssumption DEF Select, Cases
<1>3. CASE request.case # None
  <2>1. Select(request) = <<request.case>> /\ request.case \in Cases
    BY <1>1, <1>3 DEF Select
  <2>2. Select(request) \in Seq(Cases) /\ DOMAIN Select(request) = {1}
    BY <2>1
  <2>3. Range(Select(request)) = {request.case}
    BY <2>1, <2>2 DEF Range
  <2> QED
    BY <2>1, <2>2, <2>3
<1> QED
  BY <1>2, <1>3

LEMMA FirstCaseFacts ==
    ASSUME NEW b, PairSelected(b), job.request \in Requests
    PROVE  FirstCase(b) \in Cases
<1> DEFINE list == Select(job.request)
           S == {i \in DOMAIN list : Pair[list[i]] = Pair[b]}
<1>1. list \in Seq(Cases)
  BY SelectFacts
<1>2. DOMAIN list = 1..Len(list) /\ Len(list) \in Nat /\ \A i \in DOMAIN list : list[i] \in Cases
  BY <1>1, LenProperties, ElementOfSeq
<1>3. FirstCase(b) = list[Min(S)]
  BY DEF FirstCase
<1>4. S # {}
  BY DEF PairSelected, Selected, Range
<1> HIDE DEF list
<1>5. Min(S) \in S
  BY <1>2, <1>4, MinFacts
<1> QED
  BY <1>2, <1>3, <1>5

LEMMA BenchNextRecords == ASSUME RecordsInv, BenchNext PROVE RecordsInv'
<1> DEFINE t == Head(job.queue)
<1>1. /\ pc = "next" /\ job.queue # <<>> /\ At("benchmark") /\ ~InBody
      /\ job.queue \in Seq(PerfTasks) /\ JobOK /\ UNCHANGED files /\ job.request \in Requests
      /\ job.seen # None => job.queue \in Seq(OwnTasks)
  BY DEF BenchNext, RecordsInv, JobOK, StageOK, At, InBody, SmokeBody, SolveBody, BenchBody
<1>2. /\ t \in PerfTasks /\ Tail(job.queue) \in Seq(PerfTasks)
      /\ job.seen # None => t \in OwnTasks /\ Tail(job.queue) \in Seq(OwnTasks)
  BY <1>1, Queue
<1>3. CASE job' = [job EXCEPT !.queue = Tail(@)] /\ UNCHANGED <<store, pc, interrupted, user>>
  BY <1>1, <1>3, LoopStep
<1>4. CASE Exit(2) /\ UNCHANGED <<store, interrupted, user>>
  <2>1. JobOK' /\ StageOK' /\ ~InBody'
    BY <1>1, <1>4, ExitControl
  <2>2. DataOK' /\ BodiesOK'
    BY <1>1, <1>4, <2>1, NoBody, SameData, Parts DEF user, RecordsInv
  <2> QED
    BY <2>1, <2>2, Parts
<1>5. CASE /\ job.seen = None => PairSelected(t[2])
           /\ BenchmarkXml(t) # None /\ Start(t, BenchmarkInput(t), "bench.command")
           /\ job' = [job EXCEPT !.queue = Tail(@), !.task = t]
  <2>1. /\ DOMAIN job' = DOMAIN job /\ job'.todo = job.todo /\ job'.request = job.request
        /\ job'.exit = job.exit /\ job'.ok = job.ok /\ job'.made = job.made
        /\ job'.queue = Tail(job.queue) /\ job'.task = t /\ job'.seen = job.seen
    BY <1>1, <1>5 DEF JobOK, NoJob
  <2>2. pc' = "bench.command" /\ t \in Tasks /\ t \notin SolveTasks
    BY <1>2, <1>5, TaskKind DEF Start
  <2>3. JobOK' /\ StageOK'
    BY <1>1, <1>2, <2>1, <2>2, LoopControl DEF At
  <2>4. BenchmarkInput(t) \in DigestedInput(t)
    <3>1. BenchmarkXml(t) \in Xmls
      BY <1>2, <1>5, BenchXmlType DEF RecordsInv
    <3>2. env.digested \in Versions
      BY DEF RecordsInv, TypeOK, Environments
    <3>3. BenchmarkCase(t) \in Cases
      <4>1. CASE t[1] = "perf"
        BY <1>2, <4>1, PerfKind DEF BenchmarkCase
      <4>2. CASE t[1] # "perf"
        <5>1. job.seen = None
          BY <1>2, <4>2, Kinds DEF OwnTasks
        <5> QED
          BY <1>1, <1>5, <4>2, <5>1, FirstCaseFacts DEF BenchmarkCase
      <4> QED
        BY <4>1, <4>2
    <3> QED
      BY <1>2, <3>1, <3>2, <3>3 DEF DigestedInput, BenchmarkInput
  <2> HIDE DEF t
  <2> QED
    BY <1>1, <1>5, <2>1, <2>2, <2>3, <2>4, StartRecords
<1> QED
  BY <1>3, <1>4, <1>5 DEF BenchNext

\* No task is under way and an invocation leaves its stage.
LEMMA LeaveRecords ==
    ASSUME RecordsInv, ~InBody, pc # "idle", NEW x,
           Exit(x) \/ StageEnds(x),
           UNCHANGED <<store, runs, perf, smokeDir, remote, interrupted, user>>,
           baseIndex' \in BOOLEAN, summary' \in Summaries
    PROVE  RecordsInv'
<1>1. JobOK /\ pc # "finish" /\ DataOK /\ RunningOK /\ interrupted \subseteq Tasks
  BY Parts DEF InBody, RecordsInv, TypeOK
<1>2. JobOK' /\ StageOK' /\ ~InBody'
  BY <1>1, ExitControl, StageEndsControl
<1>3. BodiesOK'
  BY <1>1, <1>2, NoBody
<1>4. DataOK'
  BY <1>1, SameRecords DEF user
<1> QED
  BY <1>2, <1>3, <1>4, Parts

LEMMA KeptFiles ==
    ASSUME TypeOK
    PROVE  /\ UNCHANGED baseIndex => baseIndex' \in BOOLEAN
           /\ UNCHANGED summary => summary' \in Summaries
  BY DEF TypeOK, Summaries

LEMMA EndsRecords ==
    ASSUME RecordsInv, (\E ok \in BOOLEAN : Preflight(ok)) \/ EndSmoke \/ EndSolve \/ EndBenchmark
    PROVE  RecordsInv'
<1>1. pc \in {"dispatch", "next"} /\ UNCHANGED <<store, files, interrupted, user>>
  BY DEF Preflight, EndSmoke, EndSolve, EndBenchmark
<1>2. Exit(2) \/ StageEnds(TRUE) \/ StageEnds(job.ok)
  BY DEF Preflight, EndSmoke, EndSolve, EndBenchmark
<1>3. ~InBody /\ TypeOK
  BY <1>1 DEF InBody, SmokeBody, SolveBody, BenchBody, RecordsInv
<1> QED
  BY <1>1, <1>2, <1>3, LeaveRecords, KeptFiles DEF files

\* A stage begins, or its second loop does.
LEMMA QueueRecords ==
    ASSUME RecordsInv, pc \in {"dispatch", "next"}, pc' = "next",
           NEW seen, NEW queue, job' = [job EXCEPT !.seen = seen, !.queue = queue],
           \/ At("solve") /\ queue \in Seq(Cases)
           \/ /\ At("benchmark") /\ queue \in Seq(PerfTasks)
              /\ seen # None => queue \in Seq(OwnTasks),
           UNCHANGED <<store, runs, perf, smokeDir, remote, summary, interrupted, user>>,
           baseIndex' \in BOOLEAN
    PROVE  RecordsInv'
<1>1. JobOK /\ ~InBody /\ ~InBody' /\ DataOK /\ RunningOK /\ interrupted \subseteq Tasks /\ TypeOK
  BY Parts DEF RecordsInv, TypeOK, InBody, SmokeBody, SolveBody, BenchBody
<1>2. /\ DOMAIN job' = DOMAIN job /\ job'.todo = job.todo /\ job'.request = job.request
      /\ job'.exit = job.exit /\ job'.ok = job.ok /\ job'.made = job.made
      /\ job'.queue = queue /\ job'.seen = seen
  BY <1>1 DEF JobOK, NoJob
<1>3. JobOK' /\ StageOK'
  BY <1>1, <1>2, LoopControl DEF At
<1>4. BodiesOK'
  BY <1>1, NoBody
<1>5. DataOK'
  BY <1>1, SameRecords, KeptFiles DEF user
<1> QED
  BY <1>3, <1>4, <1>5, Parts

LEMMA BeginSolveRecords == ASSUME RecordsInv, BeginSolve PROVE RecordsInv'
<1>1. /\ pc = "dispatch" /\ At("solve") /\ job.request \in Requests /\ TypeOK
      /\ UNCHANGED <<store, files, interrupted, user>>
  BY DEF BeginSolve, At, RecordsInv, JobOK
<1>2. Select(job.request) \in Seq(Cases)
  BY <1>1, SelectFacts
<1> QED
  BY <1>1, <1>2, QueueRecords, KeptFiles DEF BeginSolve, files


LEMMA BenchQueues ==
    /\ \A s \in Seq(Cases) : /\ [i \in DOMAIN s |-> PerfTask(s[i])] \in Seq(PerfTasks)
                             /\ [i \in DOMAIN s |-> PerfTask(s[i])] \in Seq(OwnTasks)
    /\ [i \in DOMAIN Baselines |-> BaseTask(Baselines[i])] \in Seq(PerfTasks)
<1>1. ASSUME NEW s \in Seq(Cases)
      PROVE  /\ [i \in DOMAIN s |-> PerfTask(s[i])] \in Seq(PerfTasks)
             /\ [i \in DOMAIN s |-> PerfTask(s[i])] \in Seq(OwnTasks)
  <2>1. DOMAIN s = 1..Len(s) /\ Len(s) \in Nat /\ \A i \in DOMAIN s : s[i] \in Cases
    BY LenProperties, ElementOfSeq
  <2>2. \A i \in DOMAIN s : PerfTask(s[i]) \in PerfTasks /\ PerfTask(s[i]) \in OwnTasks
    BY <2>1, TaskKind DEF OwnTasks
  <2> QED
    BY <2>1, <2>2, IsASeq
<1>2. [i \in DOMAIN Baselines |-> BaseTask(Baselines[i])] \in Seq(PerfTasks)
  <2>1. DOMAIN Baselines = 1..Len(Baselines) /\ Len(Baselines) \in Nat
    BY BaselinesAssumption, LenProperties
  <2>2. \A i \in DOMAIN Baselines : BaseTask(Baselines[i]) \in PerfTasks
    BY DEF PerfTasks, Range
  <2> QED
    BY <2>1, <2>2, IsASeq
<1> QED
  BY <1>1, <1>2

LEMMA BeginBenchmarkRecords ==
    ASSUME RecordsInv, NEW staged \in BOOLEAN, BeginBenchmark(staged)
    PROVE  RecordsInv'
<1> DEFINE selected == Select(job.request)
           queue == [i \in DOMAIN selected |-> PerfTask(selected[i])]
           seen == {c \in Cases : Passed(store[SolveTask(c)])}
<1>1. /\ pc = "dispatch" /\ At("benchmark") /\ job.request \in Requests /\ TypeOK
      /\ UNCHANGED <<store, files, interrupted, user>> /\ ~InBody
  BY DEF BeginBenchmark, At, RecordsInv, JobOK, InBody, SmokeBody, SolveBody, BenchBody
<1>2. queue \in Seq(PerfTasks) /\ queue \in Seq(OwnTasks)
  BY <1>1, SelectFacts, BenchQueues
<1>3. CASE Exit(2)
  BY <1>1, <1>3, LeaveRecords, KeptFiles DEF files
<1>4. CASE pc' = "next" /\ job' = [job EXCEPT !.seen = seen, !.queue = queue]
  <2> HIDE DEF queue, seen
  <2> QED
    BY <1>1, <1>2, <1>4, QueueRecords, KeptFiles DEF files
<1> QED
  BY <1>3, <1>4 DEF BeginBenchmark

LEMMA CopyBaselinesRecords ==
    ASSUME RecordsInv, NEW found \in BOOLEAN, CopyBaselines(found)
    PROVE  RecordsInv'
<1> DEFINE queue == [i \in DOMAIN Baselines |-> BaseTask(Baselines[i])]
<1>1. /\ pc = "next" /\ At("benchmark") /\ TypeOK /\ ~InBody
      /\ UNCHANGED <<store, runs, perf, smokeDir, remote, summary, interrupted, user>>
  BY DEF CopyBaselines, At, RecordsInv, InBody, SmokeBody, SolveBody, BenchBody
<1>2. baseIndex' \in BOOLEAN
  BY <1>1 DEF CopyBaselines, TypeOK
<1>3. CASE Exit(Traceback) \/ Exit(2)
  BY <1>1, <1>2, <1>3, LeaveRecords, KeptFiles
<1>4. CASE pc' = pc /\ job' = [job EXCEPT !.seen = None, !.queue = queue]
  BY <1>1, <1>2, <1>4, QueueRecords, BenchQueues
<1> QED
  BY <1>3, <1>4 DEF CopyBaselines

LEMMA WriteReportRecords == ASSUME RecordsInv, WriteReport PROVE RecordsInv'
<1>1. /\ pc = "dispatch" /\ At("summarize") /\ ~InBody /\ TypeOK /\ JobOK
      /\ DataOK /\ RunningOK /\ interrupted \subseteq Tasks
      /\ UNCHANGED <<store, runs, perf, smokeDir, baseIndex, remote, interrupted, user>>
  BY Parts DEF WriteReport, At, RecordsInv, TypeOK, InBody, SmokeBody, SolveBody, BenchBody
<1>2. CASE (Exit(2) \/ Exit(Traceback)) /\ UNCHANGED summary
  BY <1>1, <1>2, LeaveRecords, KeptFiles
<1>3. CASE summary' = [summary EXCEPT !.files = 1, !.rows = ReportRows] /\ Goto("report")
  <2>1. pc' = "report" /\ job' = job /\ ~InBody'
    BY <1>3 DEF Goto, InBody, SmokeBody, SolveBody, BenchBody
  <2>2. summary' \in Summaries /\ summary'.files = 1
    <3>1. summary \in Summaries /\ ReportRows \in SUBSET ReportRow
      BY <1>1, ReportRowsType DEF TypeOK, Summaries
    <3> DEFINE s == [summary EXCEPT !.files = 1]
    <3>2. s \in Summaries /\ s.files = 1
      BY <3>1 DEF Summaries
    <3>3. summary' = [s EXCEPT !.rows = ReportRows]
      BY <1>3
    <3> HIDE DEF s
    <3> QED
      BY <3>1, <3>2, <3>3 DEF Summaries
  <2>3. JobOK' /\ StageOK'
    <3>1. JobOK'
      BY <1>1, <2>1 DEF JobOK, Labels
    <3> QED
      BY <1>1, <2>1, <2>2, <3>1 DEF StageOK, At, InBody, SmokeBody, SolveBody, BenchBody, JobOK
  <2>4. DataOK' /\ BodiesOK'
    BY <1>1, <2>1, <2>2, NoBody, SameRecords, KeptFiles DEF user
  <2> QED
    BY <2>3, <2>4, Parts
<1> QED
  BY <1>2, <1>3 DEF WriteReport

LEMMA SummaryFileType ==
    ASSUME RecordsInv, WriteSummaryFile
    PROVE  /\ summary.files \in {1, 2} /\ summary' \in Summaries
           /\ summary'.files = summary.files + 1 /\ summary'.rows = summary.rows
<1> DEFINE failed == IF summary.files = 2
                     THEN {t \in Tasks : store[t] # None /\ store[t].status = "failed"}
                     ELSE summary.failed
           s == [summary EXCEPT !.files = @ + 1]
<1>1. summary \in Summaries /\ summary.files \in {1, 2}
  BY DEF RecordsInv, TypeOK, StageOK, WriteSummaryFile, Summaries
<1>2. failed \in SUBSET Tasks
  BY <1>1 DEF Summaries
<1>3. s \in Summaries /\ s.files = summary.files + 1 /\ s.rows = summary.rows
  BY <1>1 DEF Summaries
<1>4. summary' = [s EXCEPT !.failed = failed]
  BY <1>1 DEF WriteSummaryFile, Summaries
<1> HIDE DEF s, failed
<1> QED
  BY <1>1, <1>2, <1>3, <1>4 DEF Summaries

LEMMA WriteSummaryFileRecords == ASSUME RecordsInv, WriteSummaryFile PROVE RecordsInv'
<1>1. /\ pc = "report" /\ At("summarize") /\ ~InBody /\ TypeOK /\ JobOK
      /\ DataOK /\ RunningOK /\ interrupted \subseteq Tasks
      /\ UNCHANGED <<store, runs, perf, smokeDir, baseIndex, remote, interrupted, user>>
  BY Parts DEF WriteSummaryFile, At, RecordsInv, TypeOK, StageOK, InBody, SmokeBody, SolveBody, BenchBody
<1>2. /\ summary.files \in {1, 2} /\ summary' \in Summaries
      /\ summary'.files = summary.files + 1
  BY SummaryFileType
<1>3. CASE StageEnds(TRUE)
  BY <1>1, <1>2, <1>3, LeaveRecords, KeptFiles
<1>4. CASE summary.files # 2 /\ UNCHANGED <<pc, job>>
  <2>1. JobOK' /\ ~InBody'
    BY <1>1, <1>4 DEF JobOK, InBody
  <2>2. StageOK'
    BY <1>1, <1>2, <1>4, <2>1 DEF StageOK, At, RecordsInv, SmokeBody, SolveBody, BenchBody
  <2>3. DataOK' /\ BodiesOK'
    BY <1>1, <1>2, <2>1, NoBody, SameRecords, KeptFiles DEF user
  <2> QED
    BY <2>1, <2>2, <2>3, Parts
<1> QED
  BY <1>3, <1>4 DEF WriteSummaryFile

-----------------------------------------------------------------------------
(* The environment *)

LEMMA InitRecords == Init => RecordsInv
<1> SUFFICES ASSUME Init PROVE RecordsInv
  OBVIOUS
<1>1. pc = "idle" /\ ~InBody /\ job = NoJob
  BY DEF Init, InBody, SmokeBody, SolveBody, BenchBody
<1>2. JobOK /\ StageOK
  BY <1>1 DEF JobOK, StageOK, At, Labels, NoJob, SmokeBody, SolveBody, BenchBody
<1>3. TypeOK
  <2>1. /\ input \in [Cases -> Versions] /\ env \in Environments
        /\ interrupted \subseteq Tasks /\ cleaned \subseteq Tasks /\ baseIndex \in BOOLEAN
    BY VersionFacts DEF Init, Environments
  <2>2. DOMAIN store = Tasks /\ \A t \in Tasks : store[t] \in TaskRecord(t) \cup {None}
    BY DEF Init
  <2>3. runs \in [Cases -> RunDir] /\ \A c \in Cases : runs[c].xml # None => runs[c].root
    BY DEF Init, RunDir
  <2>4. perf \in [PerfTasks -> PerfDir] /\ remote \in [PerfTasks -> Xmls \cup {None}]
    BY DEF Init, PerfDir
  <2>5. smokeDir \in [xml : Versions \cup {None}, report : BOOLEAN] /\ summary \in Summaries
    BY DEF Init, Summaries
  <2> QED
    BY <2>1, <2>2, <2>3, <2>4, <2>5 DEF TypeOK, RunDir, PerfDir, Summaries
<1>4. ReadingsOK /\ CleanedOK /\ PassedIsComplete
  BY TaskKind DEF Init, ReadingsOK, CleanedOK, PassedIsComplete, Passed
<1>5. RunningOK /\ BodyOK /\ FilesOK /\ MadeOK
  BY <1>1 DEF Init, RunningOK, BodyOK, FilesOK, MadeOK
<1> QED
  BY <1>2, <1>3, <1>4, <1>5 DEF RecordsInv

LEMMA InvokeRecords ==
    ASSUME RecordsInv, NEW request \in Requests, Invoke(request)
    PROVE  RecordsInv'
<1>1. ~InBody /\ ~InBody' /\ RunningOK /\ DataOK /\ pc' = "dispatch"
  BY Parts DEF Invoke, InBody, SmokeBody, SolveBody, BenchBody, RecordsInv
<1>2. DataOK' /\ BodiesOK'
  BY <1>1, NoBody, SameData DEF Invoke
<1>3. /\ DOMAIN job' = DOMAIN NoJob /\ job'.request = request /\ job'.queue = <<>>
      /\ job'.ok = TRUE /\ job'.exit = None /\ job'.made = None
      /\ job'.todo = IF request.stage = "all" THEN AllStages ELSE <<request.stage>>
  BY DEF Invoke, NoJob
<1>4. job'.todo \in Seq(Stages) /\ job'.todo # <<>>
  <2>1. request.stage \in Stages \cup {"all"}
    BY RequestsAssumption
  <2>2. AllStages \in Seq(Stages) /\ AllStages # <<>>
    BY DEF AllStages, Stages
  <2>3. request.stage # "all" => <<request.stage>> \in Seq(Stages) /\ <<request.stage>> # <<>>
    BY <2>1
  <2> QED
    BY <1>3, <2>2, <2>3
<1>5. JobOK'
  <2>1. <<>> \in Seq(Cases)
    OBVIOUS
  <2> QED
    BY <1>1, <1>3, <1>4, <2>1 DEF JobOK, Labels
<1>6. StageOK'
  BY <1>1, <1>3 DEF StageOK, SmokeBody, SolveBody, BenchBody
<1> QED
  BY <1>2, <1>5, <1>6, Parts

\* The invocation ends, and what was under way is interrupted.
LEMMA CutRecords ==
    ASSUME RecordsInv, NEW code, Exit(code), UNCHANGED <<input, env, store, files, cleaned>>,
           NEW S \in SUBSET Tasks, interrupted' = interrupted \cup S, InBody => job.task \in S
    PROVE  RecordsInv'
<1>1. JobOK' /\ StageOK' /\ pc' = "idle" /\ ~InBody'
  BY ExitControl DEF RecordsInv
<1>2. TypeOK' /\ ReadingsOK' /\ CleanedOK' /\ PassedIsComplete'
  <2>1. interrupted' \subseteq Tasks /\ DataOK /\ TypeOK
    BY Parts DEF RecordsInv, TypeOK
  <2> QED
    BY <2>1, SameRecords, KeptFiles DEF DataOK, files
<1>3. RunningOK'
  BY DEF RecordsInv, RunningOK
<1>4. BodyOK' /\ FilesOK' /\ MadeOK'
  BY <1>1 DEF BodyOK, FilesOK, MadeOK
<1> QED
  BY <1>1, <1>2, <1>3, <1>4 DEF RecordsInv

LEMMA CrashRecords == ASSUME RecordsInv, Crash PROVE RecordsInv'
<1> DEFINE open == {t \in Tasks : store[t] # None /\ store[t].status = "running"}
<1>1. /\ Exit(Killed) /\ interrupted' = interrupted \cup open
      /\ UNCHANGED <<input, env, store, files, cleaned>>
  BY DEF Crash
<1>2. InBody => job.task \in open
  BY TaskKind DEF RecordsInv, StageOK, BodyOK
<1> HIDE DEF open
<1>3. open \in SUBSET Tasks
  BY DEF open
<1> QED
  BY <1>1, <1>2, <1>3, CutRecords

LEMMA StartFailsRecords == ASSUME RecordsInv, StartFails PROVE RecordsInv'
<1> DEFINE S == IF StartsTask THEN {} ELSE {job.task}
<1>1. /\ Exit(2) /\ interrupted' = interrupted \cup S
      /\ UNCHANGED <<input, env, store, files, cleaned>>
  BY DEF StartFails
<1>2. StartsTask => ~InBody
  BY DEF StartsTask, InBody, SmokeBody, SolveBody, BenchBody
<1>3. ~StartsTask => InBody
  BY DEF StartFails, InBody, SmokeBody, SolveBody, BenchBody
<1>4. InBody => job.task \in Tasks
  BY TaskKind DEF RecordsInv, StageOK
<1>5. S \in SUBSET Tasks /\ (InBody => job.task \in S)
  BY <1>2, <1>3, <1>4
<1> HIDE DEF S
<1> QED
  BY <1>1, <1>5, CutRecords

LEMMA FinishFailsRecords ==
    ASSUME RecordsInv, NEW written \in BOOLEAN, NEW code, FinishFails(written, code)
    PROVE  RecordsInv'
<1>1. Exit(code) /\ pc = "finish" /\ UNCHANGED <<input, env, files, cleaned>>
  BY DEF FinishFails
<1>2. job.task \in Tasks
  BY <1>1, ClosedFacts
<1>3. CASE written
  <2>1. JobOK' /\ StageOK' /\ ~InBody'
    BY <1>1, ExitControl DEF RecordsInv
  <2>2. /\ store' = [store EXCEPT ![job.task] = Closed(job.made, store[job.task].input)]
        /\ interrupted' = interrupted
    BY <1>3 DEF FinishFails
  <2> QED
    BY <1>1, <2>1, <2>2, CloseRecords
<1>4. CASE ~written
  <2>1. store' = store /\ interrupted' = interrupted \cup {job.task}
    BY <1>4 DEF FinishFails
  <2> QED
    BY <1>1, <1>2, <2>1, CutRecords
<1> QED
  BY <1>3, <1>4

LEMMA PublishFailsRecords == ASSUME RecordsInv, PublishFails PROVE RecordsInv'
<1>1. /\ Exit(Traceback) /\ interrupted' = interrupted /\ ~InBody
      /\ UNCHANGED <<input, env, store, files, cleaned>>
  BY DEF PublishFails, InBody, SmokeBody, SolveBody, BenchBody
<1>2. {} \in SUBSET Tasks /\ interrupted' = interrupted \cup {}
  BY <1>1
<1> QED
  BY <1>1, <1>2, CutRecords

\* The body of a task raises an exception.
LEMMA FailedBody ==
    ASSUME RecordsInv, pc \in SmokeBody \cup SolveBody \cup BenchBody, Outcome(None),
           UNCHANGED <<input, env, store, files, interrupted, cleaned>>
    PROVE  RecordsInv'
<1>1. InBody /\ JobOK /\ StageOK /\ DataOK
  BY Parts DEF RecordsInv, InBody
<1>2. /\ JobOK' /\ StageOK' /\ InBody' /\ job'.task = job.task /\ pc' = "finish"
      /\ job'.request = job.request /\ job'.made = None
  BY <1>1, BodyControl
<1>3. RunningOK' /\ BodyOK'
  BY <1>1, <1>2, BodyStep DEF files
<1>4. FilesOK' /\ MadeOK'
  BY <1>2 DEF FilesOK, MadeOK
<1>5. DataOK'
  BY <1>1, SameData
<1> QED
  BY <1>2, <1>3, <1>4, <1>5, Parts DEF BodiesOK

LEMMA BodyFailsRecords == ASSUME RecordsInv, BodyFails \/ SolveFails PROVE RecordsInv'
<1>1. pc \in SmokeBody \cup SolveBody \cup BenchBody
  BY DEF BodyFails, SolveFails, SmokeBody, SolveBody, BenchBody
<1> QED
  BY <1>1, FailedBody DEF BodyFails, SolveFails, user

LEMMA IdleControl ==
    ASSUME pc' = "idle", job' = NoJob
    PROVE  JobOK' /\ StageOK' /\ ~InBody'
  BY DEF JobOK, StageOK, At, InBody, Labels, NoJob, SmokeBody, SolveBody, BenchBody

LEMMA EditRecords ==
    ASSUME RecordsInv,
           (\E c \in Cases : Edit(c)) \/ (\E part \in {"digested", "launch"} : Configure(part))
    PROVE  RecordsInv'
<1>1. /\ pc = "idle" /\ pc' = "idle" /\ job' = NoJob
      /\ UNCHANGED <<store, files, interrupted, cleaned>> /\ TypeOK /\ RunningOK /\ ~InBody
  BY DEF Edit, Configure, BetweenInvocations, RecordsInv, InBody, SmokeBody, SolveBody, BenchBody
<1>2. JobOK' /\ StageOK' /\ ~InBody'
  BY <1>1, IdleControl
<1>3. input' \in [Cases -> Versions] /\ env' \in Environments
  <2>1. \A v \in Versions : v < MaxVersion => v + 1 \in Versions
    BY VersionAssumption DEF Versions
  <2>2. CASE \E c \in Cases : Edit(c)
    BY <1>1, <2>1, <2>2 DEF Edit, TypeOK
  <2>3. ASSUME NEW part \in {"digested", "launch"}, Configure(part)
        PROVE  input' \in [Cases -> Versions] /\ env' \in Environments
    <3>1. env \in Environments /\ input' = input /\ input \in [Cases -> Versions]
      BY <1>1, <2>3 DEF Configure, TypeOK
    <3>2. env[part] \in Versions /\ env[part] < MaxVersion /\ env' = [env EXCEPT ![part] = env[part] + 1]
      BY <2>3, <3>1 DEF Configure, Environments
    <3>3. env[part] + 1 \in Versions
      BY <2>1, <3>2
    <3> QED
      BY <3>1, <3>2, <3>3 DEF Environments
  <2> QED
    BY <2>2, <2>3
<1>4. TypeOK'
  BY <1>1, <1>3 DEF TypeOK, files
<1>5. ReadingsOK' /\ CleanedOK'
  BY <1>1 DEF RecordsInv, ReadingsOK, CleanedOK, files
<1>6. PassedIsComplete'
  BY <1>1 DEF RecordsInv, PassedIsComplete, files
<1>7. BodiesOK'
  BY <1>1, <1>2, NoBody
<1> QED
  BY <1>2, <1>4, <1>5, <1>6, <1>7, Parts DEF DataOK

LEMMA CleanRecords ==
    ASSUME RecordsInv, NEW t \in Tasks, Clean(t)
    PROVE  RecordsInv'
<1> DEFINE emptyRun == [root |-> FALSE, xml |-> None, report |-> None]
           emptyPerf == [files |-> 0, reading |-> None]
<1>1. /\ pc = "idle" /\ pc' = "idle" /\ job' = NoJob /\ cleaned' = cleaned \cup {t}
      /\ UNCHANGED <<input, env, store, interrupted, remote>> /\ TypeOK /\ RunningOK /\ ~InBody
  BY DEF Clean, BetweenInvocations, RecordsInv, InBody, SmokeBody, SolveBody, BenchBody
<1>2. JobOK' /\ StageOK' /\ ~InBody'
  BY <1>1, IdleControl
<1>3. BodiesOK'
  BY <1>1, <1>2, NoBody
<1>4. /\ \A c \in Cases : runs'[c] = IF t = SolveTask(c) THEN emptyRun ELSE runs[c]
      /\ \A u \in PerfTasks : perf'[u] = IF t = u THEN emptyPerf ELSE perf[u]
      /\ DOMAIN runs' = Cases /\ DOMAIN perf' = PerfTasks
      /\ t # SmokeTask => UNCHANGED smokeDir
      /\ runs' = [c \in DOMAIN runs' |-> runs'[c]] /\ perf' = [u \in DOMAIN perf' |-> perf'[u]]
      /\ smokeDir' \in [xml : Versions \cup {None}, report : BOOLEAN]
      /\ baseIndex' \in BOOLEAN /\ summary' \in Summaries
  <2>1. CASE t \in SolveTasks
    <3>1. t[1] = "solve" /\ t[2] \in Cases /\ t = SolveTask(t[2]) /\ t \notin PerfTasks
      BY <2>1, SolveKind, TaskKind
    <3>2. /\ runs' = [runs EXCEPT ![t[2]] = emptyRun]
          /\ UNCHANGED <<perf, smokeDir, baseIndex, remote, summary>>
      BY <3>1 DEF Clean
    <3>3. /\ DOMAIN runs = Cases /\ runs = [c \in DOMAIN runs |-> runs[c]]
          /\ DOMAIN perf = PerfTasks /\ perf = [u \in DOMAIN perf |-> perf[u]]
          /\ smokeDir \in [xml : Versions \cup {None}, report : BOOLEAN]
          /\ baseIndex \in BOOLEAN /\ summary \in Summaries
      BY <1>1 DEF TypeOK, Summaries
    <3>4. \A c \in Cases : t = SolveTask(c) <=> c = t[2]
      BY <3>1, Kinds
    <3> QED
      BY <3>1, <3>2, <3>3, <3>4
  <2>2. CASE t \in PerfTasks
    <3>1. t[1] \in {"perf", "base"} /\ \A c \in Cases : t # SolveTask(c)
      BY <2>2, TaskKind
    <3>2. /\ perf' = [perf EXCEPT ![t] = emptyPerf]
          /\ UNCHANGED <<runs, smokeDir, baseIndex, remote, summary>>
      BY <3>1 DEF Clean
    <3> QED
      BY <1>1, <2>2, <3>1, <3>2 DEF TypeOK, Summaries
  <2>3. CASE t = SmokeTask
    <3>1. t[1] = "smoke" /\ t \notin PerfTasks /\ \A c \in Cases : t # SolveTask(c)
      BY <2>3, TaskKind, Kinds
    <3>2. /\ smokeDir' = [xml |-> None, report |-> FALSE] /\ baseIndex' = FALSE
          /\ summary' = [files |-> 0, rows |-> {}, failed |-> {}]
          /\ UNCHANGED <<runs, perf, remote>>
      BY <3>1 DEF Clean
    <3>3. summary' \in Summaries /\ baseIndex' \in BOOLEAN
      <4>1. [files |-> 0, rows |-> {}, failed |-> {}] \in Summaries
        BY DEF Summaries
      <4>2. baseIndex' \in BOOLEAN
        BY <3>2
      <4> QED
        BY <3>2, <4>1, <4>2
    <3>4. smokeDir' \in [xml : Versions \cup {None}, report : BOOLEAN]
      BY <3>2
    <3>5. /\ DOMAIN runs = Cases /\ DOMAIN perf = PerfTasks
          /\ runs = [c \in DOMAIN runs |-> runs[c]] /\ perf = [u \in DOMAIN perf |-> perf[u]]
      BY <1>1 DEF TypeOK
    <3> QED
      BY <2>3, <3>1, <3>2, <3>3, <3>4, <3>5
  <2> QED
    BY <2>1, <2>2, <2>3, TaskKind
<1>5. TypeOK'
  <2>1. runs' \in [Cases -> RunDir] /\ \A c \in Cases : runs'[c].xml # None => runs'[c].root
    <3>1. emptyRun \in RunDir /\ emptyRun.xml = None
      BY DEF RunDir
    <3>2. runs \in [Cases -> RunDir] /\ \A c \in Cases : runs[c].xml # None => runs[c].root
      BY <1>1 DEF TypeOK, RunDir
    <3> HIDE DEF emptyRun
    <3>3. \A c \in Cases : runs'[c] \in RunDir /\ (runs'[c].xml # None => runs'[c].root)
      BY <1>4, <3>1, <3>2
    <3> QED
      BY <1>4, <3>3
  <2>2. perf' \in [PerfTasks -> PerfDir]
    <3>1. emptyPerf \in PerfDir
      BY DEF PerfDir
    <3> QED
      BY <1>1, <1>4, <3>1 DEF TypeOK, PerfDir
  <2>3. cleaned' \subseteq Tasks
    BY <1>1 DEF TypeOK
  <2> QED
    BY <1>1, <1>4, <2>1, <2>2, <2>3 DEF TypeOK, RunDir, PerfDir, Summaries
<1>6. ReadingsOK'
  <2> SUFFICES ASSUME NEW u \in PerfTasks
               PROVE  /\ perf'[u].files >= 5 => perf'[u].reading \in ReadingRecords
                      /\ Passed(store[u]) => ReadingOf(store[u].output, store[u].input)
    BY <1>1 DEF ReadingsOK, Passed, ReadingOf
  <2> QED
    BY <1>4 DEF RecordsInv, ReadingsOK
<1>7. CleanedOK'
  BY <1>1, <1>4 DEF RecordsInv, CleanedOK
<1>8. PassedIsComplete'
  <2> SUFFICES ASSUME NEW u \in Tasks, u \notin cleaned', Passed(store[u])
               PROVE  CASE u[1] = "solve" -> /\ runs'[u[2]].xml = store[u].output
                                             /\ ReportIsValid(runs'[u[2]].report)
                        [] u[1] = "smoke" -> smokeDir'.report /\ smokeDir'.xml = store[u].output
                        [] OTHER -> perf'[u].files = 6 /\ perf'[u].reading = store[u].output
    BY <1>1 DEF PassedIsComplete, ReportIsValid, Passed
  <2>1. u # t /\ u \notin cleaned
    BY <1>1
  <2>2. CASE u \in PerfTasks
    <3>1. u[1] \notin {"solve", "smoke"} /\ perf'[u] = perf[u]
      BY <1>4, <2>1, <2>2, TaskKind
    <3> QED
      BY <2>1, <3>1 DEF RecordsInv, PassedIsComplete
  <2>3. CASE u \in SolveTasks
    <3>1. u[1] = "solve" /\ runs'[u[2]] = runs[u[2]]
      BY <1>4, <2>1, <2>3, SolveKind
    <3> QED
      BY <2>1, <3>1 DEF RecordsInv, PassedIsComplete
  <2>4. CASE u = SmokeTask
    <3>1. u[1] = "smoke" /\ smokeDir' = smokeDir
      BY <1>4, <2>1, <2>4, Kinds
    <3> QED
      BY <2>1, <3>1 DEF RecordsInv, PassedIsComplete
  <2> QED
    BY <2>2, <2>3, <2>4, TaskKind
<1> QED
  BY <1>2, <1>3, <1>5, <1>6, <1>7, <1>8, Parts DEF DataOK

LEMMA StutterRecords == ASSUME RecordsInv, UNCHANGED vars PROVE RecordsInv'
<1>1. UNCHANGED <<input, env, store, files, interrupted, cleaned, pc, job>>
  BY DEF vars, files
<1>2. DataOK'
  BY <1>1, SameData, Parts
<1>3. JobOK' /\ StageOK'
  BY <1>1 DEF RecordsInv, JobOK, StageOK, At, InBody, files
<1>4. job.task \in PerfTasks => /\ BenchmarkXml(job.task)' = BenchmarkXml(job.task)
                                 /\ BenchmarkInput(job.task)' = BenchmarkInput(job.task)
  BY <1>1, InputSame DEF files
<1>5. pc \in BenchBody => job.task \in PerfTasks
  BY Kinds DEF RecordsInv, InBody, BenchBody, StageOK, At
<1>6. RunningOK' /\ BodyOK'
  BY <1>1, <1>4 DEF RecordsInv, RunningOK, BodyOK, InBody
<1>7. FilesOK'
  BY <1>1, <1>4, <1>5 DEF RecordsInv, FilesOK, ReadingOf, BenchBody, files
<1>8. MadeOK'
  BY <1>1, <1>4 DEF RecordsInv, MadeOK, Complete, ReadingOf, ReportIsValid, files
<1> QED
  BY <1>2, <1>3, <1>6, <1>7, <1>8, Parts DEF BodiesOK

LEMMA NextRecords == ASSUME RecordsInv, [Next]_vars PROVE RecordsInv'
<1>1. CASE \E request \in Requests : Invoke(request)
  BY <1>1, InvokeRecords
<1>2. CASE \E ok \in BOOLEAN : Preflight(ok) \/ SmokeRun(ok) \/ BeginBenchmark(ok) \/ Upload(ok)
                                \/ CopyBaselines(ok)
  BY <1>2, EndsRecords, SmokeRunRecords, BeginBenchmarkRecords, UploadRecords,
     CopyBaselinesRecords
<1>3. CASE BeginSmoke \/ SmokeXml \/ EndSmoke
  BY <1>3, BeginSmokeRecords, SmokeXmlRecords, EndsRecords
<1>4. CASE BeginSolve \/ SolveNext \/ SolveLayout \/ EndSolve
  BY <1>4, BeginSolveRecords, SolveNextRecords, SolveLayoutRecords, EndsRecords
<1>5. CASE \/ SolveFails \/ (\E k \in Programs : SolveXml(k))
           \/ \E report \in Reports, rest \in BOOLEAN : SolveReport(report, rest)
  BY <1>5, BodyFailsRecords, SolveXmlRecords, SolveReportRecords
<1>6. CASE BenchNext \/ BenchCommand \/ BenchEnvironment
  BY <1>6, BenchNextRecords, PublishRecords
<1>7. CASE \E table \in Tables \cup {None} : Launch(table)
  BY <1>7, LaunchRecords
<1>8. CASE BenchMeasurements \/ BenchActivation \/ EndBenchmark
  BY <1>8, PublishRecords, BenchActivationRecords, EndsRecords
<1>9. CASE WriteReport \/ WriteSummaryFile \/ Finish
  BY <1>9, WriteReportRecords, WriteSummaryFileRecords, FinishRecords
<1>10. CASE Crash \/ BodyFails \/ StartFails \/ PublishFails
  BY <1>10, CrashRecords, BodyFailsRecords, StartFailsRecords, PublishFailsRecords
<1>11. CASE \E written \in BOOLEAN, code \in {2, Traceback} : FinishFails(written, code)
  BY <1>11, FinishFailsRecords
<1>12. CASE \/ \E c \in Cases : Edit(c)
            \/ \E part \in {"digested", "launch"} : Configure(part)
            \/ \E t \in Tasks : Clean(t)
  BY <1>12, EditRecords, CleanRecords
<1>13. CASE UNCHANGED vars
  BY <1>13, StutterRecords
<1> QED
  BY <1>1, <1>2, <1>3, <1>4, <1>5, <1>6, <1>7, <1>8, <1>9, <1>10, <1>11, <1>12, <1>13 DEF Next

\* The inductive invariant of the records: ownership of a task's files from its
\* RUNNING record on, and what each label of a body says of them.
THEOREM RecordsInvariant == Spec => []RecordsInv
<1>1. Init => RecordsInv
  BY InitRecords
<1>2. RecordsInv /\ [Next]_vars => RecordsInv'
  BY NextRecords
<1> QED
  BY <1>1, <1>2, PTL DEF Spec

\* state.json never claims more than the disk holds: whatever is killed between
\* two writes, fails, is edited or removed, the files of a PASSED task are
\* complete until the operator removes them, and a RUNNING record is left only by
\* a kill or by a failed write of that task's own record or error log.
THEOREM ExperimentRecordsSound == Spec => []RecordsSound
<1>1. RecordsInv => RecordsSound
  <2> SUFFICES ASSUME RecordsInv PROVE RecordsSound
    OBVIOUS
  <2>1. RunningIsExplained
    BY DEF RecordsInv, RunningOK, RunningIsExplained, InBody, SmokeBody, SolveBody, BenchBody
  <2> QED
    BY <2>1 DEF RecordsInv, RecordsSound
<1> QED
  BY <1>1, RecordsInvariant, PTL

-----------------------------------------------------------------------------
(* What the steps leave of the results *)

LEMMA SolvedSame ==
    ASSUME NEW c, SolvedCase(c), store'[SolveTask(c)] = store[SolveTask(c)],
           input'[c] = input[c], runs'[c] = runs[c]
    PROVE  SolvedCase(c)'
  BY DEF SolvedCase, Passed, ReportIsValid

LEMMA PerfSame ==
    ASSUME NEW t \in PerfTasks, PerfDone(t), store'[t] = store[t], perf'[t] = perf[t],
           env' = env, job'.request = job.request,
           \A c \in Cases : t = PerfTask(c) => runs'[c] = runs[c]
    PROVE  PerfDone(t)'
<1>1. BenchmarkInput(t)' = BenchmarkInput(t)
  BY InputSame
<1> QED
  BY <1>1 DEF PerfDone, Passed

LEMMA SelectedFacts ==
    ASSUME JobOK, pc # "idle"
    PROVE  /\ job.request \in Requests /\ Selected \subseteq Cases
           /\ \A c \in Selected : /\ SolveTask(c) \in Tasks /\ PerfTask(c) \in Tasks
                                  /\ SolveTask(c) \in SolveTasks /\ PerfTask(c) \in PerfTasks
           /\ CaseTasks \subseteq PerfTasks /\ RivalTasks \subseteq PerfTasks
           /\ Due \subseteq PerfTasks /\ PerfTasks \subseteq Tasks
<1>1. /\ job.request \in Requests /\ Selected \subseteq Cases
      /\ \A c \in Selected : /\ SolveTask(c) \in Tasks /\ PerfTask(c) \in Tasks
                             /\ SolveTask(c) \in SolveTasks /\ PerfTask(c) \in PerfTasks
  BY SelectFacts, TaskKind DEF JobOK, Selected
<1>2. CaseTasks \subseteq PerfTasks /\ RivalTasks \subseteq PerfTasks
  BY <1>1 DEF CaseTasks, RivalTasks, PerfTasks
<1> QED
  BY <1>1, <1>2, TaskKind DEF Due

LEMMA SelectionSame ==
    ASSUME job'.request = job.request
    PROVE  /\ Selected' = Selected /\ CaseTasks' = CaseTasks /\ RivalTasks' = RivalTasks
           /\ job'.seen = job.seen => Due' = Due
<1>1. Selected' = Selected
  BY DEF Selected
<1>2. CaseTasks' = CaseTasks
  BY <1>1 DEF CaseTasks
<1>3. RivalTasks' = RivalTasks
  BY <1>1 DEF RivalTasks, PairSelected
<1> QED
  BY <1>1, <1>2, <1>3 DEF Due

\* The benchmark loops keep what is finished, queued or under way.
LEMMA BenchmarkedStep ==
    ASSUME BenchProgress, Within("benchmark")' => Within("benchmark"), RunsAll' => RunsAll,
           job'.request = job.request, job'.seen = job.seen, job'.ok => job.ok,
           RunsAll /\ Within("benchmark") /\ job'.ok =>
               \A t \in Due : Benchmarked(t) => Benchmarked(t)'
    PROVE  BenchProgress'
<1>1. Selected' = Selected /\ Due' = Due
  BY SelectionSame
<1> QED
  BY <1>1 DEF BenchProgress

LEMMA StageNames ==
    /\ Len(AllStages) = 5
    /\ AllStages[1] = "preflight" /\ AllStages[2] = "smoke" /\ AllStages[3] = "solve"
    /\ AllStages[4] = "benchmark" /\ AllStages[5] = "summarize"
  BY DEF AllStages

\* Where "all" stands, by the number of stages that remain.
LEMMA AllPosition ==
    ASSUME JobOK, TodoOK, RunsAll
    PROVE  LET n == Len(job.todo) IN
           /\ n \in 1..5 /\ Head(job.todo) = AllStages[6 - n]
           /\ At("solve") <=> n = 3
           /\ At("benchmark") <=> n = 2
           /\ At("summarize") <=> n = 1
<1> DEFINE n == Len(job.todo)
<1>1. n \in 1..5 /\ job.todo[1] = AllStages[5 - n + 1] /\ pc # "idle"
  <2>1. n \in 1..5 /\ \A i \in 1..n : job.todo[i] = AllStages[5 - n + i]
    BY DEF TodoOK
  <2>2. pc # "idle"
    BY DEF RunsAll
  <2> HIDE DEF n
  <2>3. 1 \in 1..n
    BY <2>1
  <2> QED
    BY <2>1, <2>2, <2>3
<1>2. Head(job.todo) = job.todo[1]
  BY <1>1, Queue DEF JobOK
<1>3. 5 - n + 1 = 6 - n
  BY <1>1
<1>4. Head(job.todo) = AllStages[6 - n]
  BY <1>1, <1>2, <1>3
<1>5. n = 1 \/ n = 2 \/ n = 3 \/ n = 4 \/ n = 5
  BY <1>1
<1>6. \A s : At(s) <=> AllStages[6 - n] = s
  BY <1>1, <1>4 DEF At
<1> HIDE DEF n
<1>7. /\ n = 1 => AllStages[6 - n] = "summarize"
      /\ n = 2 => AllStages[6 - n] = "benchmark"
      /\ n = 3 => AllStages[6 - n] = "solve"
      /\ n = 4 => AllStages[6 - n] = "smoke"
      /\ n = 5 => AllStages[6 - n] = "preflight"
  BY StageNames
<1>8. /\ At("solve") <=> n = 3
      /\ At("benchmark") <=> n = 2
      /\ At("summarize") <=> n = 1
  BY <1>5, <1>6, <1>7
<1> QED
  BY <1>1, <1>4, <1>8 DEF n

\* An invocation that does not succeed leaves nothing to show.
LEMMA IdleResults ==
    ASSUME pc' = "idle", job'.exit # 0
    PROVE  ResultsInv'
  BY DEF ResultsInv, SeenOK, SolveProgress, BenchProgress, TodoOK, StagesDone, RowsOK,
         AllMeansMeasured, Succeeded, Within, RunsAll, At

LEMMA ExitResults ==
    ASSUME NEW code, Exit(code),
           code # 0 \/ job.request.stage # "all"
    PROVE  ResultsInv'
<1>1. pc' = "idle" /\ job'.exit = code /\ job'.request = job.request
  BY DEF Exit, NoJob
<1> QED
  BY <1>1 DEF ResultsInv, SeenOK, SolveProgress, BenchProgress, TodoOK, StagesDone, RowsOK,
              AllMeansMeasured, Succeeded, Within, RunsAll, At

LEMMA SameTodo ==
    ASSUME TodoOK, pc # "idle", job'.todo = job.todo, job'.request = job.request
    PROVE  TodoOK'
  BY DEF TodoOK, RunsAll

\* Only a stage that ends can make an invocation succeed.
LEMMA BusyResults == ASSUME pc' # "idle" PROVE AllMeansMeasured'
  BY DEF AllMeansMeasured, Succeeded

\* The next stage of an invocation begins with what the earlier ones have done.
LEMMA AdvanceResults ==
    ASSUME RecordsInv, ResultsInv, pc \notin {"idle", "finish"},
           pc' = "dispatch", Len(job.todo) # 1,
           job'.todo = Tail(job.todo), job'.request = job.request,
           UNCHANGED <<store, runs, perf, input, env>>,
           RunsAll /\ At("solve") => \A c \in Selected : SolvedCase(c),
           RunsAll /\ At("benchmark") => \A t \in CaseTasks \cup RivalTasks : PerfDone(t)
    PROVE  ResultsInv'
<1> DEFINE n == Len(job.todo)
<1>1. JobOK /\ TodoOK /\ StagesDone
  BY DEF RecordsInv, ResultsInv
<1>2. /\ ~Within("solve")' /\ ~Within("benchmark")' /\ pc' \notin {"report", "idle"}
      /\ RunsAll' = RunsAll
  BY DEF Within, RunsAll
<1>3. SeenOK' /\ SolveProgress' /\ BenchProgress' /\ RowsOK' /\ AllMeansMeasured'
  BY <1>2, BusyResults DEF SeenOK, SolveProgress, BenchProgress, RowsOK
<1>4. ASSUME RunsAll PROVE TodoOK' /\ n \in 2..5 /\ Head(job'.todo) = AllStages[7 - n]
  <2>1. n \in 2..5 /\ \A i \in 1..n : job.todo[i] = AllStages[5 - n + i]
    <3>1. n \in 1..5 /\ \A i \in 1..n : job.todo[i] = AllStages[5 - n + i]
      BY <1>1, <1>4 DEF TodoOK
    <3>2. n # 1
      OBVIOUS
    <3> HIDE DEF n
    <3>3. n \in 2..5
      BY <3>1, <3>2
    <3> QED
      BY <3>1, <3>3
  <2>2. /\ Len(job'.todo) = n - 1 /\ \A i \in 1..(n - 1) : job'.todo[i] = job.todo[i + 1]
        /\ Head(job'.todo) = job'.todo[1]
    <3>1. job.todo \in Seq(Stages) /\ job.todo # <<>>
      BY <1>1 DEF JobOK
    <3>2. Tail(job.todo) \in Seq(Stages) /\ Tail(job.todo) # <<>>
      BY <3>1, Queue
    <3> QED
      BY <3>1, <3>2, Queue
  <2>3. \A i \in 1..(n - 1) : job'.todo[i] = AllStages[5 - (n - 1) + i]
    <3> SUFFICES ASSUME NEW i \in 1..(n - 1) PROVE job'.todo[i] = AllStages[5 - (n - 1) + i]
      OBVIOUS
    <3>1. i + 1 \in 1..n /\ 5 - n + (i + 1) = 5 - (n - 1) + i
      BY <2>1
    <3> QED
      BY <2>1, <2>2, <3>1
  <2>4. Head(job'.todo) = AllStages[7 - n]
    <3>1. 1 \in 1..(n - 1) /\ 5 - (n - 1) + 1 = 7 - n
      BY <2>1
    <3> QED
      BY <2>2, <2>3, <3>1
  <2>5. n - 1 \in 1..5
    BY <2>1
  <2> QED
    BY <2>1, <2>2, <2>3, <2>4, <2>5 DEF TodoOK
<1>5. TodoOK'
  BY <1>2, <1>4 DEF TodoOK
<1>6. StagesDone'
  <2> SUFFICES ASSUME RunsAll
               PROVE  /\ At("benchmark")' \/ At("summarize")' => \A c \in Selected' : SolvedCase(c)'
                      /\ At("summarize")' =>
                           \A t \in CaseTasks' \cup RivalTasks' : PerfDone(t)'
    BY <1>2 DEF StagesDone
  <2>1. Selected' = Selected /\ CaseTasks' = CaseTasks /\ RivalTasks' = RivalTasks
    BY SelectionSame
  <2>2. n = 2 \/ n = 3 \/ n = 4 \/ n = 5
    BY <1>4
  <2>3. \A s : At(s)' <=> AllStages[7 - n] = s
    BY <1>4, <1>2 DEF At
  <2>4. (At("solve") <=> n = 3) /\ (At("benchmark") <=> n = 2)
    BY <1>1, AllPosition
  <2> HIDE DEF n
  <2>5. /\ n = 2 => AllStages[7 - n] = "summarize"
        /\ n = 3 => AllStages[7 - n] = "benchmark"
        /\ n = 4 => AllStages[7 - n] = "solve"
        /\ n = 5 => AllStages[7 - n] = "smoke"
    BY StageNames
  <2>6. (At("summarize")' => At("benchmark")) /\ (At("benchmark")' => At("solve"))
    BY <2>2, <2>3, <2>4, <2>5
  <2>7. At("benchmark") \/ At("solve") => \A c \in Selected : SolvedCase(c)
    BY <1>1 DEF StagesDone
  <2>8. \A c \in Selected : SolvedCase(c) => SolvedCase(c)'
    BY SolvedSame
  <2>9. \A t \in CaseTasks \cup RivalTasks : PerfDone(t) => PerfDone(t)'
    BY <1>1, PerfSame, SelectedFacts
  <2> QED
    BY <2>1, <2>6, <2>7, <2>8, <2>9
<1> QED
  BY <1>3, <1>5, <1>6 DEF ResultsInv

LEMMA StageEndsResults ==
    ASSUME RecordsInv, ResultsInv, pc \notin {"idle", "finish"}, ~At("summarize"),
           NEW ok, StageEnds(ok),
           UNCHANGED <<store, runs, perf, input, env>>,
           ok /\ RunsAll /\ At("solve") => \A c \in Selected : SolvedCase(c),
           ok /\ RunsAll /\ At("benchmark") =>
               \A t \in CaseTasks \cup RivalTasks : PerfDone(t)
    PROVE  ResultsInv'
<1>1. CASE Exit(1)
  BY <1>1, ExitResults
<1>2. CASE Len(job.todo) = 1 /\ Exit(0)
  <2>1. ~RunsAll
    BY <1>2, AllPosition DEF RecordsInv, ResultsInv
  <2>2. job.request.stage # "all"
    BY <2>1 DEF RunsAll
  <2> QED
    BY <1>2, <2>2, ExitResults
<1>3. CASE /\ ok /\ Len(job.todo) # 1 /\ pc' = "dispatch"
           /\ job' = [job EXCEPT !.todo = Tail(@), !.queue = <<>>, !.task = None, !.ok = TRUE]
  <2>1. job'.todo = Tail(job.todo) /\ job'.request = job.request
    BY <1>3 DEF RecordsInv, JobOK, NoJob
  <2> QED
    BY <1>3, <2>1, AdvanceResults
<1> QED
  BY <1>1, <1>2, <1>3 DEF StageEnds

LEMMA EndsResults ==
    ASSUME RecordsInv, ResultsInv,
           (\E ok \in BOOLEAN : Preflight(ok)) \/ EndSmoke \/ EndSolve \/ EndBenchmark
    PROVE  ResultsInv'
<1>1. pc \in {"dispatch", "next"} /\ UNCHANGED <<store, runs, perf, input, env>> /\ ~InBody
  BY DEF Preflight, EndSmoke, EndSolve, EndBenchmark, files, user, InBody, SmokeBody,
         SolveBody, BenchBody
<1>2. \A s : pc # "idle" => (At(s) <=> Head(job.todo) = s)
  BY DEF At
<1>3. CASE \E ok \in BOOLEAN : Preflight(ok)
  <2>1. Exit(2) \/ StageEnds(TRUE)
    BY <1>3 DEF Preflight
  <2>2. ~At("solve") /\ ~At("benchmark") /\ ~At("summarize")
    BY <1>1, <1>2, <1>3 DEF Preflight
  <2>3. Exit(2) => ResultsInv'
    BY ExitResults
  <2>4. StageEnds(TRUE) => ResultsInv'
    BY <1>1, <2>2, StageEndsResults
  <2> QED
    BY <2>1, <2>3, <2>4
<1>4. CASE EndSmoke
  <2>1. StageEnds(job.ok) /\ ~At("solve") /\ ~At("benchmark") /\ ~At("summarize")
    BY <1>1, <1>2, <1>4 DEF EndSmoke
  <2> QED
    BY <1>1, <2>1, StageEndsResults
<1>5. CASE EndSolve
  <2>1. /\ StageEnds(job.ok) /\ ~At("benchmark") /\ ~At("summarize") /\ At("solve")
        /\ job.queue = <<>> /\ pc = "next"
    BY <1>1, <1>2, <1>5 DEF EndSolve
  <2>2. Range(job.queue) = {}
    BY <2>1 DEF Range
  <2>3. job.ok => \A c \in Selected : SolvedCase(c)
    BY <1>1, <2>1, <2>2 DEF ResultsInv, SolveProgress, Within
  <2> QED
    BY <1>1, <2>1, <2>3, StageEndsResults
<1>6. CASE EndBenchmark
  <2>1. /\ StageEnds(job.ok) /\ ~At("solve") /\ ~At("summarize") /\ At("benchmark")
        /\ job.queue = <<>> /\ pc = "next" /\ job.seen = None
    BY <1>1, <1>2, <1>6 DEF EndBenchmark
  <2>2. Range(job.queue) = {}
    BY <2>1 DEF Range
  <2>3. job.ok /\ RunsAll => \A t \in CaseTasks \cup RivalTasks : PerfDone(t)
    <3>1. BenchProgress /\ Within("benchmark")
      BY <2>1 DEF ResultsInv, Within
    <3>2. Due = CaseTasks \cup RivalTasks
      BY <2>1 DEF Due
    <3> QED
      BY <1>1, <2>2, <3>1, <3>2 DEF BenchProgress, Benchmarked
  <2> QED
    BY <1>1, <2>1, <2>3, StageEndsResults
<1> QED
  BY <1>3, <1>4, <1>5, <1>6

\* A task under way changes no result but its own.
LEMMA BodyResults ==
    ASSUME RecordsInv, ResultsInv, InBody, InBody', pc # "idle",
           job'.task = job.task, job'.todo = job.todo, job'.queue = job.queue,
           job'.seen = job.seen, job'.ok = job.ok, job'.request = job.request,
           UNCHANGED <<store, input, env>>,
           \A c \in Cases : job.task # SolveTask(c) => runs'[c] = runs[c],
           \A t \in PerfTasks : job.task # t => perf'[t] = perf[t]
    PROVE  ResultsInv'
<1>1. /\ pc \notin {"idle", "dispatch", "report"} /\ pc' \notin {"idle", "dispatch", "report"}
      /\ JobOK /\ StageOK
  BY DEF InBody, SmokeBody, SolveBody, BenchBody, RecordsInv
<1>2. /\ \A s : At(s)' = At(s) /\ Within(s)' = Within(s)
      /\ RunsAll' = RunsAll /\ Selected' = Selected
  BY <1>1, SelectionSame DEF At, Within, RunsAll
<1>3. SeenOK'
  BY <1>2 DEF ResultsInv, SeenOK
<1>4. /\ Selected \subseteq Cases /\ \A c \in Selected : PerfTask(c) \in PerfTasks
      /\ Due \subseteq PerfTasks
  BY <1>1, SelectedFacts
<1>5. \A c \in Selected : SolvedCase(c) /\ job.task # SolveTask(c) => SolvedCase(c)'
  BY <1>4, SolvedSame
<1>6. SolveProgress'
  BY <1>2, <1>5 DEF ResultsInv, SolveProgress
<1>7. At("benchmark") => \A c \in Cases : runs'[c] = runs[c] /\ job.task # SolveTask(c)
  <2>1. At("benchmark") => job.task \in PerfTasks
    BY <1>1 DEF StageOK, At
  <2> QED
    BY <2>1, TaskKind
<1>8. At("benchmark") => \A t \in Due : Benchmarked(t) => Benchmarked(t)'
  <2> SUFFICES ASSUME At("benchmark"), NEW t \in Due, PerfDone(t), job.task # t
               PROVE  PerfDone(t)'
    BY DEF Benchmarked
  <2> QED
    BY <1>4, <1>7, PerfSame
<1>9. BenchProgress'
  BY <1>2, <1>8, BenchmarkedStep DEF ResultsInv, Within
<1>10. TodoOK' /\ AllMeansMeasured' /\ RowsOK'
  BY <1>1, SameTodo, BusyResults DEF ResultsInv, RowsOK
<1>11. StagesDone'
  <2>1. ~At("summarize")
    BY <1>1 DEF StageOK, At
  <2> QED
    BY <1>2, <1>4, <1>5, <1>7, <2>1 DEF ResultsInv, StagesDone
<1> QED
  BY <1>3, <1>6, <1>9, <1>10, <1>11 DEF ResultsInv

LEMMA BodyJob ==
    ASSUME JobOK, InBody,
           (\E content : Outcome(content)) \/ (\E label \in SmokeBody \cup SolveBody \cup BenchBody : Goto(label))
    PROVE  /\ InBody' /\ pc # "idle" /\ job'.task = job.task /\ job'.todo = job.todo
           /\ job'.queue = job.queue /\ job'.seen = job.seen /\ job'.ok = job.ok
           /\ job'.request = job.request
<1>1. pc # "idle" /\ InBody'
  BY DEF InBody, SmokeBody, SolveBody, BenchBody, Outcome, Goto
<1>2. CASE \E label : Goto(label)
  BY <1>1, <1>2 DEF Goto
<1>3. CASE \E content : Outcome(content)
  BY <1>1, <1>3 DEF Outcome, JobOK, NoJob
<1> QED
  BY <1>1, <1>2, <1>3

LEMMA TaskStepsResults ==
    ASSUME RecordsInv, ResultsInv,
           \/ SmokeXml \/ SolveLayout \/ BenchCommand \/ BenchEnvironment
           \/ BenchMeasurements \/ BenchActivation \/ SolveFails \/ BodyFails
           \/ \E ok \in BOOLEAN : SmokeRun(ok) \/ Upload(ok)
           \/ \E k \in Programs : SolveXml(k)
           \/ \E report \in Reports, rest \in BOOLEAN : SolveReport(report, rest)
           \/ \E table \in Tables \cup {None} : Launch(table)
    PROVE  ResultsInv'
<1>1. pc \in SmokeBody \cup SolveBody \cup BenchBody
  BY DEF SmokeXml, SolveLayout, BenchCommand, BenchEnvironment, BenchMeasurements,
         BenchActivation, SmokeRun, Upload, SolveFails, BodyFails, SolveXml, SolveReport, Launch, files, SmokeBody, SolveBody, BenchBody
<1>2. InBody /\ JobOK /\ StageOK /\ TypeOK
  BY <1>1 DEF InBody, RecordsInv
<1>3. (\E content : Outcome(content)) \/ (\E label \in SmokeBody \cup SolveBody \cup BenchBody : Goto(label))
  BY DEF SmokeXml, SolveLayout, BenchCommand, BenchEnvironment, BenchMeasurements,
         BenchActivation, SmokeRun, Upload, SolveFails, BodyFails, SolveXml, SolveReport, Launch, files, Publish,
         SmokeBody, SolveBody, BenchBody
<1>4. UNCHANGED <<store, input, env>>
  BY DEF SmokeXml, SolveLayout, BenchCommand, BenchEnvironment, BenchMeasurements,
         BenchActivation, SmokeRun, Upload, SolveFails, BodyFails, SolveXml, SolveReport, Launch, files, user
<1>5. \A c \in Cases : job.task # SolveTask(c) => runs'[c] = runs[c]
  <2>1. CASE pc \in SolveBody
    <3>1. job.task \in SolveTasks
      BY <1>2, <2>1, TaskKind DEF StageOK, At
    <3>2. job.task[2] \in Cases /\ job.task = SolveTask(job.task[2])
      BY <3>1, SolveKind
    <3>3. \A c \in Cases : c # job.task[2] => runs'[c] = runs[c]
      BY <1>2, <2>1 DEF SmokeXml, SolveLayout, BenchCommand, BenchEnvironment, BenchMeasurements,
         BenchActivation, SmokeRun, Upload, SolveFails, BodyFails, SolveXml, SolveReport, Launch, files, SolveBody, TypeOK
    <3> QED
      BY <3>2, <3>3
  <2>2. CASE pc \notin SolveBody
    BY <2>2 DEF SmokeXml, SolveLayout, BenchCommand, BenchEnvironment, BenchMeasurements,
         BenchActivation, SmokeRun, Upload, SolveFails, BodyFails, SolveXml, SolveReport, Launch, files, SolveBody
  <2> QED
    BY <2>1, <2>2
<1>6. \A t \in PerfTasks : job.task # t => perf'[t] = perf[t]
  BY <1>2 DEF SmokeXml, SolveLayout, BenchCommand, BenchEnvironment, BenchMeasurements,
         BenchActivation, SmokeRun, Upload, SolveFails, BodyFails, SolveXml, SolveReport, Launch, files, Publish, TypeOK
<1> QED
  BY <1>2, <1>3, <1>4, <1>5, <1>6, BodyJob, BodyResults

\* A task that has finished well is a result.
LEMMA FinishResults == ASSUME RecordsInv, ResultsInv, Finish PROVE ResultsInv'
<1> DEFINE t == job.task
           status == IF job.made = None THEN "failed" ELSE "passed"
           rec == Closed(job.made, store[t].input)
<1>1. InBody /\ t \in Tasks /\ JobOK /\ StageOK /\ TypeOK /\ pc = "finish"
  BY TaskKind DEF RecordsInv, Finish, InBody, StageOK
<1>2. UNCHANGED <<runs, perf, input, env>>
  BY DEF Finish, files, user
<1>3. store' = [store EXCEPT ![t] = rec] /\ pc' = "next" /\ ~InBody'
  BY DEF Finish, Put, InBody, SmokeBody, SolveBody, BenchBody
<1>4. rec.status = status /\ rec.input = store[t].input /\ rec.output = job.made
  BY <1>1, ClosedFacts
<1>5. rec # None
  BY <1>1, ClosedFacts
<1> HIDE DEF rec
<1>6. \A u \in Tasks : store'[u] = IF u = t THEN rec ELSE store[u]
  BY <1>1, <1>3 DEF TypeOK
<1>7. /\ job'.todo = job.todo /\ job'.queue = job.queue /\ job'.seen = job.seen
      /\ job'.request = job.request /\ job'.task = job.task
      /\ job'.ok => job.ok /\ job.made # None
  BY <1>1 DEF Finish, JobOK, NoJob
<1>8. /\ \A s : At(s)' = At(s) /\ Within(s)' = Within(s)
      /\ RunsAll' = RunsAll /\ Selected' = Selected
  BY <1>1, <1>3, <1>7, SelectionSame DEF At, Within, RunsAll
<1>9. /\ Selected \subseteq Cases /\ Due \subseteq PerfTasks /\ PerfTasks \subseteq Tasks
      /\ \A c \in Selected : /\ SolveTask(c) \in Tasks /\ PerfTask(c) \in Tasks
                             /\ SolveTask(c) \in SolveTasks /\ PerfTask(c) \in PerfTasks
  BY <1>1, SelectedFacts
<1>10. SeenOK'
  <2> SUFFICES ASSUME Within("solve"), NEW c \in Range(job.queue)
               PROVE  job.seen[SolveTask(c)] = store'[SolveTask(c)]
    BY <1>3, <1>7, <1>8 DEF ResultsInv, SeenOK
  <2>1. c \in Cases
    <3>1. job.queue \in Seq(Cases)
      BY <1>1 DEF StageOK, Within
    <3> QED
      BY <3>1, ElementOfSeq, LenProperties DEF Range
  <2>2. job.seen[SolveTask(c)] = store[SolveTask(c)] /\ t # SolveTask(c)
    BY <1>1 DEF ResultsInv, SeenOK
  <2> QED
    BY <1>6, <2>1, <2>2, TaskKind
<1>11. \A c \in Selected : SolvedCase(c) /\ t # SolveTask(c) => SolvedCase(c)'
  BY <1>2, <1>6, <1>9, SolvedSame
<1>12. ASSUME NEW c \in Selected, t = SolveTask(c), job'.ok PROVE SolvedCase(c)'
  <2>1. job.made # None /\ t \in SolveTasks /\ t[1] = "solve" /\ t[2] = c
    BY <1>7, <1>9, <1>12, Kinds
  <2>2. Complete(t, job.made) /\ store[t].input = input[c]
    BY <1>1, <2>1 DEF RecordsInv, MadeOK, BodyOK
  <2>3. store'[SolveTask(c)] = rec /\ rec.status = "passed"
    BY <1>1, <1>4, <1>6, <1>12, <2>1
  <2> QED
    BY <1>2, <1>4, <1>5, <2>1, <2>2, <2>3 DEF SolvedCase, Passed, Complete, ReportIsValid
<1>13. SolveProgress'
  BY <1>7, <1>8, <1>11, <1>12 DEF ResultsInv, SolveProgress
<1>14. \A u \in Due : PerfDone(u) /\ t # u => PerfDone(u)'
  BY <1>2, <1>6, <1>7, <1>9, PerfSame
<1>15. ASSUME t \in Due, job'.ok PROVE PerfDone(t)'
  <2>1. job.made # None /\ t \in PerfTasks /\ t[1] \notin {"solve", "smoke"}
    BY <1>7, <1>9, <1>15, TaskKind
  <2>2. /\ perf[t].files = 6 /\ perf[t].reading = job.made /\ job.made.env = env
        /\ store[t].input = BenchmarkInput(t)
    BY <1>1, <2>1 DEF RecordsInv, MadeOK, BodyOK, Complete
  <2>3. store'[t] = rec /\ rec.status = "passed"
    BY <1>1, <1>4, <1>6, <2>1
  <2>4. BenchmarkInput(job.task)' = BenchmarkInput(t)
    BY <1>2, <1>7, <2>1, InputSame
  <2> QED
    BY <1>2, <1>4, <1>5, <1>7, <2>2, <2>3, <2>4 DEF PerfDone, Passed
<1>16. BenchProgress'
  <2>1. job'.ok => \A u \in Due : Benchmarked(u) => Benchmarked(u)'
    <3> SUFFICES ASSUME job'.ok, NEW u \in Due, Benchmarked(u) PROVE Benchmarked(u)'
      OBVIOUS
    <3>1. CASE u = t
      BY <1>7, <1>15, <3>1 DEF Benchmarked
    <3>2. CASE u # t
      BY <1>7, <1>14, <3>2 DEF Benchmarked
    <3> QED
      BY <3>1, <3>2
  <2> QED
    BY <1>7, <1>8, <2>1, BenchmarkedStep DEF ResultsInv
<1>17. TodoOK' /\ AllMeansMeasured' /\ RowsOK'
  BY <1>1, <1>3, <1>7, SameTodo, BusyResults DEF ResultsInv, RowsOK
<1>18. StagesDone'
  <2>1. ~At("summarize") /\ (At("benchmark") => job.task \in PerfTasks)
    BY <1>1 DEF StageOK, At
  <2>2. At("benchmark") => \A c \in Selected : t # SolveTask(c)
    BY <1>9, <2>1, TaskKind
  <2> QED
    BY <1>8, <1>11, <2>1, <2>2 DEF ResultsInv, StagesDone
<1> QED
  BY <1>10, <1>13, <1>16, <1>17, <1>18 DEF ResultsInv

-----------------------------------------------------------------------------
(* The loops *)

LEMMA BeginSmokeResults == ASSUME RecordsInv, ResultsInv, BeginSmoke PROVE ResultsInv'
<1>1. /\ JobOK /\ pc = "dispatch" /\ Head(job.todo) = "smoke" /\ pc' = "smoke.xml"
      /\ job' = [job EXCEPT !.task = SmokeTask]
  BY DEF RecordsInv, BeginSmoke, Start
<1>2. job'.todo = job.todo /\ job'.request = job.request
  BY <1>1 DEF JobOK, NoJob
<1>3. ~At("solve")' /\ ~At("benchmark")' /\ ~At("summarize")'
  BY <1>1, <1>2 DEF At
<1>4. TodoOK' /\ AllMeansMeasured' /\ RowsOK'
  BY <1>1, <1>2, SameTodo, BusyResults DEF ResultsInv, RowsOK
<1> QED
  BY <1>3, <1>4 DEF ResultsInv, SeenOK, SolveProgress, BenchProgress, StagesDone, Within

\* Only the stages solve and benchmark depend on the queue.
LEMMA SolveLoopResults ==
    ASSUME ResultsInv, pc # "idle", pc' \notin {"idle", "report"}, At("solve"),
           job'.todo = job.todo, job'.request = job.request, SeenOK', SolveProgress'
    PROVE  ResultsInv'
<1>1. ~At("benchmark")' /\ ~At("summarize")'
  BY DEF At
<1>2. TodoOK' /\ AllMeansMeasured' /\ RowsOK'
  BY SameTodo, BusyResults DEF ResultsInv, RowsOK
<1> QED
  BY <1>1, <1>2 DEF ResultsInv, BenchProgress, StagesDone, Within

LEMMA BenchLoopResults ==
    ASSUME ResultsInv, pc # "idle", pc' \notin {"idle", "report"}, At("benchmark"),
           job'.todo = job.todo, job'.request = job.request, BenchProgress',
           RunsAll => \A c \in Selected : SolvedCase(c)'
    PROVE  ResultsInv'
<1>1. ~At("solve")' /\ ~At("summarize")' /\ RunsAll' = RunsAll /\ Selected' = Selected
  BY SelectionSame DEF At, RunsAll
<1>2. TodoOK' /\ AllMeansMeasured' /\ RowsOK'
  BY SameTodo, BusyResults DEF ResultsInv, RowsOK
<1> QED
  BY <1>1, <1>2 DEF ResultsInv, SeenOK, SolveProgress, StagesDone, Within

LEMMA BeginSolveResults == ASSUME RecordsInv, ResultsInv, BeginSolve PROVE ResultsInv'
<1>1. /\ JobOK /\ pc = "dispatch" /\ At("solve") /\ pc' = "next" /\ ~InBody' /\ store' = store
      /\ job' = [job EXCEPT !.seen = store, !.queue = Select(job.request)]
  BY DEF RecordsInv, BeginSolve, At, InBody, SmokeBody, SolveBody, BenchBody
<1>2. /\ job'.todo = job.todo /\ job'.request = job.request
      /\ job'.seen = store /\ job'.queue = Select(job.request)
  BY <1>1 DEF JobOK, NoJob
<1>3. \A i, j \in DOMAIN Select(job.request) :
        Select(job.request)[i] = Select(job.request)[j] => i = j
  BY <1>1, SelectFacts DEF JobOK
<1>4. SeenOK'
  BY <1>1, <1>2, <1>3 DEF SeenOK
<1>5. SolveProgress'
  BY <1>2 DEF SolveProgress, Selected
<1> QED
  BY <1>1, <1>2, <1>4, <1>5, SolveLoopResults

\* The first case leaves the queue, once.
LEMMA QueueStep ==
    ASSUME NEW S, NEW s \in Seq(S), s # <<>>,
           \A i, j \in DOMAIN s : s[i] = s[j] => i = j
    PROVE  /\ \A i, j \in DOMAIN Tail(s) : Tail(s)[i] = Tail(s)[j] => i = j
           /\ Head(s) \notin Range(Tail(s))
<1>1. /\ DOMAIN s = 1..Len(s) /\ DOMAIN Tail(s) = 1..(Len(s) - 1) /\ Len(s) \in Nat
      /\ Head(s) = s[1] /\ Len(s) >= 1
      /\ \A i \in 1..(Len(s) - 1) : Tail(s)[i] = s[i + 1]
  BY Queue, LenProperties
<1>2. ASSUME NEW i \in DOMAIN Tail(s), NEW j \in DOMAIN Tail(s), Tail(s)[i] = Tail(s)[j]
      PROVE  i = j
  <2>1. s[i + 1] = s[j + 1] /\ i + 1 \in DOMAIN s /\ j + 1 \in DOMAIN s
    BY <1>1, <1>2
  <2>2. i + 1 = j + 1
    BY <2>1
  <2> QED
    BY <1>1, <2>2
<1>3. ASSUME NEW i \in DOMAIN Tail(s), Tail(s)[i] = Head(s) PROVE FALSE
  <2>1. s[i + 1] = s[1] /\ i + 1 \in DOMAIN s /\ 1 \in DOMAIN s
    BY <1>1, <1>3
  <2>2. i + 1 = 1
    BY <2>1
  <2> QED
    BY <1>1, <2>2
<1> QED
  BY <1>2, <1>3 DEF Range

LEMMA SolveNextResults == ASSUME RecordsInv, ResultsInv, SolveNext PROVE ResultsInv'
<1> DEFINE d == Head(job.queue)
           t == SolveTask(d)
<1>1. /\ pc = "next" /\ job.queue # <<>> /\ At("solve") /\ ~InBody /\ Within("solve")
      /\ job.queue \in Seq(Cases) /\ JobOK /\ TypeOK /\ UNCHANGED <<runs, input>>
  BY DEF SolveNext, RecordsInv, StageOK, At, Within, InBody, SmokeBody, SolveBody, BenchBody,
         files, Start, user
<1>2. /\ d \in Cases /\ t \in Tasks /\ Range(job.queue) = {d} \cup Range(Tail(job.queue))
  BY <1>1, Queue, TaskKind
<1>3. /\ \A i, j \in DOMAIN job.queue : job.queue[i] = job.queue[j] => i = j
      /\ \A c \in Range(job.queue) : job.seen[SolveTask(c)] = store[SolveTask(c)]
  BY <1>1 DEF ResultsInv, SeenOK
<1>4. /\ \A i, j \in DOMAIN Tail(job.queue) : Tail(job.queue)[i] = Tail(job.queue)[j] => i = j
      /\ d \notin Range(Tail(job.queue))
  BY <1>1, <1>3, QueueStep
<1>5. Selected \subseteq Cases
  BY <1>1, SelectedFacts
<1>6. CASE /\ RecordReusable(job.seen[t], d) /\ job' = [job EXCEPT !.queue = Tail(@)]
           /\ UNCHANGED <<store, pc>>
  <2>1. /\ job'.todo = job.todo /\ job'.request = job.request /\ job'.ok = job.ok
        /\ job'.queue = Tail(job.queue) /\ job'.seen = job.seen /\ ~InBody' /\ pc' = "next"
    BY <1>1, <1>6 DEF JobOK, NoJob, InBody
  <2>2. SeenOK'
    BY <1>2, <1>3, <1>4, <1>6, <2>1 DEF SeenOK
  <2>3. SolvedCase(d)
    <3>1. job.seen[t] = store[t]
      BY <1>2, <1>3
    <3>2. /\ Passed(store[t]) /\ store[t].input = input[d] /\ runs[d].xml # None
          /\ store[t].output = runs[d].xml
      BY <1>6, <3>1 DEF RecordReusable
    <3>3. t \notin cleaned
      BY <1>2, <3>2 DEF RecordsInv, CleanedOK
    <3>4. t[1] = "solve" /\ t[2] = d
      BY Kinds
    <3>5. ReportIsValid(runs[d].report)
      <4> HIDE DEF t
      <4> QED
        BY <1>2, <3>2, <3>3, <3>4 DEF RecordsInv, PassedIsComplete
    <3> QED
      BY <3>2, <3>5 DEF SolvedCase
  <2>4. \A c \in Selected : SolvedCase(c) => SolvedCase(c)'
    BY <1>1, <1>6, SolvedSame
  <2>5. SolveProgress'
    BY <1>1, <1>2, <2>1, <2>3, <2>4 DEF ResultsInv, SolveProgress, Selected
  <2> QED
    BY <1>1, <2>1, <2>2, <2>5, SolveLoopResults
<1>7. CASE Start(t, input[d], "solve.layout") /\ job' = [job EXCEPT !.queue = Tail(@), !.task = t]
  <2>1. /\ job'.todo = job.todo /\ job'.request = job.request /\ job'.ok = job.ok
        /\ job'.queue = Tail(job.queue) /\ job'.seen = job.seen /\ job'.task = t
    BY <1>1, <1>7 DEF JobOK, NoJob
  <2>2. pc' = "solve.layout" /\ InBody'
    BY <1>7 DEF Start, InBody, SolveBody
  <2>3. \A u \in Tasks : u # t => store'[u] = store[u]
    BY <1>1, <1>7 DEF Start, Put, TypeOK
  <2>4. Range(Tail(job.queue)) \subseteq Cases
    <3>1. Tail(job.queue) \in Seq(Cases)
      BY <1>1, Queue
    <3> QED
      BY <3>1, ElementOfSeq, LenProperties DEF Range
  <2>5. \A c \in Cases : c # d => SolveTask(c) # t /\ SolveTask(c) \in Tasks
    BY Kinds, TaskKind
  <2> HIDE DEF t, d
  <2>6. SeenOK'
    <3>1. \A c \in Range(Tail(job.queue)) :
             job.seen[SolveTask(c)] = store'[SolveTask(c)] /\ t # SolveTask(c)
      BY <1>2, <1>3, <1>4, <2>3, <2>4, <2>5
    <3> QED
      BY <1>4, <2>1, <3>1 DEF SeenOK
  <2>7. \A c \in Selected : SolvedCase(c) /\ c # d => SolvedCase(c)'
    BY <1>1, <1>5, <2>3, <2>5, SolvedSame
  <2>8. SolveProgress'
    <3> SUFFICES ASSUME job.ok, NEW c \in Selected
                 PROVE  \/ SolvedCase(c)' \/ c \in Range(Tail(job.queue)) \/ t = SolveTask(c)
      BY <2>1, <2>2 DEF SolveProgress, Selected
    <3>1. SolvedCase(c) \/ c \in Range(job.queue)
      BY <1>1 DEF ResultsInv, SolveProgress
    <3> QED
      BY <1>2, <2>7, <3>1 DEF t
  <2> QED
    BY <1>1, <2>1, <2>2, <2>6, <2>8, SolveLoopResults
<1> QED
  BY <1>6, <1>7 DEF SolveNext

LEMMA BeginBenchmarkResults ==
    ASSUME RecordsInv, ResultsInv, NEW staged \in BOOLEAN, BeginBenchmark(staged)
    PROVE  ResultsInv'
<1> DEFINE selected == Select(job.request)
           queue == [i \in DOMAIN selected |-> PerfTask(selected[i])]
           seen == {c \in Cases : Passed(store[SolveTask(c)])}
<1>1. /\ JobOK /\ pc = "dispatch" /\ At("benchmark") /\ UNCHANGED <<store, runs, input>>
      /\ seen # None
  BY NoneAssumption DEF RecordsInv, BeginBenchmark, At, files, user
<1>2. CASE Exit(2)
  BY <1>2, ExitResults
<1>3. CASE pc' = "next" /\ job' = [job EXCEPT !.seen = seen, !.queue = queue]
  <2>1. /\ job'.todo = job.todo /\ job'.request = job.request
        /\ job'.seen = seen /\ job'.queue = queue
    BY <1>1, <1>3 DEF JobOK, NoJob
  <2>2. Selected \subseteq Cases
    BY <1>1, SelectedFacts
  <2>3. RunsAll => \A c \in Selected : SolvedCase(c)
    BY <1>1 DEF ResultsInv, StagesDone
  <2>4. RunsAll => Selected \subseteq seen
    BY <2>2, <2>3 DEF SolvedCase
  <2>5. \A c \in Selected : PerfTask(c) \in Range(queue)
    BY DEF Selected, Range
  <2>6. RunsAll => \A c \in Selected : SolvedCase(c)'
    BY <1>1, <2>3, SolvedSame
  <2> HIDE DEF queue, seen
  <2>7. BenchProgress'
    <3>1. RunsAll' = RunsAll /\ Selected' = Selected /\ CaseTasks' = CaseTasks
      BY <1>1, <1>3, <2>1, SelectionSame DEF RunsAll
    <3>2. Due' = CaseTasks
      BY <1>1, <2>1, <3>1 DEF Due
    <3>3. \A t \in CaseTasks : Benchmarked(t)'
      BY <2>1, <2>5 DEF CaseTasks, Benchmarked
    <3> QED
      BY <2>1, <2>4, <3>1, <3>2, <3>3 DEF BenchProgress
  <2> QED
    BY <1>1, <1>3, <2>1, <2>6, <2>7, BenchLoopResults
<1> QED
  BY <1>2, <1>3 DEF BeginBenchmark

LEMMA CopyBaselinesResults ==
    ASSUME RecordsInv, ResultsInv, NEW found \in BOOLEAN, CopyBaselines(found)
    PROVE  ResultsInv'
<1> DEFINE queue == [i \in DOMAIN Baselines |-> BaseTask(Baselines[i])]
<1>1. /\ JobOK /\ pc = "next" /\ At("benchmark") /\ job.queue = <<>> /\ ~InBody
      /\ UNCHANGED <<store, runs, perf, input, env>>
  BY DEF RecordsInv, CopyBaselines, At, user, InBody, SmokeBody, SolveBody, BenchBody
<1>2. CASE Exit(Traceback) \/ Exit(2)
  BY <1>2, ExitResults DEF Traceback
<1>3. CASE pc' = pc /\ job' = [job EXCEPT !.seen = None, !.queue = queue]
  <2>1. /\ job'.todo = job.todo /\ job'.request = job.request
        /\ job'.seen = None /\ job'.ok = job.ok /\ job'.queue = queue
    BY <1>1, <1>3 DEF JobOK, NoJob
  <2>2. RunsAll => \A c \in Selected : SolvedCase(c)'
    BY <1>1, SolvedSame DEF ResultsInv, StagesDone
  <2>3. Range(job.queue) = {} /\ Within("benchmark")
    BY <1>1 DEF Range, Within
  <2>4. ASSUME RunsAll, job.ok, NEW t \in CaseTasks PROVE PerfDone(t)'
    <3>1. PerfDone(t)
      BY <1>1, <2>3, <2>4 DEF ResultsInv, BenchProgress, Benchmarked, Due
    <3>2. t \in PerfTasks
      BY <1>1, SelectedFacts
    <3> QED
      BY <1>1, <2>1, <3>1, <3>2, PerfSame
  <2>5. BenchProgress'
    <3>1. RunsAll' = RunsAll /\ Due' = CaseTasks \cup RivalTasks
      BY <1>1, <1>3, <2>1, SelectionSame DEF RunsAll, Due
    <3>2. \A t \in RivalTasks : t \in Range(queue)
      BY DEF RivalTasks, Range
    <3> HIDE DEF queue
    <3> QED
      BY <2>1, <2>4, <3>1, <3>2 DEF BenchProgress, Benchmarked
  <2> QED
    BY <1>1, <1>3, <2>1, <2>2, <2>5, BenchLoopResults
<1> QED
  BY <1>2, <1>3 DEF CopyBaselines

LEMMA BenchNextResults == ASSUME RecordsInv, ResultsInv, BenchNext PROVE ResultsInv'
<1> DEFINE t == Head(job.queue)
<1>1. /\ pc = "next" /\ job.queue # <<>> /\ At("benchmark") /\ ~InBody /\ Within("benchmark")
      /\ job.queue \in Seq(PerfTasks) /\ JobOK /\ TypeOK /\ UNCHANGED <<runs, perf>>
      /\ job.seen # None => job.queue \in Seq(OwnTasks)
  BY DEF BenchNext, RecordsInv, StageOK, At, Within, InBody, SmokeBody, SolveBody, BenchBody, files
<1>2. t \in PerfTasks /\ Range(job.queue) = {t} \cup Range(Tail(job.queue))
  BY <1>1, Queue
<1>3. /\ Selected \subseteq Cases /\ Due \subseteq PerfTasks /\ PerfTasks \subseteq Tasks
      /\ \A c \in Selected : SolveTask(c) \in Tasks /\ SolveTask(c) # t
  <2>1. \A c \in Selected : SolveTask(c) \in SolveTasks
    BY <1>1, SelectedFacts
  <2> QED
    BY <1>1, <1>2, <2>1, SelectedFacts, TaskKind
<1>4. RunsAll => \A c \in Selected : SolvedCase(c)
  BY <1>1 DEF ResultsInv, StagesDone
<1>5. RunsAll /\ job.seen # None => Selected \subseteq job.seen
  BY <1>1 DEF ResultsInv, BenchProgress
<1>6. CASE Exit(2)
  BY <1>6, ExitResults
<1>7. CASE /\ \/ IF job.seen # None THEN t[2] \notin job.seen ELSE ~PairSelected(t[2])
              \/ job.request.resume /\ PerformanceReusable(store[t], t)
           /\ job' = [job EXCEPT !.queue = Tail(@)]
           /\ UNCHANGED <<store, pc, interrupted, user>>
  <2>1. /\ job'.todo = job.todo /\ job'.request = job.request /\ job'.ok = job.ok
        /\ job'.queue = Tail(job.queue) /\ job'.seen = job.seen
    BY <1>1, <1>7 DEF JobOK, NoJob
  <2>2. UNCHANGED <<input, env, store>>
    BY <1>7 DEF user
  <2>3. RunsAll => \A c \in Selected : SolvedCase(c)'
    BY <1>1, <1>4, <2>2, SolvedSame
  <2>4. ASSUME RunsAll, t \in Due PROVE PerfDone(t)
    <3>1. CASE t \in CaseTasks
      <4>1. PICK c \in Selected : t = PerfTask(c)
        BY <3>1 DEF CaseTasks
      <4>2. t[2] = c /\ PairSelected(c)
        BY <4>1, Kinds DEF PairSelected
      <4>3. job.request.resume /\ PerformanceReusable(store[t], t)
        BY <1>5, <1>7, <2>4, <4>2
      <4> QED
        BY <4>3 DEF PerformanceReusable, PerfDone
    <3>2. CASE t \notin CaseTasks
      <4>1. job.seen = None /\ t \in RivalTasks
        BY <2>4, <3>2 DEF Due
      <4>2. PairSelected(t[2])
        BY <4>1, Kinds DEF RivalTasks
      <4>3. job.request.resume /\ PerformanceReusable(store[t], t)
        BY <1>7, <4>1, <4>2
      <4> QED
        BY <4>3 DEF PerformanceReusable, PerfDone
    <3> QED
      BY <3>1, <3>2
  <2>5. \A u \in Due : PerfDone(u) => PerfDone(u)'
    BY <1>1, <1>3, <2>1, <2>2, PerfSame
  <2> HIDE DEF t
  <2>6. BenchProgress'
    <3>1. RunsAll => \A u \in Due : Benchmarked(u) => Benchmarked(u)'
      BY <1>1, <1>2, <2>1, <2>4, <2>5 DEF Benchmarked
    <3>2. RunsAll' => RunsAll
      BY <1>1, <2>1 DEF RunsAll
    <3> QED
      BY <1>1, <2>1, <3>1, <3>2, BenchmarkedStep DEF ResultsInv
  <2> QED
    BY <1>1, <1>7, <2>1, <2>3, <2>6, BenchLoopResults
<1>8. CASE /\ Start(t, BenchmarkInput(t), "bench.command")
           /\ job' = [job EXCEPT !.queue = Tail(@), !.task = t]
  <2>1. /\ job'.todo = job.todo /\ job'.request = job.request /\ job'.ok = job.ok
        /\ job'.queue = Tail(job.queue) /\ job'.seen = job.seen /\ job'.task = t
    BY <1>1, <1>8 DEF JobOK, NoJob
  <2>2. pc' = "bench.command" /\ InBody' /\ UNCHANGED <<input, env>>
    BY <1>8 DEF Start, InBody, BenchBody
  <2>3. \A u \in Tasks : u # t => store'[u] = store[u]
    BY <1>1, <1>8 DEF Start, Put, TypeOK
  <2> HIDE DEF t
  <2>4. RunsAll => \A c \in Selected : SolvedCase(c)'
    BY <1>1, <1>3, <1>4, <2>2, <2>3, SolvedSame
  <2>5. \A u \in Due : PerfDone(u) /\ u # t => PerfDone(u)'
    BY <1>1, <1>3, <2>1, <2>2, <2>3, PerfSame
  <2>6. BenchProgress'
    <3>1. \A u \in Due : Benchmarked(u) => Benchmarked(u)'
      BY <1>1, <1>2, <2>1, <2>2, <2>5 DEF Benchmarked
    <3>2. RunsAll' => RunsAll
      BY <1>1, <2>1 DEF RunsAll
    <3> QED
      BY <1>1, <2>1, <3>1, <3>2, BenchmarkedStep DEF ResultsInv
  <2> QED
    BY <1>1, <2>1, <2>2, <2>4, <2>6, BenchLoopResults
<1> QED
  BY <1>6, <1>7, <1>8 DEF BenchNext

-----------------------------------------------------------------------------
(* The report *)

LEMMA InvokeResults ==
    ASSUME RecordsInv, NEW request \in Requests, Invoke(request)
    PROVE  ResultsInv'
<1>1. /\ pc' = "dispatch" /\ job'.request = request
      /\ job'.todo = IF request.stage = "all" THEN AllStages ELSE <<request.stage>>
  BY DEF Invoke, NoJob
<1>2. TodoOK'
  <2>1. RunsAll' => job'.todo = AllStages
    BY <1>1 DEF RunsAll
  <2>2. Len(AllStages) \in 1..5
    BY StageNames
  <2>3. \A i \in 1..Len(AllStages) : 5 - Len(AllStages) + i = i
    BY StageNames
  <2> QED
    BY <2>1, <2>2, <2>3 DEF TodoOK
<1>3. RunsAll' => ~At("benchmark")' /\ ~At("summarize")'
  BY <1>1 DEF RunsAll, At, AllStages
<1>4. AllMeansMeasured'
  BY <1>1, BusyResults
<1> QED
  BY <1>1, <1>2, <1>3, <1>4 DEF ResultsInv, SeenOK, SolveProgress, BenchProgress, StagesDone,
                                RowsOK, Within

LEMMA WriteReportResults == ASSUME RecordsInv, ResultsInv, WriteReport PROVE ResultsInv'
<1>1. /\ JobOK /\ pc = "dispatch" /\ At("summarize") /\ TypeOK
      /\ UNCHANGED <<store, runs, perf, input, env>>
  BY DEF RecordsInv, WriteReport, At, user
<1>2. CASE Exit(2) \/ Exit(Traceback)
  BY <1>2, ExitResults DEF Traceback
<1>3. CASE summary' = [summary EXCEPT !.files = 1, !.rows = ReportRows] /\ Goto("report")
  <2>1. pc' = "report" /\ job' = job /\ summary'.rows = ReportRows
    BY <1>1, <1>3 DEF Goto, TypeOK
  <2>2. /\ ~At("solve")' /\ ~At("benchmark")' /\ RunsAll' = RunsAll /\ Selected' = Selected
        /\ CaseTasks' = CaseTasks /\ RivalTasks' = RivalTasks
    BY <1>1, <2>1, SelectionSame DEF At, RunsAll
  <2>3. RunsAll => /\ \A c \in Selected : SolvedCase(c)
                   /\ \A t \in CaseTasks \cup RivalTasks : PerfDone(t) /\ t \in Measured
    BY <1>1, SelectedFacts DEF ResultsInv, StagesDone, PerfDone, Measured
  <2>4. StagesDone'
    <3>1. RunsAll => \A c \in Selected : SolvedCase(c)'
      BY <1>1, <2>3, SolvedSame
    <3>2. RunsAll => \A t \in CaseTasks \cup RivalTasks : PerfDone(t)'
      BY <1>1, <2>1, <2>3, SelectedFacts, PerfSame
    <3> QED
      BY <2>2, <3>1, <3>2 DEF StagesDone
  <2>5. ASSUME RunsAll, NEW t \in CaseTasks \cup RivalTasks, NEW s \in Sizes, s \in SizesOf(t)
        PROVE  Reported(t, s)'
    <3>1. Row(t, s) \in ReportRows
      BY <2>3, <2>5, RowsOfLines
    <3>2. t \in CaseTasks => Metadata(t) = runs[t[2]].xml
      BY <2>3, <2>5, Kinds DEF Metadata, SolvedCase, CaseTasks
    <3>3. /\ Row(t, s).task = t /\ Row(t, s).size = s /\ Row(t, s).metadata = Metadata(t)
          /\ Row(t, s).reading = perf[t].reading
      BY RowFields
    <3> QED
      BY <1>1, <2>1, <2>2, <3>1, <3>2, <3>3 DEF Reported
  <2>6. RowsOK'
    <3> SUFFICES ASSUME RunsAll, NEW c \in Selected
                 PROVE  /\ Reported(PerfTask(c), Size[c])'
                        /\ \A t \in RivalTasks : Reported(t, Size[c])'
      BY <2>2 DEF RowsOK
    <3>1. Size[c] \in Sizes /\ PerfTask(c) \in CaseTasks
      BY <1>1, SelectedFacts, SizesAssumption DEF CaseTasks
    <3>2. Size[c] \in SizesOf(PerfTask(c))
      BY Kinds DEF SizesOf
    <3>3. \A t \in RivalTasks : Size[c] \in SizesOf(t)
      BY <3>1, Kinds DEF RivalTasks, SizesOf
    <3> QED
      BY <2>5, <3>1, <3>2, <3>3
  <2>7. TodoOK' /\ AllMeansMeasured'
    BY <1>1, <2>1, SameTodo, BusyResults DEF ResultsInv
  <2> QED
    BY <2>2, <2>4, <2>6, <2>7 DEF ResultsInv, SeenOK, SolveProgress, BenchProgress, Within
<1> QED
  BY <1>2, <1>3 DEF WriteReport

\* A finished benchmark is of the program and the environment it is reported for.
LEMMA ReportedReading ==
    ASSUME RecordsInv, NEW t \in PerfTasks, PerfDone(t)
    PROVE  ReadingCurrent(perf[t].reading, BenchmarkXml(t))
<1>1. ReadingOf(perf[t].reading, BenchmarkInput(t))
  BY DEF RecordsInv, ReadingsOK, PerfDone
<1>2. BenchmarkInput(t).xml = BenchmarkXml(t) /\ BenchmarkInput(t).env = env.digested
  BY DEF BenchmarkInput
<1> QED
  BY <1>1, <1>2 DEF ReadingOf, ReadingCurrent, PerfDone

LEMMA WriteSummaryFileResults ==
    ASSUME RecordsInv, ResultsInv, WriteSummaryFile
    PROVE  ResultsInv'
<1>1. /\ JobOK /\ pc = "report" /\ At("summarize") /\ TypeOK
      /\ UNCHANGED <<store, runs, perf, input, env>>
  BY DEF RecordsInv, WriteSummaryFile, StageOK, user
<1>2. /\ summary.files \in {1, 2}
      /\ summary'.files = summary.files + 1 /\ summary'.rows = summary.rows
  BY SummaryFileType
<1>3. RunsAll => /\ \A c \in Selected : SolvedCase(c)
                 /\ \A t \in CaseTasks \cup RivalTasks : PerfDone(t)
  BY <1>1 DEF ResultsInv, StagesDone
<1>4. RunsAll => Len(job.todo) = 1
  BY <1>1, AllPosition DEF ResultsInv
<1>5. CASE summary.files # 2 /\ UNCHANGED <<pc, job>>
  <2>1. /\ ~At("solve")' /\ ~At("benchmark")' /\ At("summarize")'
        /\ RunsAll' = RunsAll /\ Selected' = Selected
        /\ CaseTasks' = CaseTasks /\ RivalTasks' = RivalTasks
    BY <1>1, <1>5, SelectionSame DEF At, RunsAll
  <2>2. \A c \in Selected : SolvedCase(c) => SolvedCase(c)'
    BY <1>1, SolvedSame
  <2>3. \A t \in CaseTasks \cup RivalTasks : PerfDone(t) => PerfDone(t)'
    BY <1>1, <1>5, SelectedFacts, PerfSame
  <2>4. StagesDone'
    BY <1>3, <2>1, <2>2, <2>3 DEF StagesDone
  <2>5. RowsOK'
    <3>1. \A t, s : Reported(t, s) => Reported(t, s)'
      BY <1>1, <1>2, <2>1 DEF Reported
    <3> QED
      BY <1>1, <2>1, <3>1 DEF ResultsInv, RowsOK
  <2>6. TodoOK' /\ AllMeansMeasured'
    BY <1>1, <1>5, SameTodo, BusyResults DEF ResultsInv
  <2> QED
    BY <2>1, <2>4, <2>5, <2>6 DEF ResultsInv, SeenOK, SolveProgress, BenchProgress, Within
<1>6. CASE summary.files = 2 /\ Len(job.todo) = 1 /\ Exit(0)
  <2>1. pc' = "idle" /\ job'.request = job.request
    BY <1>6 DEF Exit, NoJob
  <2>2. ASSUME job.request.stage = "all", NEW t \in CaseTasks \cup RivalTasks,
               NEW s, Reported(t, s)
        PROVE  \E row \in summary.rows :
                  /\ row.task = t /\ row.size = s
                  /\ t \in CaseTasks => row.metadata = runs[t[2]].xml
                  /\ ReadingCurrent(row.reading, BenchmarkXml(t))'
    <3>1. t \in PerfTasks /\ PerfDone(t)
      BY <1>1, <1>3, <2>2, SelectedFacts DEF RunsAll
    <3>2. ReadingCurrent(perf[t].reading, BenchmarkXml(t))
      BY <3>1, ReportedReading
    <3>3. BenchmarkXml(t)' = BenchmarkXml(t)
      BY <1>1, <2>1, <3>1, InputSame
    <3>4. PICK row \in summary.rows :
             /\ row.task = t /\ row.size = s /\ row.reading = perf[t].reading
             /\ t \in CaseTasks => row.metadata = runs[t[2]].xml
      BY <2>2 DEF Reported
    <3>5. ReadingCurrent(row.reading, BenchmarkXml(t))'
      BY <1>1, <2>1, <3>2, <3>3, <3>4 DEF ReadingCurrent
    <3> QED
      BY <3>4, <3>5
  <2>3. ASSUME job.request.stage = "all", NEW c \in Selected
        PROVE  /\ Passed(store[SolveTask(c)]) /\ store[SolveTask(c)].input = input[c]
               /\ ReportIsValid(runs[c].report) /\ Passed(store[PerfTask(c)])
               /\ \E row \in summary.rows :
                    /\ row.task = PerfTask(c) /\ row.size = Size[c] /\ row.metadata = runs[c].xml
                    /\ ReadingCurrent(row.reading, runs[c].xml)'
    <3>1. /\ PerfTask(c) \in CaseTasks /\ PerfTask(c)[1] = "perf" /\ PerfTask(c)[2] = c
          /\ Reported(PerfTask(c), Size[c])
      BY <1>1, <2>3, Kinds DEF CaseTasks, ResultsInv, RowsOK, RunsAll
    <3>2. SolvedCase(c) /\ PerfDone(PerfTask(c))
      BY <1>1, <1>3, <2>3, <3>1 DEF RunsAll
    <3>3. BenchmarkXml(PerfTask(c))' = runs'[c].xml
      BY <3>1 DEF BenchmarkXml
    <3>4. PICK row \in summary.rows :
             /\ row.task = PerfTask(c) /\ row.size = Size[c] /\ row.metadata = runs[c].xml
             /\ ReadingCurrent(row.reading, BenchmarkXml(PerfTask(c)))'
      BY <2>2, <2>3, <3>1
    <3>5. ReadingCurrent(row.reading, runs[c].xml)'
      BY <3>3, <3>4 DEF ReadingCurrent
    <3> QED
      BY <3>2, <3>4, <3>5 DEF SolvedCase, PerfDone
  <2>4. ASSUME job.request.stage = "all", NEW b \in Range(Baselines), NEW c \in Selected,
               Pair[b] = Pair[c]
        PROVE  \E row \in summary.rows :
                  /\ row.task = BaseTask(b) /\ row.size = Size[c]
                  /\ ReadingCurrent(row.reading, BaselineXml(b))'
    <3>1. /\ BaseTask(b) \in RivalTasks /\ BaseTask(b)[1] = "base" /\ BaseTask(b)[2] = b
      BY <2>4, Kinds DEF RivalTasks, PairSelected
    <3>2. Reported(BaseTask(b), Size[c])
      BY <1>1, <2>4, <3>1 DEF ResultsInv, RowsOK, RunsAll
    <3>3. BenchmarkXml(BaseTask(b))' = BaselineXml(b)
      BY <3>1 DEF BenchmarkXml
    <3>4. PICK row \in summary.rows :
             /\ row.task = BaseTask(b) /\ row.size = Size[c]
             /\ ReadingCurrent(row.reading, BenchmarkXml(BaseTask(b)))'
      BY <2>2, <2>4, <3>1, <3>2
    <3>5. ReadingCurrent(row.reading, BaselineXml(b))'
      BY <3>3, <3>4 DEF ReadingCurrent
    <3> QED
      BY <3>4, <3>5
  <2>5. AllMeansMeasured'
    <3>1. summary'.files = 3
      BY <1>2, <1>6
    <3>2. Selected' = Selected
      BY <2>1, SelectionSame
    <3>3. /\ \A c \in Selected : /\ Passed(store[SolveTask(c)])' <=> Passed(store[SolveTask(c)])
                                 /\ Passed(store[PerfTask(c)])' <=> Passed(store[PerfTask(c)])
                                 /\ ReportIsValid(runs[c].report)' <=> ReportIsValid(runs[c].report)
      BY <1>1 DEF Passed, ReportIsValid
    <3> SUFFICES ASSUME job.request.stage = "all"
                 PROVE  /\ \A c \in Selected :
                             /\ Passed(store[SolveTask(c)])'
                             /\ store[SolveTask(c)].input = input[c]
                             /\ ReportIsValid(runs[c].report)'
                             /\ Passed(store[PerfTask(c)])'
                             /\ \E row \in summary.rows :
                                  /\ row.task = PerfTask(c) /\ row.size = Size[c]
                                  /\ row.metadata = runs[c].xml
                                  /\ ReadingCurrent(row.reading, runs[c].xml)'
                        /\ \A b \in Range(Baselines), c \in Selected : Pair[b] = Pair[c] =>
                             \E row \in summary.rows :
                                /\ row.task = BaseTask(b) /\ row.size = Size[c]
                                /\ ReadingCurrent(row.reading, BaselineXml(b))'
      BY <1>1, <1>2, <2>1, <3>1, <3>2 DEF AllMeansMeasured, Succeeded
    <3> QED
      BY <2>3, <2>4, <3>3
  <2> QED
    BY <2>1, <2>5 DEF ResultsInv, SeenOK, SolveProgress, BenchProgress, TodoOK, StagesDone,
                      RowsOK, Within, RunsAll, At
<1>7. CASE /\ Len(job.todo) # 1 /\ pc' = "dispatch"
           /\ job' = [job EXCEPT !.todo = Tail(@), !.queue = <<>>, !.task = None, !.ok = TRUE]
  <2>1. job'.todo = Tail(job.todo) /\ job'.request = job.request
    BY <1>1, <1>7 DEF JobOK, NoJob
  <2>2. ~At("solve") /\ ~At("benchmark")
    BY <1>1 DEF At
  <2> QED
    BY <1>1, <1>7, <2>1, <2>2, AdvanceResults
<1>8. summary.files = 2 => StageEnds(TRUE)
  BY DEF WriteSummaryFile
<1>9. summary.files = 2 /\ Len(job.todo) = 1 => Exit(0)
  BY <1>8 DEF StageEnds
<1>10. summary.files = 2 /\ Len(job.todo) # 1 =>
         /\ pc' = "dispatch"
         /\ job' = [job EXCEPT !.todo = Tail(@), !.queue = <<>>, !.task = None, !.ok = TRUE]
  BY <1>8 DEF StageEnds
<1>11. summary.files # 2 => UNCHANGED <<pc, job>>
  BY DEF WriteSummaryFile
<1> QED
  BY <1>5, <1>6, <1>7, <1>9, <1>10, <1>11

-----------------------------------------------------------------------------
(* Comparison with the baselines *)

LEMMA RowsComparison ==
    ASSUME ReadingsOK, summary'.rows = ReportRows
    PROVE  ComparisonSound'
<1> DEFINE ran(r) == r.reading.table[r.size]
           sound(r) == ran(r).confirmed /\ ~ran(r).wrong
<1> SUFFICES ASSUME NEW row \in ReportRows, row.baseline # None
             PROVE  LET rivals == {r \in ReportRows : /\ r.task[1] = "base" /\ sound(r)
                                                      /\ r.size = row.size
                                                      /\ Pair[r.task[2]] = Pair[row.task[2]]}
                    IN /\ sound(row)
                       /\ \E r \in rivals : ran(r).bw = row.baseline
                       /\ \A r \in rivals : ran(r).bw <= row.baseline
  BY DEF ComparisonSound
<1> DEFINE rivals == {r \in ReportRows : /\ r.task[1] = "base" /\ sound(r)
                                         /\ r.size = row.size
                                         /\ Pair[r.task[2]] = Pair[row.task[2]]}
<1>1. \A t, s : ran(Row(t, s)) = RunOf(t, s) /\ (sound(Row(t, s)) <=> Eligible(t, s))
  BY RowFields DEF RunOf, Eligible
<1> HIDE DEF ran, sound
<1>2. PICK t \in Measured, s \in Sizes : row = Row(t, s)
  BY RowsOfLines
<1> DEFINE p == Pair[t[2]]
<1>3. /\ Eligible(t, s) /\ BestBaseline(p, s) > 0 /\ row.baseline = BestBaseline(p, s)
      /\ row.task = t /\ row.size = s
  BY <1>2, RowFields
<1>4. sound(row)
  BY <1>1, <1>2, <1>3
<1>5. \A u \in Rivals(p, s) : Row(u, s) \in rivals
  <2> SUFFICES ASSUME NEW u \in Rivals(p, s) PROVE Row(u, s) \in rivals
    OBVIOUS
  <2>1. u \in Measured /\ u[1] = "base" /\ Pair[u[2]] = p /\ Eligible(u, s)
    BY DEF Rivals
  <2>2. Row(u, s) \in ReportRows
    BY <2>1, RowsOfLines DEF SizesOf
  <2> QED
    BY <1>1, <1>3, <2>1, <2>2, RowFields
<1>6. \E r \in rivals : ran(r).bw = row.baseline
  <2>1. PICK u \in Rivals(p, s) : RunOf(u, s).bw = BestBaseline(p, s)
    BY <1>3, BestBaselineFacts
  <2> QED
    BY <1>1, <1>3, <1>5, <2>1
<1>7. ASSUME NEW r \in rivals PROVE ran(r).bw <= row.baseline
  <2>1. PICK u \in Measured, q \in Sizes : r = Row(u, q)
    BY RowsOfLines
  <2>2. q = s /\ u[1] = "base" /\ Pair[u[2]] = p /\ Eligible(u, s)
    BY <1>1, <1>3, <2>1, RowFields
  <2>3. u \in Rivals(p, s) /\ ran(r) = RunOf(u, s)
    BY <1>1, <2>1, <2>2 DEF Rivals
  <2> QED
    BY <1>3, <2>3, BestBaselineFacts
<1> QED
  BY <1>4, <1>6, <1>7

LEMMA NextComparison ==
    ASSUME RecordsInv, ComparisonSound, [Next]_vars
    PROVE  ComparisonSound'
<1>1. \/ summary'.rows = summary.rows \/ summary'.rows = {} \/ summary'.rows = ReportRows
  <2>1. CASE WriteReport
    BY <2>1 DEF WriteReport, RecordsInv, TypeOK
  <2>2. CASE WriteSummaryFile
    BY <2>2, SummaryFileType
  <2>3. CASE \E t \in Tasks : Clean(t)
    BY <2>3 DEF Clean
  <2>4. CASE UNCHANGED summary
    BY <2>4
  <2>5. (\E request \in Requests : Invoke(request)) => UNCHANGED summary
    BY DEF Invoke, files
  <2>6. (\E ok \in BOOLEAN : Preflight(ok) \/ SmokeRun(ok) \/ BeginBenchmark(ok) \/ Upload(ok)
                              \/ CopyBaselines(ok))
          => UNCHANGED summary
    BY DEF Preflight, SmokeRun, BeginBenchmark, Upload, CopyBaselines, files
  <2>7. BeginSmoke \/ SmokeXml \/ EndSmoke \/ BeginSolve \/ SolveNext \/ SolveLayout \/ EndSolve
          => UNCHANGED summary
    BY DEF BeginSmoke, SmokeXml, EndSmoke, BeginSolve, SolveNext, SolveLayout, EndSolve, files
  <2>8. SolveFails \/ (\E k \in Programs : SolveXml(k))
          \/ (\E report \in Reports, rest \in BOOLEAN : SolveReport(report, rest))
          => UNCHANGED summary
    BY DEF SolveFails, SolveXml, SolveReport, files
  <2>9. (\E table \in Tables \cup {None} : Launch(table)) => UNCHANGED summary
    BY DEF Launch
  <2>10. BenchNext \/ BenchCommand \/ BenchEnvironment \/ BenchMeasurements \/ BenchActivation
           \/ EndBenchmark \/ Finish => UNCHANGED summary
    BY DEF BenchNext, BenchCommand, BenchEnvironment, BenchMeasurements, BenchActivation,
           EndBenchmark, Finish, files
  <2>11. Crash \/ BodyFails \/ StartFails \/ PublishFails
           \/ (\E written \in BOOLEAN, code \in {2, Traceback} : FinishFails(written, code))
           => UNCHANGED summary
    BY DEF Crash, BodyFails, StartFails, PublishFails, FinishFails, files
  <2>12. (\E c \in Cases : Edit(c)) \/ (\E part \in {"digested", "launch"} : Configure(part))
           \/ UNCHANGED vars => UNCHANGED summary
    BY DEF Edit, Configure, files, vars
  <2> QED
    BY <2>1, <2>2, <2>3, <2>4, <2>5, <2>6, <2>7, <2>8, <2>9, <2>10, <2>11, <2>12 DEF Next
<1>2. CASE summary'.rows = summary.rows \/ summary'.rows = {}
  BY <1>2 DEF ComparisonSound
<1>3. CASE summary'.rows = ReportRows
  BY <1>3, RowsComparison DEF RecordsInv
<1> QED
  BY <1>1, <1>2, <1>3

-----------------------------------------------------------------------------
(* The theorem *)

LEMMA StutterResults == ASSUME RecordsInv, ResultsInv, UNCHANGED vars PROVE ResultsInv'
<1>1. UNCHANGED <<input, env, store, runs, perf, summary, pc, job>>
  BY DEF vars
<1>2. \A s : At(s)' = At(s) /\ Within(s)' = Within(s)
  BY <1>1 DEF At, Within
<1>3. /\ RunsAll' = RunsAll /\ Selected' = Selected /\ InBody' = InBody
      /\ CaseTasks' = CaseTasks /\ RivalTasks' = RivalTasks /\ Due' = Due
  BY <1>1, SelectionSame DEF RunsAll, InBody
<1>4. \A c : SolvedCase(c) => SolvedCase(c)'
  BY <1>1, SolvedSame
<1>5. \A t \in PerfTasks : PerfDone(t) => PerfDone(t)'
  BY <1>1, PerfSame
<1>6. RunsAll => CaseTasks \cup RivalTasks \subseteq PerfTasks /\ Due \subseteq PerfTasks
  BY SelectedFacts DEF RunsAll, RecordsInv
<1>7. SeenOK' /\ SolveProgress'
  BY <1>1, <1>2, <1>3, <1>4 DEF ResultsInv, SeenOK, SolveProgress
<1>8. BenchProgress'
  <2>1. RunsAll => \A t \in Due : Benchmarked(t) => Benchmarked(t)'
    BY <1>1, <1>3, <1>5, <1>6 DEF Benchmarked
  <2> QED
    BY <1>1, <1>2, <1>3, <2>1, BenchmarkedStep DEF ResultsInv
<1>9. TodoOK' /\ StagesDone'
  BY <1>1, <1>2, <1>3, <1>4, <1>5, <1>6 DEF ResultsInv, TodoOK, StagesDone
<1>10. RowsOK'
  <2>1. \A t, s : Reported(t, s) => Reported(t, s)'
    BY <1>1, <1>3 DEF Reported
  <2> QED
    BY <1>1, <1>3, <2>1 DEF ResultsInv, RowsOK
<1>11. AllMeansMeasured'
  <2>1. \A reading, xml : ReadingCurrent(reading, xml) => ReadingCurrent(reading, xml)'
    BY <1>1 DEF ReadingCurrent
  <2>2. SUFFICES ASSUME Succeeded("all")' PROVE AllMeansMeasured'
    BY DEF AllMeansMeasured
  <2>3. Succeeded("all") /\ AllMeansMeasured
    BY <1>1, <2>2 DEF Succeeded, ResultsInv
  <2>4. \A c \in Selected' :
           /\ Passed(store[SolveTask(c)])' /\ store'[SolveTask(c)].input = input'[c]
           /\ ReportIsValid(runs[c].report)' /\ Passed(store[PerfTask(c)])'
           /\ \E row \in summary'.rows :
                /\ row.task = PerfTask(c) /\ row.size = Size[c] /\ row.metadata = runs'[c].xml
                /\ ReadingCurrent(row.reading, runs[c].xml)'
    BY <1>1, <1>3, <2>3 DEF AllMeansMeasured, Passed, ReportIsValid, ReadingCurrent
  <2>5. \A b \in Range(Baselines), c \in Selected' : Pair[b] = Pair[c] =>
           \E row \in summary'.rows :
              /\ row.task = BaseTask(b) /\ row.size = Size[c]
              /\ ReadingCurrent(row.reading, BaselineXml(b))'
    BY <1>1, <1>3, <2>1, <2>3 DEF AllMeansMeasured
  <2> QED
    BY <1>1, <2>3, <2>4, <2>5 DEF AllMeansMeasured
<1> QED
  BY <1>7, <1>8, <1>9, <1>10, <1>11 DEF ResultsInv

\* What ends an invocation from outside ends it without success.
LEMMA EnvironmentResults ==
    ASSUME \/ Crash \/ StartFails \/ PublishFails
           \/ \E written \in BOOLEAN, code \in {2, Traceback} : FinishFails(written, code)
           \/ \E c \in Cases : Edit(c)
           \/ \E part \in {"digested", "launch"} : Configure(part)
           \/ \E t \in Tasks : Clean(t)
    PROVE  ResultsInv'
<1>1. CASE \/ Crash \/ StartFails \/ PublishFails
           \/ \E written \in BOOLEAN, code \in {2, Traceback} : FinishFails(written, code)
  <2>1. Exit(Killed) \/ Exit(2) \/ Exit(Traceback)
    BY <1>1 DEF Crash, StartFails, PublishFails, FinishFails
  <2> QED
    BY <2>1, ExitResults DEF Killed, Traceback
<1>2. CASE \/ \E c \in Cases : Edit(c)
           \/ \E part \in {"digested", "launch"} : Configure(part)
           \/ \E t \in Tasks : Clean(t)
  <2>1. pc' = "idle" /\ job' = NoJob
    BY <1>2 DEF Edit, Configure, Clean, BetweenInvocations
  <2>2. job'.exit # 0
    BY <2>1, NoneAssumption DEF NoJob
  <2> QED
    BY <2>1, <2>2, IdleResults
<1> QED
  BY <1>1, <1>2

LEMMA NextResults == ASSUME RecordsInv, ResultsInv, [Next]_vars PROVE ResultsInv'
<1>1. CASE \E request \in Requests : Invoke(request)
  BY <1>1, InvokeResults
<1>2. CASE \E ok \in BOOLEAN : Preflight(ok) \/ SmokeRun(ok) \/ BeginBenchmark(ok) \/ Upload(ok)
                                \/ CopyBaselines(ok)
  BY <1>2, EndsResults, TaskStepsResults, BeginBenchmarkResults, CopyBaselinesResults
<1>3. CASE BeginSmoke \/ SmokeXml \/ EndSmoke
  BY <1>3, BeginSmokeResults, TaskStepsResults, EndsResults
<1>4. CASE BeginSolve \/ SolveNext \/ SolveLayout \/ EndSolve
  BY <1>4, BeginSolveResults, SolveNextResults, TaskStepsResults, EndsResults
<1>5. CASE \/ SolveFails \/ (\E k \in Programs : SolveXml(k))
           \/ \E report \in Reports, rest \in BOOLEAN : SolveReport(report, rest)
  BY <1>5, TaskStepsResults
<1>6. CASE BenchNext \/ BenchCommand \/ BenchEnvironment
  BY <1>6, BenchNextResults, TaskStepsResults
<1>7. CASE \E table \in Tables \cup {None} : Launch(table)
  BY <1>7, TaskStepsResults
<1>8. CASE BenchMeasurements \/ BenchActivation \/ EndBenchmark
  BY <1>8, TaskStepsResults, EndsResults
<1>9. CASE WriteReport \/ WriteSummaryFile \/ Finish
  BY <1>9, WriteReportResults, WriteSummaryFileResults, FinishResults
<1>10. CASE BodyFails
  BY <1>10, TaskStepsResults
<1>11. CASE \/ Crash \/ StartFails \/ PublishFails
            \/ \E written \in BOOLEAN, code \in {2, Traceback} : FinishFails(written, code)
            \/ \E c \in Cases : Edit(c)
            \/ \E part \in {"digested", "launch"} : Configure(part)
            \/ \E t \in Tasks : Clean(t)
  BY <1>11, EnvironmentResults
<1>12. CASE UNCHANGED vars
  BY <1>12, StutterResults
<1> QED
  BY <1>1, <1>2, <1>3, <1>4, <1>5, <1>6, <1>7, <1>8, <1>9, <1>10, <1>11, <1>12 DEF Next

\* Metadata of another program than the measured one come with a record that
\* shows it.
LEMMA JoinFollows == ASSUME RecordsInv PROVE JoinExplained
<1> SUFFICES ASSUME NEW t \in Measured, Passed(store[t]), store[t].input.xml = Metadata(t)
             PROVE  perf[t].reading.xmls = {Metadata(t)}
  BY DEF JoinExplained
<1>1. t \in PerfTasks /\ perf[t].files >= 5 /\ t \in Tasks /\ t[1] \notin {"solve", "smoke"}
  BY TaskKind DEF Measured
<1>2. t \notin cleaned
  BY <1>1 DEF RecordsInv, CleanedOK
<1>3. perf[t].reading = store[t].output
  BY <1>1, <1>2 DEF RecordsInv, PassedIsComplete
<1> QED
  BY <1>1, <1>3 DEF RecordsInv, ReadingsOK, ReadingOf

\* The inductive invariant of the stages: what solve and benchmark have finished,
\* what waits in their queues and what "all" carries from one to the next.
THEOREM ResultsInvariant == Spec => [](ResultsInv /\ ComparisonSound)
<1>1. Init => ResultsInv /\ ComparisonSound
  <2> SUFFICES ASSUME Init PROVE ResultsInv /\ ComparisonSound
    OBVIOUS
  <2>1. pc = "idle" /\ job.exit # 0 /\ summary.rows = {}
    BY NoneAssumption DEF Init, NoJob
  <2>2. ResultsInv
    BY <2>1 DEF ResultsInv, SeenOK, SolveProgress, BenchProgress, TodoOK, StagesDone, RowsOK,
                AllMeansMeasured, Succeeded, Within, RunsAll, At
  <2> QED
    BY <2>1, <2>2 DEF ComparisonSound
<1>2. RecordsInv /\ ResultsInv /\ ComparisonSound /\ [Next]_vars => ResultsInv' /\ ComparisonSound'
  BY NextResults, NextComparison
<1> QED
  BY <1>1, <1>2, RecordsInvariant, PTL DEF Spec

\* When "vericcl-v100 all" returns 0, resumed or not and whatever was killed,
\* failed, edited or removed before, the summary pairs every selected case's
\* current solve with a reading of exactly that program and holds the baselines
\* of its topology and collective at its size, all in the environment that the
\* input digest covers, and in its launch settings too unless it was resumed.
\* Every report claims improvements only over the fastest sound baseline of the
\* same topology, collective and size, and a row that pairs a reading with the
\* metadata of another program has no PASSED record of that pair.
THEOREM ExperimentResultsSound == Spec => []ResultsSound
<1>1. RecordsInv /\ ResultsInv /\ ComparisonSound => ResultsSound
  BY JoinFollows DEF ResultsInv, ResultsSound
<1> QED
  BY <1>1, RecordsInvariant, ResultsInvariant, PTL
=============================================================================
