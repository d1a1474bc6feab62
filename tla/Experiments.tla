---------------------------- MODULE Experiments ----------------------------
(***************************************************************************)
(* The V100 experiment driver (src/vericcl/experiments): one invocation of *)
(* vericcl-v100 walks through preflight, smoke, solve, benchmark and       *)
(* summarize, keeps a record of every task in state.json, publishes files  *)
(* that may never be replaced, and stages programs on the remote host.     *)
(* An invocation may be killed between any two durable writes, and a write *)
(* may fail; while none is running the operator may edit inputs or remove  *)
(* output directories.                                                     *)
(*                                                                         *)
(* A SHA-256 digest is modelled by the content it is taken of.  A          *)
(* directory whose files are published in a fixed order and never replaced *)
(* is modelled by how many of them exist.                                  *)
(***************************************************************************)
EXTENDS Naturals, Sequences, FiniteSets, Functions, FiniteSetsExt

CONSTANTS
    CaseList,      \* manifest.cases, in order
    Baselines,     \* what select_baselines finds, in the order of the pairs
    Unmatched,     \* in that list: a pair that no baseline XML matches
    Pair,          \* topology and collective of a case or a baseline
    Sizes,         \* REQUESTED_SIZE_BYTES
    Size,          \* message size of a case
    Requests,      \* [stage, resume, case]: the command lines tried
    Programs,      \* what solving may produce: {1..k} distinguishes XML texts
    Tables,        \* what one benchmark may report: a Run for every size
    MaxVersion,    \* bound on edits of one input
    MaxInvocations, MaxFaults, MaxChanges,   \* bounds
    None

Cases == Range(CaseList)
Stages == {"preflight", "smoke", "solve", "benchmark", "summarize"}

\* ExperimentManifest refuses an empty list of cases and repeated task ids.
ASSUME ManifestAssumption ==
    /\ CaseList \in Seq(Cases) /\ CaseList # <<>>
    /\ \A i, j \in DOMAIN CaseList : CaseList[i] = CaseList[j] => i = j
ASSUME BaselinesAssumption ==
    Baselines \in Seq(Range(Baselines)) /\ Unmatched \subseteq Range(Baselines)
ASSUME SizesAssumption == IsFiniteSet(Sizes) /\ \A c \in Cases : Size[c] \in Sizes
ASSUME RequestsAssumption ==
    Requests \subseteq [stage : Stages \union {"all"}, resume : BOOLEAN,
                        case : Cases \union {None}]

\* One line of the table: activation is not confirmed without an in-place
\* measurement (evaluate_msccl_activation).
Run == [bw : Nat, inPlace : BOOLEAN, confirmed : BOOLEAN, wrong : BOOLEAN]
ASSUME TablesAssumption ==
    /\ Tables \subseteq [Sizes -> Run]
    /\ \A table \in Tables : \A s \in Sizes : table[s].confirmed => table[s].inPlace
ASSUME VersionAssumption == MaxVersion \in Nat \ {0}

SolveTask(c) == <<"solve", c>>
PerfTask(c) == <<"perf", c>>
BaseTask(b) == <<"base", b>>     \* of a pair and an XML that matches it
SmokeTask == <<"smoke", "2x1">>
PerfTasks == {PerfTask(c) : c \in Cases} \union {BaseTask(b) : b \in Range(Baselines)}
Tasks == PerfTasks \union {SolveTask(c) : c \in Cases} \union {SmokeTask}

VARIABLES
    input,         \* version of the topology, sketch and atom of each case
    env,           \* versions of what a benchmark is launched with: what
                   \* build_performance_environment gives (digested) and the
                   \* interface, hostfile and nccl-tests directory (launch)
    store,         \* state.json: task -> TaskRecord, or None
    runs,          \* runs/<case>: [root, xml, report]
    perf,          \* performance/...: [files, reading] per benchmark task
    smokeDir,      \* smoke/: [xml, report]
    baseIndex,     \* baselines/index.json exists
    remote,        \* the XML of each benchmark task on the remote host
    summary,       \* summary/: [files, rows, failed]
    pc, job,       \* control of the running invocation
    interrupted,   \* tasks cut short by a kill or a failed write (history)
    cleaned,       \* tasks whose files the operator removed (history)
    left           \* [invocations, faults, changes]: remaining budget of the model

vars == <<input, env, store, runs, perf, smokeDir, baseIndex, remote, summary,
          pc, job, interrupted, cleaned, left>>
files == <<runs, perf, smokeDir, baseIndex, remote, summary>>
user == <<input, env, cleaned, left>>

-----------------------------------------------------------------------------
(* TaskRecord and ExperimentStateStore *)

Record(status, in, out) == [status |-> status, input |-> in, output |-> out]

\* put refuses a record that does not follow _TRANSITIONS; a task without a
\* record may take any status.
Successors ==
    [pending |-> {"pending", "running", "skipped"},
     running |-> {"running", "passed", "failed", "skipped"},
     passed  |-> {"passed", "running"},
     failed  |-> {"failed", "running", "skipped"},
     skipped |-> {"skipped", "running"}]
MayPut(t, status) ==
    store[t] # None => status \in Successors[store[t].status]
Put(t, rec) ==
    /\ MayPut(t, rec.status)
    /\ store' = [store EXCEPT ![t] = rec]

Closed(made, in) == Record(IF made = None THEN "failed" ELSE "passed", in, made)
Passed(rec) == rec # None /\ rec.status = "passed"

\* What digests are taken of: input files, program texts and measurements.
Versions == 1..MaxVersion
Xmls == [case : Cases \union Range(Baselines), input : 0..MaxVersion,
         program : Programs \union {0}]
Environments == [digested : Versions, launch : Versions]
ReadingRecords == [xmls : SUBSET (Xmls \union {None}), env : Environments, table : Tables]
DigestedInput(t) ==
    IF t \in PerfTasks THEN [case : Cases, env : Versions, xml : Xmls] ELSE Versions
DigestedOutput(t) ==
    IF t \in PerfTasks THEN ReadingRecords
    ELSE IF t = SmokeTask THEN Versions ELSE Xmls
TaskRecord(t) == [status : DOMAIN Successors, input : DigestedInput(t),
                  output : DigestedOutput(t) \union {None}]
ASSUME NoneAssumption ==
    /\ None \notin Nat /\ \A S \in SUBSET Cases : None # S
    /\ \A t \in Tasks : None \notin TaskRecord(t)

-----------------------------------------------------------------------------
(* What may be reused, and from which inputs *)

BaselineXml(b) == [case |-> b, input |-> 0, program |-> 0]
BenchmarkXml(t) == IF t[1] = "perf" THEN runs[t[2]].xml ELSE BaselineXml(t[2])

Select(request) == IF request.case = None THEN CaseList ELSE <<request.case>>
Selected == Range(Select(job.request))
PairSelected(b) == \E c \in Selected : Pair[c] = Pair[b]

\* A baseline runs for the first selected case of its pair (setdefault).
FirstCase(b) ==
    LET list == Select(job.request)
    IN list[Min({i \in DOMAIN list : Pair[list[i]] = Pair[b]})]
BenchmarkCase(t) == IF t[1] = "perf" THEN t[2] ELSE FirstCase(t[2])
BenchmarkInput(t) ==
    [case |-> BenchmarkCase(t), env |-> env.digested, xml |-> BenchmarkXml(t)]

MutantRecordReusable(rec, c) ==
    /\ Passed(rec)
    /\ runs[c].xml # None
    /\ rec.output = runs[c].xml
RecordReusable(rec, c) ==
    /\ Passed(rec)
    /\ runs[c].xml # None
    /\ rec.input = input[c]
    /\ rec.output = runs[c].xml

\* stdout.log and measurements.json must be there; activation.json is not
\* looked at.
PerformanceReusable(rec, t) ==
    /\ Passed(rec)
    /\ rec.input = BenchmarkInput(t)
    /\ perf[t].files >= 5
    /\ rec.output = perf[t].reading

-----------------------------------------------------------------------------
(* Control of one invocation *)

AllStages == <<"preflight", "smoke", "solve", "benchmark", "summarize">>
NoJob == [request |-> None, todo |-> <<>>, queue |-> <<>>, task |-> None,
          seen |-> None, ok |-> TRUE, made |-> None, exit |-> None]

Traceback == 1     \* status of an exception main does not catch
Killed == 137

Exit(code) ==
    /\ pc' = "idle"
    /\ job' = [NoJob EXCEPT !.request = job.request, !.exit = code]
Goto(label) == pc' = label /\ UNCHANGED job

\* main: a stage whose records have all passed is followed by the next one.
StageEnds(ok) ==
    IF ~ok THEN Exit(1)
    ELSE IF Len(job.todo) = 1 THEN Exit(0)
    ELSE pc' = "dispatch" /\ job' = [job EXCEPT !.todo = Tail(@), !.queue = <<>>,
                                                !.task = None, !.ok = TRUE]

Init ==
    /\ input = [c \in Cases |-> 1] /\ env = [digested |-> 1, launch |-> 1]
    /\ store = [t \in Tasks |-> None]
    /\ runs = [c \in Cases |-> [root |-> FALSE, xml |-> None, report |-> None]]
    /\ perf = [t \in PerfTasks |-> [files |-> 0, reading |-> None]]
    /\ smokeDir = [xml |-> None, report |-> FALSE]
    /\ baseIndex = FALSE
    /\ remote = [t \in PerfTasks |-> None]
    /\ summary = [files |-> 0, rows |-> {}, failed |-> {}]
    /\ pc = "idle" /\ job = NoJob
    /\ interrupted = {} /\ cleaned = {}
    /\ left = [invocations |-> MaxInvocations, faults |-> MaxFaults,
               changes |-> MaxChanges]

Invoke(request) ==
    /\ pc = "idle" /\ left.invocations > 0
    /\ left' = [left EXCEPT !.invocations = @ - 1]
    /\ pc' = "dispatch"
    /\ job' = [NoJob EXCEPT
                 !.request = request,
                 !.todo = IF request.stage = "all" THEN AllStages
                          ELSE <<request.stage>>]
    /\ UNCHANGED <<input, env, store, files, interrupted, cleaned>>

\* Required files, hostfiles, environment and the ssh probe are the operator's;
\* a SemanticError of preflight ends the invocation with status 2.
Preflight(ok) ==
    /\ pc = "dispatch" /\ Head(job.todo) = "preflight"
    /\ IF ok THEN StageEnds(TRUE) ELSE Exit(2)
    /\ UNCHANGED <<store, files, interrupted, user>>

\* A task starts: its record becomes RUNNING before anything is executed.
Start(t, in, label) ==
    /\ Put(t, Record("running", in, None))
    /\ pc' = label
    /\ interrupted' = interrupted \ {t}
    /\ cleaned' = cleaned \ {t}
    /\ UNCHANGED <<input, env, left>>

\* The body of a task ends: its record is put by Finish.  made is the content
\* whose digest the PASSED record will carry, None after an exception.
Outcome(content) ==
    pc' = "finish" /\ job' = [job EXCEPT !.made = content]

Finish ==
    /\ pc = "finish"
    /\ Put(job.task, Closed(job.made, store[job.task].input))
    /\ pc' = "next"
    /\ job' = [job EXCEPT !.ok = @ /\ job.made # None, !.made = None]
    /\ UNCHANGED <<files, interrupted, user>>

-----------------------------------------------------------------------------
(* smoke: always executed, whether the invocation resumes or not *)

BeginSmoke ==
    /\ pc = "dispatch" /\ Head(job.todo) = "smoke"
    /\ Start(SmokeTask, input[Head(CaseList)], "smoke.xml")
    /\ job' = [job EXCEPT !.task = SmokeTask]
    /\ UNCHANGED files

\* _write_or_reuse_text: an existing file must hold the same text.
SmokeXml ==
    /\ pc = "smoke.xml"
    /\ LET text == input[Head(CaseList)] IN
       IF smokeDir.xml \in {None, text}
       THEN /\ smokeDir' = [smokeDir EXCEPT !.xml = text]
            /\ Goto("smoke.run")
       ELSE Outcome(None) /\ UNCHANGED smokeDir
    /\ UNCHANGED <<store, runs, perf, baseIndex, remote, summary, interrupted, user>>

\* The online validation of the smoke program, then the no-replace publication
\* of its report.
SmokeRun(valid) ==
    /\ pc = "smoke.run"
    /\ IF valid /\ ~smokeDir.report
       THEN /\ smokeDir' = [smokeDir EXCEPT !.report = TRUE]
            /\ Outcome(smokeDir.xml)
       ELSE Outcome(None) /\ UNCHANGED smokeDir
    /\ UNCHANGED <<store, runs, perf, baseIndex, remote, summary, interrupted, user>>

EndSmoke ==
    /\ pc = "next" /\ Head(job.todo) = "smoke"
    /\ StageEnds(job.ok)
    /\ UNCHANGED <<store, files, interrupted, user>>

-----------------------------------------------------------------------------
(* solve_matrix and solve_case *)

BeginSolve ==
    /\ pc = "dispatch" /\ Head(job.todo) = "solve"
    /\ pc' = "next"
    /\ job' = [job EXCEPT !.seen = store, !.queue = Select(job.request)]
    /\ UNCHANGED <<store, files, interrupted, user>>

SolveNext ==
    /\ pc = "next" /\ Head(job.todo) = "solve" /\ job.queue # <<>>
    /\ LET c == Head(job.queue)
           t == SolveTask(c)
       IN IF job.request.resume /\ RecordReusable(job.seen[t], c)
          THEN /\ job' = [job EXCEPT !.queue = Tail(@)]
               /\ UNCHANGED <<store, pc, interrupted, user>>
          ELSE /\ Start(t, input[c], "solve.layout")
               /\ job' = [job EXCEPT !.queue = Tail(@), !.task = t]
    /\ UNCHANGED files

\* create_run_layout refuses a run directory that is not empty, and fills the
\* one it creates at once.
SolveLayout ==
    /\ pc = "solve.layout"
    /\ LET c == job.task[2] IN
       IF runs[c].root
       THEN Outcome(None) /\ UNCHANGED runs
       ELSE runs' = [runs EXCEPT ![c].root = TRUE] /\ Goto("solve.execute")
    /\ UNCHANGED <<store, perf, smokeDir, baseIndex, remote, summary, interrupted, user>>

\* execute_solve may fail or end without a final candidate, or
\* write_final_alias publishes the final XML and then its report.
SolveFails ==
    /\ pc = "solve.execute"
    /\ Outcome(None)
    /\ UNCHANGED <<store, files, interrupted, user>>
SolveXml(k) ==
    /\ pc = "solve.execute"
    /\ LET c == job.task[2] IN
       runs' = [runs EXCEPT ![c].xml = [case |-> c, input |-> input[c], program |-> k]]
    /\ Goto("solve.report")
    /\ UNCHANGED <<store, perf, smokeDir, baseIndex, remote, summary, interrupted, user>>

\* The report decides whether the task has passed, unless a file that follows it
\* (the final schedule, summary.json) cannot be written.
Reports == {"valid", "unstable-release", "invalid"}
ReportIsValid(report) == report \in {"valid", "unstable-release"}
SolveReport(report, rest) ==
    /\ pc = "solve.report"
    /\ LET c == job.task[2] IN
       /\ runs' = [runs EXCEPT ![c].report = report]
       /\ Outcome(IF ReportIsValid(report) /\ rest THEN runs[c].xml ELSE None)
    /\ UNCHANGED <<store, perf, smokeDir, baseIndex, remote, summary, interrupted, user>>

EndSolve ==
    /\ pc = "next" /\ Head(job.todo) = "solve" /\ job.queue = <<>>
    /\ StageEnds(job.ok)
    /\ UNCHANGED <<store, files, interrupted, user>>

-----------------------------------------------------------------------------
(* benchmark_matrix, _run_benchmark_task and benchmark_xml *)

\* The hostfiles are staged first.  seen holds the cases whose solve record is
\* PASSED (solve_records, read once), and is None once the baselines follow.
BeginBenchmark(staged) ==
    /\ pc = "dispatch" /\ Head(job.todo) = "benchmark"
    /\ IF ~staged THEN Exit(2)
       ELSE LET selected == Select(job.request)
            IN /\ pc' = "next"
               /\ job' = [job EXCEPT
                            !.seen = {c \in Cases : Passed(store[SolveTask(c)])},
                            !.queue = [i \in DOMAIN selected |-> PerfTask(selected[i])]]
    /\ UNCHANGED <<store, files, interrupted, user>>

\* A case without a PASSED solve is skipped, as is a baseline of a pair that
\* was not selected; a selected pair without a baseline is an error.  The input
\* digest reads the XML outside the task's try block.
BenchNext ==
    /\ pc = "next" /\ Head(job.todo) = "benchmark" /\ job.queue # <<>>
    /\ LET t == Head(job.queue) IN
       IF IF job.seen # None THEN t[2] \notin job.seen ELSE ~PairSelected(t[2])
       THEN /\ job' = [job EXCEPT !.queue = Tail(@)]
            /\ UNCHANGED <<store, pc, interrupted, user>>
       ELSE IF BenchmarkXml(t) = None \/ t[2] \in Unmatched
       THEN Exit(2) /\ UNCHANGED <<store, interrupted, user>>
       ELSE IF job.request.resume /\ PerformanceReusable(store[t], t)
       THEN /\ job' = [job EXCEPT !.queue = Tail(@)]
            /\ UNCHANGED <<store, pc, interrupted, user>>
       ELSE /\ Start(t, BenchmarkInput(t), "bench.command")
            /\ job' = [job EXCEPT !.queue = Tail(@), !.task = t]
    /\ UNCHANGED files

\* Publishing the file-th file of the task's directory, never over an existing one.
Publish(file, label) ==
    LET t == job.task IN
    IF perf[t].files >= file
    THEN Outcome(None) /\ UNCHANGED perf
    ELSE perf' = [perf EXCEPT ![t].files = file] /\ Goto(label)

BenchCommand ==
    /\ pc = "bench.command"
    /\ Publish(1, "bench.environment")
    /\ UNCHANGED <<store, runs, smokeDir, baseIndex, remote, summary, interrupted, user>>
BenchEnvironment ==
    /\ pc = "bench.environment"
    /\ Publish(2, "bench.upload")
    /\ UNCHANGED <<store, runs, smokeDir, baseIndex, remote, summary, interrupted, user>>

\* SshFileStager.upload: scp to a temporary name, then mv over the destination.
\* A failure of either leaves the destination as it was.
Upload(ok) ==
    /\ pc = "bench.upload"
    /\ IF ok
       THEN /\ remote' = [remote EXCEPT ![job.task] = BenchmarkXml(job.task)]
            /\ Goto("bench.launch")
       ELSE Outcome(None) /\ UNCHANGED remote
    /\ UNCHANGED <<store, runs, perf, smokeDir, baseIndex, summary, interrupted, user>>

\* The program runs on both hosts, each reading its own copy of the XML.
\* table is None when the process fails or its table cannot be parsed: then
\* stdout.log and stderr.log are written and the task fails.  (A kill between
\* those two files leaves nothing a later step distinguishes.)
Launch(table) ==
    /\ pc = "bench.launch"
    /\ LET t == job.task IN
       /\ perf' = [perf EXCEPT
                     ![t].files = 4,
                     ![t].reading =
                        IF table = None THEN None
                        ELSE [xmls |-> {BenchmarkXml(t), remote[t]}, env |-> env,
                              table |-> table]]
       /\ IF table = None THEN Outcome(None) ELSE Goto("bench.measurements")
    /\ UNCHANGED <<store, runs, smokeDir, baseIndex, remote, summary, interrupted, user>>
BenchMeasurements ==
    /\ pc = "bench.measurements"
    /\ Publish(5, "bench.activation")
    /\ UNCHANGED <<store, runs, smokeDir, baseIndex, remote, summary, interrupted, user>>
MutantBenchActivation ==
    /\ pc = "bench.activation"
    /\ Outcome(perf[job.task].reading)
    /\ UNCHANGED <<store, runs, perf, smokeDir, baseIndex, remote, summary, interrupted, user>>
BenchActivation ==
    /\ pc = "bench.activation"
    /\ perf' = [perf EXCEPT ![job.task].files = 6]
    /\ Outcome(perf[job.task].reading)
    /\ UNCHANGED <<store, runs, smokeDir, baseIndex, remote, summary, interrupted, user>>

\* _copy_baselines: the source may hold no XML; the copies are named by their
\* digest and reused; index.json is published without replacement, and outside
\* every try block.
CopyBaselines(found) ==
    /\ pc = "next" /\ Head(job.todo) = "benchmark" /\ job.queue = <<>>
    /\ job.seen # None
    /\ IF ~found THEN Exit(2) /\ UNCHANGED baseIndex
       ELSE IF baseIndex THEN Exit(Traceback) /\ UNCHANGED baseIndex
       ELSE /\ baseIndex' = TRUE
            /\ job' = [job EXCEPT !.seen = None,
                                  !.queue = [i \in DOMAIN Baselines |->
                                               BaseTask(Baselines[i])]]
            /\ UNCHANGED pc
    /\ UNCHANGED <<store, runs, perf, smokeDir, remote, summary, interrupted, user>>

EndBenchmark ==
    /\ pc = "next" /\ Head(job.todo) = "benchmark" /\ job.queue = <<>>
    /\ job.seen = None
    /\ StageEnds(job.ok)
    /\ UNCHANGED <<store, files, interrupted, user>>

-----------------------------------------------------------------------------
(* report.py: every line of every measurements.json that exists becomes a   *)
(* row, whatever the status of its task; metadata is that of the case's      *)
(* PASSED solve, whichever program was measured.                             *)

\* A case is measured at its own size, a baseline from 4M to 2G.
SizesOf(t) == IF t[1] = "perf" THEN {Size[t[2]]} ELSE Sizes
Measured == {t \in PerfTasks : perf[t].files >= 5}
Lines == {x \in Measured \X Sizes : x[2] \in SizesOf(x[1])}
RunOf(t, s) == perf[t].reading.table[s]
Eligible(t, s) == RunOf(t, s).confirmed /\ ~RunOf(t, s).wrong
Metadata(t) ==
    IF t[1] = "perf" /\ Passed(store[SolveTask(t[2])]) THEN runs[t[2]].xml ELSE None

\* best_baseline of a topology, a collective and a size
Rivals(p, s) == {u \in Measured : u[1] = "base" /\ Pair[u[2]] = p /\ Eligible(u, s)}
BestBaseline(p, s) == Max({0} \union {RunOf(u, s).bw : u \in Rivals(p, s)})
Row(t, s) ==
    [task |-> t, size |-> s, reading |-> perf[t].reading, metadata |-> Metadata(t),
     baseline |-> IF t[1] = "perf" /\ Eligible(t, s) /\ BestBaseline(Pair[t[2]], s) > 0
                  THEN BestBaseline(Pair[t[2]], s) ELSE None]
ReportRows == {Row(x[1], x[2]) : x \in Lines}

ReportRow == [task : PerfTasks, size : Sizes, reading : ReadingRecords,
              metadata : Xmls \union {None}, baseline : Nat \union {None}]

\* results.json, then results.csv, then report.md, none replaced.  A task without
\* activation.json or a line without an in-place measurement is an error.
WriteReport ==
    /\ pc = "dispatch" /\ Head(job.todo) = "summarize"
    /\ IF \/ \E t \in Measured : perf[t].files < 6
          \/ \E x \in Lines : ~RunOf(x[1], x[2]).inPlace
       THEN Exit(2) /\ UNCHANGED summary
       ELSE IF summary.files > 0
       THEN Exit(Traceback) /\ UNCHANGED summary
       ELSE /\ summary' = [summary EXCEPT !.files = 1, !.rows = ReportRows]
            /\ Goto("report")
    /\ UNCHANGED <<store, runs, perf, smokeDir, baseIndex, remote, interrupted, user>>
WriteSummaryFile ==
    /\ pc = "report"
    /\ summary' = [summary EXCEPT
                     !.files = @ + 1,
                     !.failed = IF summary.files = 2
                                THEN {t \in Tasks : store[t] # None /\ store[t].status = "failed"}
                                ELSE @]
    /\ IF summary.files = 2 THEN StageEnds(TRUE) ELSE UNCHANGED <<pc, job>>
    /\ UNCHANGED <<store, runs, perf, smokeDir, baseIndex, remote, interrupted, user>>

-----------------------------------------------------------------------------
(* The environment *)

\* A kill, or a write of the system that fails, is one of MaxFaults faults.
Fault == left.faults > 0 /\ left' = [left EXCEPT !.faults = @ - 1]

Crash ==
    /\ pc # "idle" /\ Fault
    /\ interrupted' = interrupted \union
         {t \in Tasks : store[t] # None /\ store[t].status = "running"}
    /\ Exit(Killed)
    /\ UNCHANGED <<input, env, store, files, cleaned>>

\* An exception in the body of a task, such as a file that cannot be written.
BodyFails ==
    /\ pc \in {"smoke.xml", "smoke.run", "solve.layout", "solve.report", "bench.command",
               "bench.environment", "bench.launch", "bench.measurements", "bench.activation"}
    /\ Fault /\ Outcome(None)
    /\ UNCHANGED <<input, env, store, files, interrupted, cleaned>>

\* put raises when state.json cannot be replaced, or not durably: the RUNNING
\* record of the task that starts is there or not, and nothing else happens.
StartsTask ==
    \/ pc = "dispatch" /\ Head(job.todo) = "smoke"
    \/ /\ pc = "next" /\ Head(job.todo) = "solve" /\ job.queue # <<>>
       /\ LET c == Head(job.queue)
          IN ~(job.request.resume /\ RecordReusable(job.seen[SolveTask(c)], c))
    \/ /\ pc = "next" /\ Head(job.todo) = "benchmark" /\ job.queue # <<>>
       /\ LET t == Head(job.queue)
          IN /\ IF job.seen # None THEN t[2] \in job.seen ELSE PairSelected(t[2])
             /\ BenchmarkXml(t) # None /\ t[2] \notin Unmatched
             /\ ~(job.request.resume /\ PerformanceReusable(store[t], t))
StartFails ==
    /\ StartsTask \/ pc \in {"smoke.xml", "solve.layout", "bench.command"}
    /\ Fault /\ Exit(2)
    /\ interrupted' = interrupted \union (IF StartsTask THEN {} ELSE {job.task})
    /\ UNCHANGED <<input, env, store, files, cleaned>>

\* So does the put of the final record; the error handlers of smoke and
\* benchmark may fail before it, with an OSError of mkdir or the SemanticError
\* of atomic_replace_text.
FinishFails(written, code) ==
    /\ pc = "finish" /\ Fault /\ Exit(code)
    /\ code = Traceback => job.made = None /\ job.task[1] # "solve" /\ ~written
    /\ store' = IF written
                THEN [store EXCEPT ![job.task] = Closed(job.made, @.input)]
                ELSE store
    /\ interrupted' = interrupted \union (IF written THEN {} ELSE {job.task})
    /\ UNCHANGED <<input, env, files, cleaned>>

\* index.json and the files of the summary are written outside every try block.
PublishFails ==
    /\ \/ /\ pc = "next" /\ Head(job.todo) = "benchmark"
          /\ job.queue = <<>> /\ job.seen # None
       \/ pc = "dispatch" /\ Head(job.todo) = "summarize"
       \/ pc = "report"
    /\ Fault /\ Exit(Traceback)
    /\ UNCHANGED <<input, env, store, files, interrupted, cleaned>>

\* Between invocations the operator changes the files of a case or the
\* configuration...
BetweenInvocations ==
    /\ pc = "idle" /\ left.invocations \in 1..(MaxInvocations - 1)
    /\ left.changes > 0 /\ left' = [left EXCEPT !.changes = @ - 1]
Edit(c) ==
    /\ BetweenInvocations
    /\ input[c] < MaxVersion /\ input' = [input EXCEPT ![c] = @ + 1]
    /\ job' = NoJob
    /\ UNCHANGED <<env, store, files, pc, interrupted, cleaned>>
Configure(part) ==
    /\ BetweenInvocations
    /\ env[part] < MaxVersion /\ env' = [env EXCEPT ![part] = @ + 1]
    /\ job' = NoJob
    /\ UNCHANGED <<input, store, files, pc, interrupted, cleaned>>

\* ... or removes an output directory.
Clean(t) ==
    /\ BetweenInvocations
    /\ cleaned' = cleaned \union {t}
    /\ job' = NoJob
    /\ CASE t[1] = "solve" ->
              /\ runs[t[2]].root
              /\ runs' = [runs EXCEPT ![t[2]] = [root |-> FALSE, xml |-> None, report |-> None]]
              /\ UNCHANGED <<perf, smokeDir, baseIndex, remote, summary>>
         [] t[1] \in {"perf", "base"} ->
              /\ perf[t].files > 0
              /\ perf' = [perf EXCEPT ![t] = [files |-> 0, reading |-> None]]
              /\ UNCHANGED <<runs, smokeDir, baseIndex, remote, summary>>
         [] OTHER ->   \* smoke/, baselines/index.json and summary/ together
              /\ smokeDir.xml # None
              /\ smokeDir' = [xml |-> None, report |-> FALSE]
              /\ baseIndex' = FALSE
              /\ summary' = [files |-> 0, rows |-> {}, failed |-> {}]
              /\ UNCHANGED <<runs, perf, remote>>
    /\ UNCHANGED <<input, env, store, pc, interrupted>>

Next ==
    \/ \E request \in Requests : Invoke(request)
    \/ \E ok \in BOOLEAN : Preflight(ok) \/ SmokeRun(ok) \/ BeginBenchmark(ok) \/ Upload(ok)
                            \/ CopyBaselines(ok)
    \/ BeginSmoke \/ SmokeXml \/ EndSmoke
    \/ BeginSolve \/ SolveNext \/ SolveLayout \/ EndSolve
    \/ SolveFails \/ (\E k \in Programs : SolveXml(k))
    \/ \E report \in Reports, rest \in BOOLEAN : SolveReport(report, rest)
    \/ BenchNext \/ BenchCommand \/ BenchEnvironment
    \/ \E table \in Tables \union {None} : Launch(table)
    \/ BenchMeasurements \/ BenchActivation \/ EndBenchmark
    \/ WriteReport \/ WriteSummaryFile \/ Finish
    \/ Crash \/ BodyFails \/ StartFails \/ PublishFails
    \/ \E written \in BOOLEAN, code \in {2, Traceback} : FinishFails(written, code)
    \/ \E c \in Cases : Edit(c)
    \/ \E part \in {"digested", "launch"} : Configure(part)
    \/ \E t \in Tasks : Clean(t)

Spec == Init /\ [][Next]_vars

-----------------------------------------------------------------------------
(* Properties *)

\* Every record, directory and control variable has its type.
TypeOK ==
    /\ input \in [Cases -> Versions] /\ env \in Environments
    /\ DOMAIN store = Tasks
    /\ \A t \in Tasks : store[t] \in TaskRecord(t) \union {None}
    /\ runs \in [Cases -> [root : BOOLEAN, xml : Xmls \union {None},
                           report : Reports \union {None}]]
    /\ \A c \in Cases : runs[c].xml # None => runs[c].root
    /\ perf \in [PerfTasks -> [files : 0..6, reading : ReadingRecords \union {None}]]
    /\ smokeDir \in [xml : Versions \union {None}, report : BOOLEAN]
    /\ baseIndex \in BOOLEAN
    /\ remote \in [PerfTasks -> Xmls \union {None}]
    /\ summary \in [files : 0..3, rows : SUBSET ReportRow, failed : SUBSET Tasks]
    /\ interrupted \subseteq Tasks /\ cleaned \subseteq Tasks

Succeeded(stage) == pc = "idle" /\ job.exit = 0 /\ job.request.stage = stage

\* A reading is of xml on both hosts and of the current environment.  A
\* resumed invocation only compares what the digest covers
\* (_benchmark_input_sha256): the launch settings may have changed since.
ReadingCurrent(reading, xml) ==
    /\ reading.xmls = {xml}
    /\ reading.env.digested = env.digested
    /\ reading.env # env => job.request.resume

\* When "vericcl-v100 all" returns 0, with or without --resume and whatever was
\* killed, failed, edited or removed before, the summary describes what was
\* solved and measured: the solve record of every selected case is of the
\* current inputs, the benchmark ran exactly the XML of that solve on both
\* hosts, the row of the report pairs that reading with the metadata of that
\* solve, and every baseline of the same topology and collective has a row of
\* the same size, all in the current environment.
AllMeansMeasured ==
    Succeeded("all") =>
        /\ summary.files = 3
        /\ \A c \in Selected :
             LET xml == runs[c].xml
                 t == PerfTask(c)
             IN /\ Passed(store[SolveTask(c)]) /\ store[SolveTask(c)].input = input[c]
                /\ ReportIsValid(runs[c].report)
                /\ Passed(store[t])
                /\ \E row \in summary.rows :
                     /\ row.task = t /\ row.size = Size[c] /\ row.metadata = xml
                     /\ ReadingCurrent(row.reading, xml)
        /\ \A b \in Range(Baselines), c \in Selected : Pair[b] = Pair[c] =>
             \E row \in summary.rows :
                /\ row.task = BaseTask(b) /\ row.size = Size[c]
                /\ ReadingCurrent(row.reading, BaselineXml(b))

\* A PASSED record is only ever put after everything its task publishes is on
\* disk, so that a kill between two writes never leaves a finished record with
\* half of its files: until the operator removes them, the files of a PASSED
\* task are complete and have the recorded content.
PassedIsComplete ==
    \A t \in Tasks \ cleaned : Passed(store[t]) =>
        CASE t[1] = "solve" -> /\ runs[t[2]].xml = store[t].output
                               /\ ReportIsValid(runs[t[2]].report)
          [] t[1] = "smoke" -> smokeDir.report /\ smokeDir.xml = store[t].output
          [] OTHER -> perf[t].files = 6 /\ perf[t].reading = store[t].output

\* However an invocation ends by itself, by an exception in the body of a task
\* or elsewhere, it closes the record of the task it was executing: a RUNNING
\* record is left by a kill, or by a write of that very task's record or error
\* log that failed.
RunningIsExplained ==
    pc = "idle" => \A t \in Tasks :
        store[t] # None /\ store[t].status = "running" => t \in interrupted

\* An improvement that a row claims is over measurements of its own topology,
\* collective and size that are confirmed to have run under MSCCL without a
\* wrong element, and over the fastest of them.
ComparisonSound ==
    \A row \in summary.rows : row.baseline # None =>
        LET ran(r) == r.reading.table[r.size]
            sound(r) == ran(r).confirmed /\ ~ran(r).wrong
            rivals == {r \in summary.rows : /\ r.task[1] = "base" /\ sound(r)
                                            /\ r.size = row.size
                                            /\ Pair[r.task[2]] = Pair[row.task[2]]}
        IN /\ sound(row)
           /\ \E r \in rivals : ran(r).bw = row.baseline
           /\ \A r \in rivals : ran(r).bw <= row.baseline

\* The report takes metadata by the name of a case alone.  Where a row pairs
\* them with the reading of another program, the state file shows it: the
\* benchmark has no PASSED record of the program that the metadata are of.
JoinExplained ==
    \A t \in Measured : Metadata(t) # None /\ perf[t].reading.xmls # {Metadata(t)} =>
        ~(Passed(store[t]) /\ store[t].input.xml = Metadata(t))

\* What the summary says is what was solved and measured, for single rows and
\* for the comparison with the baselines.
ResultsSound == AllMeansMeasured /\ ComparisonSound /\ JoinExplained

\* The state file never claims more than the disk holds, and a task that is
\* left open in it was cut short.
RecordsSound == TypeOK /\ PassedIsComplete /\ RunningIsExplained
=============================================================================
