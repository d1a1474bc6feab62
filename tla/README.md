# VeriCCL: a TLA+ model

VeriCCL synthesises schedules for collective communication (AllGather, AllReduce
and others), checks them, lowers them to MSCCL XML and measures them on GPUs.
These modules specify its control: time budgets shared by threads, child
processes that must not be lost, checkpoints and resumption, a control plane on
which all ranks take the same decisions, GPUs and buffers that must not be given
back early, experiments that are killed and repeated. They also specify the
algorithms between a collective and the memory of a GPU: plans, routes,
resource schedules, storage, thread blocks. TLC checks them on small instances;
TLAPS proves the budgets, the resumption, the control plane, the native session,
the owned processes, both workflows, the measurements with their launches, and the
experiment driver for all instances.

## 1. Inventory

| Component | Source (`vericcl/` unless it begins with `runtime/`) | State it keeps | Operations | Modules |
|---|---|---|---|---|
| Budget manager | `execution/budget.py` | leases, usage per stage and round, busy CPU slots, cancel flag, sleeping threads | `acquire`, `_close`, `start_tuning_round`, `cancel` | `BudgetManager`, `Budget_proofs`, `FiniteSums` |
| Stages, checkpoints, resume | `workflow_v5.py` (`stage`), `workflow_state.py` | the last checkpoint, the stage under way, owned jobs | open and close a stage, save, crash, restore | `ResumableBudget`, `Budget_proofs` |
| Owned child processes | `execution/processes.py`, `_resume_ownership` | process identity, signals sent, receipts, `active_jobs` | spawn, watch, terminate, scan `/proc`, report, reconcile, resume | `OwnedProcess`, `NativeJob_proofs` |
| Control transport | `runtime/execution/control_transport.cc` | `sequence_`, `broken_`; the coordinator's rounds, clients and fatal error | `gather`, `request`, `loop`, destruction | `GroupDecision` (abstract), `ControlTransport`, `ControlTransport_proofs` |
| Native session | `runtime/execution/api.cc`, `execute_impl.h` | busy, uncertain, closed, retained buffers, active request, communicator | `submit`, `execute_until`, `close_until`, public timeout | `NativeSession`, `NativeJob_proofs` |
| Primary workflow and publication | `workflow_v5.py`, `execution/context.py`, `execution/publication.py`, `cli/lifecycle.py` | incumbent, cost model version, candidates, rounds; durable: checkpoint, `best/accepted.json`, summary, `run.json`, exports | synthesis, calibration, baseline, capacity recovery, tuning round, compare, adopt, finalize, publish, resume | `PrimaryWorkflow`, `PrimaryWorkflow_proofs` |
| Planner | `planner/` | none; a stream of plans | direct, hierarchical, manual plans; partitions; grouping search | `Planner`, `GroupSearch` |
| Solver and composer | `solver/`, `composer/` | pool of models, deadlines, ready heap, candidate cache | demands, templates, routes, instantiation, composition, global scheduling, AUTO, strict calls, stream | `RouteSynthesis`, `GlobalScheduler`, `TemplateSearch` |
| Lowering and its checks | `xml/`, `semantics/`, `performance/simulation.py` | storage plan, native program | lower, admit or refuse, run | `ScheduleLowering`, `LegacyLowering`, `ProgramExecution` |
| Legacy workflow, tuner, verification | `workflow.py`, `tuning/engine.py`, `verification/pipeline.py`, `verification/online/pipeline.py` | candidates, reports, calibration, tuning history, files | solve, verify, validate online, calibrate, tune, export | `LegacyVerification`, `LegacyWorkflow`, `LegacyWorkflow_proofs` |
| GPU ownership and native launches | `execution/ownership.py`, `execution/native.py`, `verification/online/remote.py` | registry per host, launch directories, receipts, stop markers | prepare, acquire, launch, wrap a rank, stop, collect, finish | `GpuLaunch` |
| Campaigns and acceptance | `verification/online/campaign.py`, `model_publication.py`, `trace_once.py`, `acceptance.py`, `statistical_ledger.py` | groups measured, cost model with signatures, ledger of attempts | measure, fit, ask for sizes, publish, reserve, compare | `Measurement`, `Measurement_proofs` |
| Experiments | `experiments/v100.py`, `state.py`, `remote.py`, `report.py` | task records, no-replace files, remote staging | preflight, smoke, solve, benchmark, summarize, resume | `Experiments`, `Experiments_proofs` |

Every state module has an `MC...` module with its constants.

How they interact. The primary workflow thread opens a stage (a root lease) and
saves a checkpoint. Synthesis in a stage runs the planner's stream and the
solver; solver threads take model leases, each of which pays for an owned child
process. A process whose end cannot be confirmed keeps the lease unresolved and
its CPU slots busy. A candidate is lowered and admitted before it becomes an
incumbent. A checkpoint holds a snapshot of the budgets, and a resumed run first
asks whether recorded jobs are gone. Online work takes GPUs in the registry of
every host and starts one native process per rank; these processes exchange
all-rank decisions over the control transport, and each phase of a collective
is one such decision. Measured costs go back into the model under which the
incumbent and its rivals are compared. The legacy workflow is the same pipeline
for inputs of versions 3 and 4, in one process and without checkpoints. The
experiment driver runs it from outside, task by task.

The models are composed where the interaction is the difficulty:
`ResumableBudget` extends `BudgetManager`, `NativeSession` extends
`GroupDecision` (which `ControlTransport` refines), `Measurement` extends `GpuLaunch`,
`LegacyWorkflow` extends `LegacyVerification`, `ProgramExecution` extends both lowerings, and
`Planner`, `GroupSearch`, `RouteSynthesis`, `GlobalScheduler`, `TemplateSearch` extend each other in that order.

### What is hard

Threads that sleep with a condition variable and wake to a changed world; time
that is promised before it is used; death of a process between any two writes;
TCP connections that are lost, repeated and read late; callers that give up while
their worker goes on; GPUs that finish or not; process groups that fork while
`/proc` is being read; helpers that time out and go on; thread blocks that
follow recorded waits and nothing else; a heap whose entries go stale; routes
solved for one rank and used for another. `PROJECT.json` lists these hazards at
the lines where they bite, with the properties that cover each of them.

## 2. The modules and the code

### BudgetManager

`leases[i]` is an entry of `_leases`: closed, stage, model or root, parent,
start, deadline, work deadline, threads, unresolved. `AcquireRoot` is the branch
of `acquire` for a stage; its deadline is the minimum of what the round, the stage
and the wall clock leave, and it is refused when nothing but the clean-up reserve
is left. `AcquireModel` grants at once; `BeginWait` puts the thread to sleep inside
`_condition.wait`, which releases the lock; `WakeGranted` and `WakeRefused` are one
more turn of the loop, which checks the parent again. `CloseUnconfirmed` only
marks the lease, `CloseConfirmed` charges it and frees its threads unless children
are open. `StartTuningRound` resets what the round used. `Cancel` is the moment at which `cancel()`
gets the lock: it set the flag a moment before (`budget.py:168-171`), and an `acquire` that passed its
check in between, which holds the lock, counts as one from before the cancel.

A closed entry forgets its contents and its identity can be reused, because the
code looks at closed entries only to skip them. Seconds are whole units. `Tick`
stands for the monotonic clock.

### ResumableBudget

Extends `BudgetManager` by the workflow thread inside `stage()`: `StageOpen`,
`StageSaveOpened`, the work (solver leases, tuning rounds, `SaveDuringWork`,
owned jobs), `StageClose`, `StageSaveClosed`. `Crash` may fall between any two of
them and leaves only `saved`, the last complete checkpoint (`latest.json` is
replaced atomically). `Resume` builds a new manager from it: an open lease is
charged its elapsed time and the downtime up to its deadline, and the wall clock
goes on from `elapsed_wall_s + downtime`. The history variables `worked`,
`roundWorked` and `tunedRounds` record what really happened and are compared
with what the manager believes.

### GroupDecision and ControlTransport

`GroupDecision` is what callers of `gather` rely on: decision k exists once every
rank has submitted its k-th body, holds exactly those bodies, and each rank learns
the decisions in order, or becomes unresolved. `ControlTransport` is the
implementation. A connection is a record with the state it has at the coordinator
(unread, parsed, reply, error) and whether its rank still waits on it; `TrialTimeout`
is the quarter-second limit after which the rank reconnects with the same message
while the old connection may still be delivered. `ReadAccepted` and `ReadRejected`
are `request` with its checks in order, of which `Reason` names the one that throws; `Evict` is the loop of line 106 that keeps two
rounds; `Serve` is the reply, whose identity `Receive` compares with the request (`Matches`); `Lose` covers refused, reset and expired connections.
`RefinesGroupDecision` shows the refinement with `submitted <- sent`,
`learned <- sequence`, `unresolved <- broken`.

### NativeSession

Extends `GroupDecision`: an `exchange` submits a body and learns the decision or
finds its session broken. `pc[r]` is the phase in which the detached worker
of rank r is; `PublicTimeout` lets the caller give up while the worker goes on.
`Execute` opens the request and takes the buffers, the eight phases of
`execute_until` follow, `Launch` enqueues the collective, `GpuFinishes` is the device. `LaunchFails` is
a launch after START_ACK whose event record or collective fails on this rank alone (`execute_impl.h:53-58`);
the rank reports an error in the next phase, and `notEnqueued` remembers it, so that `Enqueues` counts what is in
the stream.
`LeftBehind` is the test in `submit` that turns a failure into an uncertain one.
`Close` runs `close_until`, which stops the schedule if the GPU is not known to be
done, destroys the communicator and releases the guard, and can fail at each point.

### OwnedProcess

One job. The operating system's side is `Fork`, `Exit`, `ClosePipe`, `Recycle` (the
PID goes to another process) and `TimePasses`, where time is which of the three
deadlines have passed. The manager's side follows `run_owned_process` statement
by statement: `Spawn`, `Own`, `RecordIdentity`, the watch loop (`Watch`, `Select`,
`WaitLeader`, `ScanGroup`, `CheckDeadline`, `LastScan`), the exception paths
(`Interrupt`, `RecordFails`, `LoopFails`), and the final reaping with its receipt.
The scan of `/proc` takes two steps, listing and reading. `Reconcile` and
`ResumeScan`/`ResumeDecides` are the later looks at the same job.

A process may fork at any time, also between the listing and the reading. The history variable
`escaped` holds what was forked while the last scan was under way, and the descendants of that:
`GoneMeansGone` says that nothing else is alive after a receipt or a resume that found the job gone, so
that this window is the only one.

### PrimaryWorkflow

A bundle is a schedule with the model version it was checked under, and
`check_xml_bundle` is a table from the two to a predicted time, 0 where some check
fails. `mem` holds the attributes of the `PrimaryWorkflow` object: `best` (the checked
incumbent), `rec` (`best_record`, which a resumed process has before it has `best`),
`model`, `cands`, `rounds`, `calibrated`. `pc` names a place in `run()`, `tuning_round()`,
`compare()` or `finalize_run()`. A place in the domain of `Stage` is about to enter
`stage()`: `OpenStage` acquires the lease and saves the first checkpoint; the action
that ends the body also saves the closing one. `BudgetRaised`, `SemanticRaised` and
`Aborted` are the exceptions, raised at an acquisition or anywhere in a
body, with the checkpoint of the `finally` clause (`Unwind`) and the handler that catches them.
`StoreInitial` to `SaveAdopted` lead to a baseline; `StartRound` to `RoundOver` are a tuning
round; `ReassessBest`, `Republish`, `ReassessProposal` keep the order of `compare()`;
`MarkIncomplete` to `MarkComplete` are the durable writes of finalization. `Crash` forgets
everything but the files, and stands for failing storage as well; `Resume` is
`resume_run` with `restore_checkpoint`. The history variable `lost` names the process that died with its
search finished and its `run-summary.json` unwritten (`Unreported`). Left out: the history index, the archive,
`timing.json`, and a candidate without XML, which can never become an incumbent;
the trace and measurement are in `Measurement`. Budgets are not counted here: a lease may run
out at any point, which includes every schedule of `BudgetManager`.

### ScheduleLowering, LegacyLowering and ProgramExecution

A request holds a collective, the limits and a candidate's operations. A value is
the set of slices summed in it, a byte range a slice number.
`ScheduleLowering` is the version 5 path: the check of the candidate
(`version_schedule.py`: roles and explicit dependencies of the operations included), copies into outputs, the protection of inputs that are
overwritten, scratch with reuse (`v5_buffers.py`), thread blocks and waits
with redundant waits removed (`v5_program.py`), and `evaluate_program`'s checks,
recomputed from the program alone (`v5_lower.py`): steps and dependency identifiers must fit their tables
(`WithinTables`), and `Launchable` adds scratch and channels. The lowering plans for scratch and
channels itself, so that `LoweredIsAdmitted` excuses a refusal only where the tables are too small. `LegacyLowering` is the path of
schedules with planned times: semantic and topology checks, buffers, liveness,
preserve copies, endpoints, the list scheduler, the static deadlock check and the
simulator. `ProgramExecution` takes a request through `Lower` or `LowerLegacy`, perhaps an
`Edit` of the sidecar, and `Check`, which admits or refuses it; then the GPUs run
the program: `Begin` and `Finish` of a step in every thread block, at any pace, with
bounded connections between GPUs. A step that is under way is visible as such, so
that two blocks that meet in one region show as a race.

Assumed: requests contain no dead values; the check trusts the storage plan of the
sidecar, as `check_xml_bundle` does. Left out: shared resources, the stages
of a legacy schedule, emitter, parser and trace sidecar.

### Planner and GroupSearch

`Planner` is `build_plan`: what a collective requires, direct plans, hierarchical plans through
gateways, a manual hierarchy, and the checks of `PlanDAG`. A plan is a sequence of nodes with
their logical inputs and outputs and the edges that pass them on. `GroupSearch` is the
planner of the current workflow: the partitions of the payload that the limits of the
runtime admit (`parameters.py`), every grouping of the ranks, and the plans over
them in the order in which they are tried (`group_search.py`).

### RouteSynthesis, GlobalScheduler and TemplateSearch

`RouteSynthesis` holds the algorithms: the demands of every plan node, routing units and
template classes, the routes the routing model may select (the set of solutions of
its constraints, `RoutePatterns`) or a constructive tree may find, their instantiation
on each member, and the composed transfers with their dependencies. A reduction is routed as
a broadcast and reversed; `ReduceTransfers` chains the accumulators and `Aggregated` is the
ledger of partial sums. `GlobalScheduler` assigns lanes and slots with a lazy heap.

`TemplateSearch` is the process around them, one call of `solve()`. Its variable `prep` is the plan
searched with its units, templates, admissible routes and lower bound (`Prepare`). `Solve` is the call up to the search,
then come the pool (`Submit`, `WorkerEnds`, `Collect`, `Drained`), composition channel count by
channel count, one `PopStale` or `Assign` per entry of the heap, `SearchThroughput` for AUTO
and `Finish` with the cache.
A worker may end with any route, without one, late, or with the loss of SCIP, at
any time its limit allows. `SearchNode` and `CombineNodes` are a call that requires a proof of
optimality: node after node, each with a share of the seconds and a pool over channel
counts; what `solve_milp` returns is an outcome (optimal, incumbent at the limit,
none), and the makespan of the combination is left open, so that `BoundHolds` is about composed schedules.
The clock goes in parts of a `Second`: a share is a whole number of seconds and at least one (`Share`), and a
node finds no time left below one second (`NoTimeLeft`).
AUTO's bound is the larger of two. The dependency bound is `prep.bound`; the resource bound is the optimum of a linear
program of which the routes of any schedule are a point, so that it is at most what these routes ask of their
busiest link or resource (`ResourceTime`), and `BoundHolds` compares both with the makespan. `OpenStream` to
`StreamExpires` are `CandidateStream`: batches of plans, a coarse model of each, then a fine one in the
order of the estimates.

Left out: `participants_by_slice`, route priorities, calibrated curves, the member fallback (which
`RoutesAccepted` shows is never needed on these instances), the limit of 32
paths, `ScipAdapter.available()`, the scatter and gather builders of `direct.py`, overlays, `solve_milp` for batched nodes,
single-rank in-place domains and the bound of 2^31 chunks. Sizes are in elements and one limit of thread blocks per
channel holds for both directions.

### LegacyVerification and LegacyWorkflow

`LegacyVerification` says what follows from the results of checks: the report of a
candidate, its online section, the result of an online validation, the tuner's verdict on a
proposal. `LegacyWorkflow` is the process: `Solve` or `Verify`, `Selected`, the stages of an
online validation (`Enter`, `Preflight`, `Calibrate`, `MeasureRound`, `TraceRun`), its
return to whoever called it (the first validation, the solve after a calibration, the tuner),
the tuning loop (`TuneInitial` to `EndTuning`), and export (`WriteArtifacts`, `Finalize`). The
clock advances in `Tick`; an action reads it where the code does. A schedule is its
verdict. Proposals are any sequence of schedules.

Ids follow the code: `SolverId` names a candidate by the key of its topology and its number, and a calibration that
measures the very curves that were given reproduces the key (`key = 0`). The sidecar of a verification may carry the
name of a candidate that an earlier run tuned (`SidecarIds`), and `RaiseDuplicate` is the tuner's refusal
of an id it has already seen (`tuning/engine.py:820-825`).

### GpuLaunch and Measurement

`GpuLaunch` is one native launch on every host. `l` is the coordinator's place in `_launch`,
`helpers` the helper processes under way, which may outlive the call that started them, `dir`
the launch directory of a host with what its wrapper and native process have done, `reg`
the ownership registry, `partial` the leftover of a registry write that died. `PrepareAcquires` to
`CollectFinishes` are the helper's operations step by step; `RankChecks` to `RankTimesOut` the rank
wrapper; `MpiEnds`, `MpiAborts`, `MpiTimeout` what mpirun may do. `Misfortune` holds the faults:
a native failure, an expired lease, a restarted host. A helper that is killed inside a registry write may leave
its partial file (`Torn`). The rival is another run
that takes and gives back GPUs through the same registry.

`Measurement` extends it by the task: calibration campaigns (`StartCampaign` to `FitAndPublish`)
with extra payloads and confirmation, and paired comparisons
(`StartTrace`, `Reserve`, `StartSide` to `RoundDecides`). `Crash` keeps the files, the cache of groups and the
ledger. `EnvironmentChanges` gives the runtime another identity. `config` holds the payload sizes and whether
calibration reuse is configured. The model keeps service cost and rate profile apart, because `run_calibration`
does: of the cached service costs only that of the current signature is used, while the profiles of every identity that
hits (`Lookup`) are passed on under this signature, and the `First` that has a value for the payload is found (`Overlay`). `Records` has the records in the code's order, confirmations last.
`ledger.plans` lists the attempt numbers as they were reserved. The history variable `seen` is kept beside the
model as launches qualify: the environment of the latest qualified measurement, of the latest confirmation, and
the other identities found in the cache. Abstractions: a group
needs `MinSizes` sizes (3 in the code); an unidentifiable fit counts as a poor one; unstable rounds
are charged as faults; the directory and the stop check of a wrapper are one step; staging of files is part of a helper call.

### Experiments

One invocation of `vericcl-v100` at a time: `Invoke` with a stage, `Preflight`, smoke, solve,
benchmark, `WriteReport`, each durable write an action of its own (the final XML and the report of a solve included). A digest is the content it is
taken of; a directory whose files are published in a fixed order and never replaced is the number
of files in it. The environment has two parts: `digested`, which `_benchmark_input_sha256` covers, and `launch`, which it
does not. A reading is a table with a line for every size; the fastest baseline is found by topology, collective
and size. `Crash` may fall anywhere, and writes may fail: in the body of a task (`BodyFails`), at its RUNNING record
(`StartFails`), at its error log or last record (`FinishFails`), in the report (`PublishFails`). While no invocation runs, `Edit` changes
inputs, `Configure` a part of the environment and `Clean` removes a directory. The state file has no lock, so that a single invocation at
a time is assumed.

## 3. Runs

| Run | What it checks | Instance | States, time |
|---|---|---|---|
| `budget` | `TypeOK`, `CpuAccounting`, `GrantsFit`, `NoGrantAfterCancel`, `UsageOnlyGrows`, `SleepersReturn` | 2 stages, 3 leases, 1 solver thread beside the workflow, clock to 4 | 90 s |
| `resume` | `ResumeNeverRefunds`, `LimitsHonoured` | 2 stages, 2 rounds, any number of crashes within 4 units | seconds |
| `transport` | `CoordinatorSafe`, `Agreement`, `RefinesGroupDecision`, `GroupAdvances` | 2 ranks, 3 gathers, 2 connections each | 100 632, 45 s |
| `session` | `GroupInStep`, `BuffersHeldWhileGpuRuns`, `OperationsEnd` | 2 ranks, 2 requests | 640 521, 160 s |
| `owned_process` | `GoneMeansGone`, `NoStrangerSignalled`, `CallReturns` | a leader and 2 further processes | 303 750, 23 s |
| `workflow` | `PublicationSound`, `AcceptedExecutes`, `IncumbentMonotone`, `RunEnds` | 2 schedules, 2 model versions, 3 tables, 4 commands, 2 rounds, 2 processes | 896 691, 92 s |
| `execution` | `ExecutesCorrectly`, `ReadsPlannedState`, `AdmissionSound`, `AdmittedFinishes` | 2 or 3 ranks, up to 4 transfers, both lowerings, in place and not, both layouts | 9 340, 68 s |
| `legacy_storage` | `ReadsPlannedState`, violated (section 4) | one legacy Reduce | seconds |
| `solver` | `ScheduleCorrect`, `PlansAndRoutesAccepted`, `NothingOverlooked`, `LazyHeapExact`, `StrictIsProven`, `SearchEnds` | 23 requests on 2 to 4 ranks, half seconds | 124 390, 65 s |
| `legacy` | `ExportSound`, `TuningSound`, `RunEnds` | 8 commands, 4 verdicts, 2 tuned schedules, 2 iterations | 1 002 054, 64 s |
| `experiments` | `RecordsSound`, `ResultsSound` | 1 case, 2 baselines, 2 sizes, 2 invocations, 1 kill or failed write, 2 changes by the operator | 3 561 433, 150 s |
| `measurement` | `GpuSafe`, `AlphaWithinTask`, `ModelApplies` | 2 hosts, 2 launch directories, a rival, 1 fault; 2 campaigns with reuse, 1 with payloads for a confirmed fit, 1 without reuse, or 2 comparisons | 2 548 688, 213 s |

Several of these are conjunctions of named parts, each with its own comment in the module:

| Property | Its parts |
|---|---|
| `GrantsFit` | `OneRootPerStage`, `ModelInsideRoot`, `OutstandingWithinLimits` |
| `ResumeNeverRefunds` | `TimeNeverRefunded`, `RoundsNeverRefunded`, `WallDeadlineFixed` |
| `LimitsHonoured` | `RTypeOK`, `WorkWithinLimits` |
| `CoordinatorSafe` | `TypeOK`, `RetainedUntilAdvanced`, `BoundedRounds`, `PoisonExplained` |
| `GroupInStep` | `NTypeOK`, `StartTogether`, `SuccessIsGroupWide`, `NoSilentDivergence` |
| `GoneMeansGone` | `TypeOK`, `ReceiptMeansGone`, `ResumeMeansGone` |
| `PublicationSound` | `WTypeOK`, `PublicationConsistent`, `ExportsCheckpointedIncumbent`, `FinishedResultNotShadowed` |
| `IncumbentMonotone` | `IncumbentKept`, `IncumbentImproves` |
| `ExecutesCorrectly` | `TypeOK`, `RaceFree`, `OutputsComputed` |
| `AdmissionSound` | `LoweredIsAdmitted`, `AdmittedSimulates` |
| `ExportSound` | `PublishedSelection`, `NoInternalError` |
| `TuningSound` | `OnlineTunedRan`, `TunedNeverSlower`, `TuningCalibrated` |
| `ScheduleCorrect` | `STypeOK`, `SumsTakenOnce`, `Delivers`, `ResourcesExclusive` |
| `PlansAndRoutesAccepted` | `RoutesAccepted`, `BuiltPlansAccepted` |
| `NothingOverlooked` | `BoundHolds`, `PartitionBoundsNecessary`, `UnhurriedSearchComplete`, `StreamExhaustive`, `EveryNodeGetsTime` |
| `ResultsSound` | `AllMeansMeasured`, `ComparisonSound`, `JoinExplained` |
| `RecordsSound` | `TypeOK`, `PassedIsComplete`, `RunningIsExplained` |
| `GpuSafe` | `TypeOK`, `GpuExclusive`, `ReleasedIsQuiet`, `SampleIsGenuine`, `ConfirmedIsQuiet` |

Bounds. *budget, resume*: stages interact only through slots, the clock and the
round reset, so that two are enough; three leases allow a root with two children or two
roots and a child; the allowances make every limit bite before the clock
ends. *transport*: three gathers are the least at which a round is evicted while a
duplicate of it can be in flight; two connections are one live and one stale;
`MCCalls` lets the ranks disagree on the second phase and one report an error in the last.
*session*: with two requests, state left by the first could be taken for the second.
*owned_process*: two forked processes allow a child to outlive its parent. *workflow*: two schedules and two
model versions allow an incumbent to be overtaken, to tie and to stop being
executable; two rounds let the second repair what the first left stale; two
processes are one death and one resume. *execution*: relays, stars, exchanges and swaps, with one or two
scratch slots, limits of four steps and two dependency identifiers, so that reuse, in-place
outputs, NOPs and refusals occur; one slice per connection is the smallest buffer. *solver*: gateways
between two nodes, a triangle behind a shared bus, a line, two rails, bans, uneven slices, streams with
batches of two; two workers, budgets shorter and longer than a model's limit and with half seconds to lose. *legacy*: the deadline may
fall between any two actions. *experiments*: two invocations are the least for a resume after an
edit; the baselines differ in bandwidth, activation and wrong elements by size, while a table without an in-place line
(`report.py:123`) is left to the proof. *measurement*: payloads of one or two sizes and room for one more, so that a campaign ends without
further payloads, asks for one, or is confirmed; a level of 1/2 in place of 1/20 so that two attempts can both be accepted.

Deadlock checking is off where the component may legitimately finish: a budget
runs out, a session is closed, a job is done. It is on for `solver`.

Fairness. `SleepersReturn`: the clock runs and a sleeper wakes, because
`_condition.wait` has a timeout of at most 0.05 s. `OperationsEnd`: a worker thread
takes its steps, because every exchange and GPU wait has a deadline; nothing is assumed of
the GPU or of peers. `CallReturns`: the manager thread and the clock run, nothing
is assumed of the job. `GroupAdvances`: ranks keep calling, expiry removes stale
clients (weak fairness), and a connection that is tried again and again is
sometimes read, served and received within its quarter second (strong fairness):
a lossy network, not a severed one. `RunEnds` (both workflows): the process takes its
next step, because it is one sequential computation whose waits are bounded; nothing is assumed of
crashes or resumes. `AdmittedFinishes`: some thread block that can take a step does, as the GPU
schedules resident blocks. `SearchEnds`: the main thread, the clock and the workers go
on; a worker stops at the limit given to SCIP.

## 4. Where the code and its words differ

`legacy_storage` is a run in which TLC finds the stated property violated.
`docs/architecture.md:45` says a value must be retained until the last read finishes, and line 47 that the
final event graph includes scratch reuse. The legacy lowering shares a scratch slot between
values whose planned times do not meet (`xml/buffers.py:227-233`) and records no dependency for
the reuse. Two sums relayed through one rank share a slot, and a run in which the
second arrives early overwrites the first before it was sent. The version 5
lowering does add these edges, and the `execution` run shows they are enough.

Deviations that were found while modelling and that no run states as violated; the properties
beside them are stated so that they hold around these cases:

* `control_transport.cc:133` says a stale duplicate must not poison the current group. That holds
  for a duplicate parsed before its round was evicted; one that is read after it is
  refused in line 92, which sets `fatal` and fails every rank. `PoisonExplained` says that this and ranks in
  different phases are the only ways to a fatal error; `GroupAdvances` allows the stop that follows.
* `docs/supported-configuration.md:14` says that after a time or round limit the output retains the best
  accepted schedule. If the limit falls between a calibration inside `compare()` and the reassessment that
  follows (`workflow_v5.py:508-510`), the incumbent is of an older model version, the test in line 768
  makes the result incomplete, and `publish_results` removes `schedule.xml`.
* `README.md:554` says that `resume` completes the exports when finalization was interrupted. A run that was
  aborted or found no baseline publishes its result completely, without a finished checkpoint. When the process that takes
  it up finishes the search and dies before its `run-summary.json`, the next `resume` takes the old summary for the
  finished search's: it keeps the old publication if that was not withdrawn yet, and publishes it again if the death fell
  between marking the run incomplete and writing the summary (`cli/lifecycle.py:101-117`). `FinishedResultNotShadowed`
  states exactly this: a result older than the finished search is of such a run, and only after such a death.
* A resumed process saves its first checkpoint before the stored candidates are read back
  (`workflow_v5.py:688`), so that a second death in that stage loses them and synthesis starts again, which
  `tests/integration/test_history_and_resume.py:151` excludes for one death.

Windows in which the repository promises nothing:

* a process that forks and exits between the listing of `/proc` and the reading of its entry hides its
  child (`processes.py:73`), and a receipt is written for a group that still lives; `GoneMeansGone` shows there is no other way;
* an interrupt or death of the manager between `Popen` and `identity.json` leaves a
  child that neither the call nor a resume knows of;
* `vericcl_destroy` on rank 0 asks only about its own context, so the coordinator can
  go while a peer still waits for the last reply; that peer ends unresolved;
* in `compare()` a failure after the incumbent was reassessed and before `publish_best`
  leaves an accepted result whose `model.json` is of the previous version;
* an exception after the finished checkpoint publishes an unevaluated result that `resume` keeps;
* a legacy run whose tuning used up the time loses its result at `deadline.check("artifact writing")`
  (`workflow.py:1313`), and a candidate that failed online is still exported, marked as such;
* a calibration that reproduces the curves it was given lets both solves name their candidates alike: the export is
  the first artifact of the name, or an error if that one has no XML;
* `verify --tune` of the sidecar of a candidate that an earlier run tuned proposes its id again and raises
  (`tuning/engine.py:820-825`);
* a model that ends late fails the whole solver call although other models have routes
  (`template_search.py:540`); a strict call with less than a second left for some node ends in an error (`orchestrator.py:379-383`, raised in 161-163), which
  a call of exactly one second per node does as soon as any time passes outside a model; a strict call on
  a plan of several nodes searches them all, although only a plan of one node can be proven
  (`orchestrator.py:193`); the candidate cache does not distinguish wall clock budgets; the handler at
  `orchestrator.py:633` names a variable that is not yet bound;
* in a candidate stream the time limit of one model ends the stream as if the whole budget were spent;
* a probe launch whose preparation failed on one host leaves the GPUs of the prepared hosts quarantined,
  since only the schedule driver cancels before the launch; a helper killed between taking a GPU and
  recording it leaves the GPU taken; a torn record makes the ledger unusable;
* the cached rate profiles of every identity that hits enter the model under the current signature and stay there
  (`campaign.py:119-124`, `model_publication.py:106`); a payload measured after a confirmation comes before it in the
  records, so that the model is signed with the environment of the confirmation;
* a state or error log that cannot be written leaves a task RUNNING and the exit status 2
  (`v100.py:910-912`, 925, 1164, 1279-1281, 1295, through `state.py:148-149`);
* `VERICCL_MPI_TCP_IF_INCLUDE` (`v100.py:538`), the content of the hostfile and the directory of nccl-tests are not in the digest of a
  benchmark (742-756), so that `all --resume` reuses a reading taken under other launch settings;
* smoke output is never replaced, so `all --resume` cannot pass a smoke test that has passed until its directory is
  removed; failed tasks cannot be retried in the same root; running without `--resume` turns a passed task into a failed one;
  `summarize` alone pairs metadata and measurements by the name of the case and may join old measurements with newer
  metadata, which the state file then shows (`JoinExplained`).

## 5. Proofs

Each theorem holds for every value of the constants that satisfies the named
assumptions of the module; TLC evaluates those assumptions on every run. The
safety theorems of a module rest on one inductive invariant (two in `Budget_proofs`, `NativeJob_proofs` and `Experiments_proofs`; three in
`Measurement_proofs`: the ledger and the model, the jobs of a campaign, the launches). A proof has one lemma per action and, under
it, one step per conjunct that the action can disturb.

| Module | Theorem | Statement |
|---|---|---|
| `Budget_proofs` | `BudgetInvariant` | `Spec => []BudgetInv` |
| | `TypeCorrect` | `Spec => []TypeOK` |
| | `GrantsStayCovered` | `Spec => []GrantsFit`, from `RootsAreUnique`, `ModelsStayInside`, `PromisesAreCovered` |
| | `SlotsAreCounted` | `Spec => []CpuAccounting`, with `SlotsAreBounded` |
| | `CancelStopsGrants` | `Spec => NoGrantAfterCancel` |
| | `UsageIsMonotone` | `Spec => UsageOnlyGrows` |
| | `ResumeInvariant` | `RSpec => []ResumeInv` |
| | `ResumeRefundsNothing` | `RSpec => []ResumeNeverRefunds` |
| | `LimitsAreHonoured` | `RSpec => []LimitsHonoured` |
| `ControlTransport_proofs` | `CoordinatorIsSafe` | `Spec => []CoordinatorSafe` |
| | `RanksAgree` | `Spec => []Agreement` |
| | `TransportImplementsDecisions` | `Spec => RefinesGroupDecision` |
| `NativeJob_proofs` | `BuffersAreHeld` | `NSpec => []BuffersHeldWhileGpuRuns` |
| | `GroupStaysInStep` | `NSpec => []GroupInStep` |
| | `StrangersAreSafe` | `Spec => []NoStrangerSignalled` |
| | `GoneIsGone` | `Spec => []GoneMeansGone` |
| `PrimaryWorkflow_proofs` | `WorkflowInvariant` | `Spec => []WorkflowInv` |
| | `AcceptedAlwaysExecutes` | `Spec => []AcceptedExecutes` |
| | `PublicationIsSound` | `Spec => []PublicationSound` |
| | `IncumbentIsMonotone` | `Spec => IncumbentMonotone` |
| `Measurement_proofs` | `LevelsSumWithinTask` | the levels of the attempts 1 to `n` sum up to at most `task_alpha`, in any unit |
| | `TaskSpendsItsAlpha` | `Spec => []AlphaWithinTask` |
| | `PublishedModelApplies` | `Spec => []ModelApplies` |
| | `CampaignInvariant` | `Spec => []CampaignOK` |
| | `GpuInvariant` | `Spec => []GpuInv` |
| | `LaunchesAreSafe` | `Spec => []GpuSafe` |
| `Experiments_proofs` | `RecordsInvariant` | `Spec => []RecordsInv` |
| | `ExperimentRecordsSound` | `Spec => []RecordsSound` |
| | `ResultsInvariant` | `Spec => [](ResultsInv /\ ComparisonSound)` |
| | `ExperimentResultsSound` | `Spec => []ResultsSound` |
| `LegacyWorkflow_proofs` | `LegacyInvariant` | `Spec => []LegacyInv` |
| | `LegacyExportSound` | `Spec => []ExportSound` |
| | `LegacyTuningSound` | `Spec => []TuningSound` |

**FiniteSums** holds helper lemmas. CPU slots, stage time and significance levels are sums over finite sets, which the
library defines by recursion. The prover cannot instantiate the library's induction theorems, so
induction is stated as the existence of a least counterexample: `LeastNatural` from the
well-foundedness of the naturals, `SmallestSubset` from the cardinality of subsets. The sum of a
function is then shown to exist, to be unique, to lose `g[x]` with an element `x`, to depend only on
the values on the set, and to be a natural number when they are.

**BudgetManager.** `BudgetInv` adds to the properties that an open lease did not start in the future
(what its close charges is a natural number) and that the parent a sleeping thread holds was a root
lease, whose identity is not handed out again. `OutstandingWithinLimits` needs
`OneRootPerStage`: charging one root would otherwise break the promise made to a second one.
`ModelInsideRoot` needs the guard that a root with open children does not close. The slot count
follows each lease in and out of the sum.

**ResumableBudget.** `ResumeInv` says of two sets of counters that they cover the work done: those of
the manager (`CountersCover`) and those a resume from the last checkpoint would restore
(`SavedCovers`). The second is what a crash falls back on. `AtWork` ties them: while
`stage()` works, the checkpoint holds the lease it works under, so that the charge at
resume (time since the lease was opened, cut at its deadline) grows with the clock as the work does. The limits follow
because a lease's deadline was computed from what was left.

**ControlTransport.** Whatever lies in a connection or a round was sent by its rank for that sequence number,
however late it arrives, because a rank builds one body per sequence number (`SentOnce`,
`Carries`). So a frame is never ahead of its round nor different from an earlier copy, and one below the retained rounds is a
duplicate that no rank waits for: what `request` refuses is that, or a phase on which two ranks differ (`FatalOK`). A complete round finds every rank waiting for it, so no rank is more than one
decision behind, and the two retained rounds answer every repeated request. The refinement maps the
coordinator's log to `GroupDecision`'s decisions; every step is a step of it or a stutter.

**NativeSession.** A rank submits one body for each decision it learned and at most one more; a decision
needs a body of every rank; so two ranks are at most one decision apart. What a rank has
enqueued and completed depends on the decisions it learned alone (`InStep`), and the last body of a rank tells what it
vouched for (`PendingOK`), which keeps its buffers until the device is done. A rank whose enqueue failed has told its peers so, is
about to, or is uncertain (`FailedOK`), so that no request succeeds anywhere which one rank did not enqueue.

**OwnedProcess.** `SignalInv` (what `waitid` said of the leader stays true; its PID is a stranger's only after it was
reaped) holds whatever the job does. `GoneInv` adds that a scan under way has listed every process that
runs, except those of `escaped` (`ScanComplete`), so that a scan which reads nobody alive leaves only those.

**PrimaryWorkflow.** `SearchInv`: while a process searches, the checkpoint names its model and
incumbent, except between `adopt()`'s publication and the checkpoint after it, and
`best/accepted.json` names the incumbent, except after a revalidation that failed. `ResultInv`: a result of
a search that came to its end follows a finished checkpoint; once it is in the summary no process
searches any more. `PublishInv` follows the files one by one, and `ReportInv` the age of the summary: it is older
than the finished search only while the process that finished it has not written its own, or after that process died there. `MaxLives > 0` and `NoneAssumption` (the empty
value is none of the records) are assumed.

**Measurement.** The levels `task_alpha / (i (i + 1))` of the first `n` attempts take `n / (n + 1)` of
`task_alpha`; the lemma multiplies that out, because levels are counted in whole units. `MeasurementInv` adds that
the attempts reserved are 1 to `n` in this order, hence all different, although a crash may fall between reserving and
using one; that the attempt at work is the latest and still open, so that a decision closes it once; and where the
values of the model come from: the service cost from the latest qualified measurement or confirmation, a profile also from
the strays of the cache, if reuse is configured. It needs nothing of the launches but that they touch neither the ledger nor the model.

**Native launches.** `GpuInv` is about one launch directory at a time. `Goes(d, e)` says where a rank may go from
`d`: it never regains the ability to use its GPU, never takes `STOP` back and never undoes an exit with zero. Every action
takes every rank only where it may go (`DirGoes`), with two exceptions that are proved by themselves: mpirun starts
the wrappers, when every host was prepared and is held; and a quiet directory is blanked. So what a page of receipts
says (`PageOK`) is still true of the rank however late a helper applies it, and the registry may give the GPU back on it: whoever may
use a GPU holds it (`UseOK`). `CleanOK` follows a launch without errors: no helper of it is left over from an earlier call, so that
what it collected is what the registry acted on, and a sample is taken only after the GPUs were given back. For a launch with an error
none of this holds, and none of it is needed. Assumed: there is a host (`HostAssumption`), the other run is none of this
run's launches (`RootAssumption`), payload sizes are a non-empty sequence without repetition, as `payload_sizes` returns, and
`max_rounds` is positive, as the schema demands (`CampaignAssumption`).

`ConfirmedIsQuiet` is about the launch that was confirmed. It does not say that a completed campaign leaves every GPU
idle: after a crash, a native process of the life before may still run, quarantined or held by the registry, while a
resumed campaign whose jobs are not admitted comes to its end. Two faults are enough for that.

**Experiments.** `RecordsInv` is about one task at a time: from its RUNNING record to its PASSED or FAILED one a task owns
its files (`BodyOK`), every label of its body says what is on disk by then (`FilesOK`, `MadeOK`), and the reading of a benchmark is of the
program and environment whose digest its record holds (`ReadingsOK`). A body touches the files of its own task only, so nobody
disturbs those of a PASSED one; `CleanedOK` separates what the operator removed. `RunningOK` ties a RUNNING record to the task under
way, or to a kill or failed write of that task, and `StageOK` the label and the stage to the task. `ResultsInv` is about the stages: within
`solve` and `benchmark` every selected case is finished, still queued or under way (`SolveProgress`, `BenchProgress`), what `solve_matrix`
read at its start is still the record of a case that waits (`SeenOK`, which needs that a case is listed once), and what `all` has behind it
stands (`StagesDone`). A reuse counts as finished because a record that matches the XML on disk was not removed, hence is complete.
That a row joins metadata and a reading of different programs only against the record of the benchmark follows from the
readings (`JoinFollows`). The fastest baseline is a maximum over a finite set (`MaxFacts`, from `SmallestSubset`). Assumed: a manifest lists at least one
case and none twice, as `ExperimentManifest` enforces (`ManifestAssumption`); requests, readings and versions have their types; the empty
value is no record (`NoneAssumption`).

**LegacyWorkflow.** `LegacyInv` has a part per piece of state. `SearchInv`: an id is one candidate's within a solve and names the
key of its topology, so that the second solve after a calibration meets an id of the first only if the curves were reproduced (`SameName`). `FinalInv`: what is selected is a
valid candidate of the latest solve, until the tuner replaces it. `CallInv` follows the online validation under way: whose it is, that a
planned calibration which was not applied blocks tuning, and that a result which allows tuning has what `attach_online_result_to_tuning_context` asks for;
`OnlineInv` keeps that after the call. `HistoryInv`: the ids of the tuner's history are those of proposals already concluded, hence all different and
different from the first, which a sidecar may have named like a proposal, because a repetition raised, and an error of this kind is
then one that `NoInternalError` excuses (`Excused`). `BestInv` compares the best entry with the first one: an acceptance improves the simulated time strictly and,
by the percentage asked for, which may be zero, makes the measured median no larger. `RecordsInv` and `FilesInv` then find
the selected id exactly once among the records and the exported files, which is what `Finalize` relies on. Assumed: commands, verdicts and
measurements have their types and there is a measurement to be had (`LegacyAssumption`), and the empty value is no
report, result or entry (`NoneAssumption`).

Only model-checked:

* all liveness (`SleepersReturn`, `GroupAdvances`, `OperationsEnd`, `CallReturns`, `RunEnds`, `SearchEnds`,
  `AdmittedFinishes`): fairness and `ENABLED` are beyond the prover;
* `ProgramExecution` and `TemplateSearch`: their invariants are about what folds over
  sequences compute (storage plans, routes, schedules), which needs induction over data for every operator.

## 6. Reading a model against its source

`PROJECT.json` maps each definition to lines. Definitions without a line in the
repository are marked external: the clock, the device, the kernel's process table,
mpirun and the death of a process. Operators named `Mutant...`, or marked as a variant in their
comment, are plausible mistakes in one definition (a dropped guard, a missing reset); replacing the
original by its mutant makes the property named beside it fail, so that
each property is known to say something about the code. They are not part of any
specification.

## 7. Not modelled

* The SCIP encodings of the joint routing and timing model (`solver/milp.py`, `tuning/local_milp.py`) and of repairs
  (`tuning/repair.py`): numeric optimisation; the models keep the set of their solutions or their outcome.
* `solver/worker_scope.py`: a model in a fresh process; process and outcome are modelled, the files
  of SCIP are its own.
* BDD encodings, bounds by linear programs, rational arithmetic of predictions, trace decoding, clock synchronisation and
  bottleneck analysis: numeric results over large inputs that the workflows use as one verdict.
* Loaders, report writers, redaction, path layout and argument handling: conversions without protocol state.
* `prepare_until`, `release_until` and `trace_control_until` of the native session, the schedule store, the probes
  and the MSCCL patches.
* The overhead experiments, the history index and the archive of runs.

## 8. Plan

1. Preparing and releasing versions in the native session.
