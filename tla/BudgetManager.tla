--------------------------- MODULE BudgetManager ---------------------------
(***************************************************************************)
(* The wall-clock budgets and CPU slots that synthesis, validation and     *)
(* repair share (vericcl/execution/budget.py).                             *)
(*                                                                         *)
(* A workflow thread opens one ROOT lease per stage; solver threads open   *)
(* MODEL leases below it, each holding some CPU slots.  Every operation    *)
(* holds the manager's condition variable, except that a solver thread     *)
(* that finds no free slot sleeps on it: the interval between going to     *)
(* sleep and being granted a slot is visible here as waiting[w].           *)
(*                                                                         *)
(* Time is counted in whole units.  The code only appends to its list of   *)
(* leases, and looks at a closed entry again only to find that it is       *)
(* closed: a lease that is closed here forgets everything else, and its    *)
(* identity may be taken by a later one when no sleeping thread names it.  *)
(***************************************************************************)
EXTENDS Integers, FiniteSets, FiniteSetsExt

CONSTANTS
    Stages,          \* the configured stages
    InitialStage,    \* the stage a tuning round does not need ('initial')
    PerRound,        \* stage -> allowance of one tuning round
    Total,           \* stage -> allowance of the whole task
    CpuBudget,       \* managed CPU slots
    MaxThreads,      \* max_threads_per_model
    MaxParallel,     \* max_parallel_models
    ModelTimeout,    \* per_model_timeout_s
    Reserve,         \* cleanup_reserve_s
    MaxRounds,       \* max_tuning_rounds
    RunWall,         \* max_run_wall_s
    LeaseIds,        \* identities of leases
    Workers,         \* solver threads
    NoRequest,       \* a thread that does not sleep
    NoParent,        \* the parent of a root lease
    MaxClock         \* bound: the clock stops here

ASSUME BudgetAssumption ==
    /\ PerRound \in [Stages -> Nat \ {0}]
    /\ Total \in [Stages -> Nat \ {0}]
    /\ CpuBudget \in Nat \ {0} /\ MaxThreads \in Nat \ {0}
    /\ MaxParallel \in Nat \ {0} /\ ModelTimeout \in Nat \ {0}
    /\ Reserve \in Nat \ {0} /\ RunWall \in Nat \ {0}
    /\ MaxRounds \in Nat /\ MaxClock \in Nat
    /\ InitialStage \in Stages
    /\ IsFiniteSet(LeaseIds)
    /\ NoParent \notin LeaseIds

VARIABLES
    clock,           \* the monotonic clock
    startedAt,       \* started_at of the manager object
    elapsedBefore,   \* elapsed_before_resume_s
    consumed,        \* stage -> wall time of closed root leases
    modelWork,       \* stage -> time of closed model leases
    roundConsumed,   \* stage -> consumed in the current round
    startedRounds,
    cpuInUse,
    leases,          \* _leases
    cancelled,       \* _cancel
    waiting          \* thread -> the request it sleeps with

managerVars == <<startedAt, elapsedBefore, consumed, modelWork, roundConsumed,
                 startedRounds, cpuInUse, leases, cancelled, waiting>>
vars == <<clock, managerVars>>
-----------------------------------------------------------------------------
Threads == 1 .. (IF MaxThreads <= CpuBudget THEN MaxThreads ELSE CpuBudget)

Lease == [stage : Stages, started : Nat, deadline : Int, work : Int,
          model : BOOLEAN, threads : Nat, parent : LeaseIds \cup {NoParent},
          closed : BOOLEAN, unresolved : BOOLEAN]

Request == [parent : LeaseIds, threads : Threads]

ASSUME NoRequestAssumption == NoRequest \notin Request

(* The value of an identity that no open lease uses. *)
Unused == [stage |-> InitialStage, started |-> 0, deadline |-> 0, work |-> 0,
           model |-> FALSE, threads |-> 0, parent |-> NoParent,
           closed |-> TRUE, unresolved |-> FALSE]

Open == {i \in LeaseIds : ~leases[i].closed}
Roots == {i \in Open : ~leases[i].model}
Models == {i \in Open : leases[i].model}
Children(i) == {j \in Open : leases[j].parent = i}
RootsOf(s) == {i \in Roots : leases[i].stage = s}

Smaller(a, b) == IF a <= b THEN a ELSE b

GlobalDeadline == startedAt + RunWall - elapsedBefore

(* BudgetLease.expired: remaining_seconds() <= 0 is work <= clock. *)
Expired(i) == cancelled \/ leases[i].closed \/ leases[i].work <= clock

(* Identities a new lease may take. *)
Fresh == {i \in LeaseIds : /\ leases[i].closed
                           /\ \A w \in Workers : waiting[w] # NoRequest
                                                   => waiting[w].parent # i}

SlotFree(n) == /\ Cardinality(Models) < MaxParallel
               /\ cpuInUse + n <= CpuBudget
-----------------------------------------------------------------------------
Init ==
    /\ clock = 0
    /\ startedAt = 0
    /\ elapsedBefore = 0
    /\ consumed = [s \in Stages |-> 0]
    /\ modelWork = [s \in Stages |-> 0]
    /\ roundConsumed = [s \in Stages |-> 0]
    /\ startedRounds = 0
    /\ cpuInUse = 0
    /\ leases = [i \in LeaseIds |-> Unused]
    /\ cancelled = FALSE
    /\ waiting = [w \in Workers |-> NoRequest]

Tick ==
    /\ clock < MaxClock
    /\ clock' = clock + 1
    /\ UNCHANGED managerVars

(* cancel(): _cancel is set before the lock is taken, so an acquisition that *)
(* has passed its check may still append its lease; it holds the lock, and   *)
(* this step is the moment cancel() gets it to wake the sleepers.            *)
Cancel ==
    /\ ~cancelled
    /\ cancelled' = TRUE
    /\ UNCHANGED <<clock, startedAt, elapsedBefore, consumed, modelWork,
                   roundConsumed, startedRounds, cpuInUse, leases, waiting>>

(* The deadline of a root lease opened now for stage s. *)
RootDeadline(s) ==
    Smaller(clock + Smaller(PerRound[s] - roundConsumed[s],
                            Total[s] - consumed[s]),
            GlobalDeadline)

StageIdle(s) == RootsOf(s) = {}

(* acquire(stage): the root lease of a stage.  A raised exception           *)
(* (cancelled, stage busy, budget exhausted) leaves the manager unchanged.  *)
AcquireRoot(s, i) ==
    /\ i \in Fresh
    /\ ~cancelled
    /\ StageIdle(s)
    /\ RootDeadline(s) - Reserve > clock
    /\ leases' = [leases EXCEPT ![i] =
           [stage |-> s, started |-> clock, deadline |-> RootDeadline(s),
            work |-> RootDeadline(s) - Reserve, model |-> FALSE,
            threads |-> 0, parent |-> NoParent,
            closed |-> FALSE, unresolved |-> FALSE]]
    /\ UNCHANGED <<clock, startedAt, elapsedBefore, consumed, modelWork,
                   roundConsumed, startedRounds, cpuInUse, cancelled, waiting>>

ModelDeadline(p) == Smaller(clock + ModelTimeout, leases[p].deadline)
ModelWorkDeadline(p) == Smaller(ModelDeadline(p) - Reserve, leases[p].work)

(* The tail of acquire(model=True) once a slot is free. *)
Grant(p, n, i) ==
    /\ i \in Fresh
    /\ SlotFree(n)
    /\ ModelWorkDeadline(p) > clock
    /\ cpuInUse' = cpuInUse + n
    /\ leases' = [leases EXCEPT ![i] =
           [stage |-> leases[p].stage, started |-> clock,
            deadline |-> ModelDeadline(p), work |-> ModelWorkDeadline(p),
            model |-> TRUE, threads |-> n, parent |-> p,
            closed |-> FALSE, unresolved |-> FALSE]]

(* acquire(model=True) that finds a slot at once. *)
AcquireModel(w, p, n, i) ==
    /\ waiting[w] = NoRequest
    /\ p \in Roots
    /\ ~Expired(p)
    /\ i # p
    /\ Grant(p, n, i)
    /\ UNCHANGED <<clock, startedAt, elapsedBefore, consumed, modelWork,
                   roundConsumed, startedRounds, cancelled, waiting>>

(* acquire(model=True, wait=True) that finds no slot and sleeps.  With      *)
(* wait=False it raises instead and nothing changes.                        *)
BeginWait(w, p, n) ==
    /\ waiting[w] = NoRequest
    /\ p \in Roots
    /\ ~Expired(p)
    /\ ~SlotFree(n)
    /\ waiting' = [waiting EXCEPT ![w] = [parent |-> p, threads |-> n]]
    /\ UNCHANGED <<clock, startedAt, elapsedBefore, consumed, modelWork,
                   roundConsumed, startedRounds, cpuInUse, leases, cancelled>>

(* The same loop without the second parent.check(). *)
MutantWakeGranted(w, i) ==
    /\ waiting[w] # NoRequest
    /\ Grant(waiting[w].parent, waiting[w].threads, i)
    /\ waiting' = [waiting EXCEPT ![w] = NoRequest]
    /\ UNCHANGED <<clock, startedAt, elapsedBefore, consumed, modelWork,
                   roundConsumed, startedRounds, cancelled>>

(* A sleeper that loops around: parent.check() is evaluated again. *)
WakeGranted(w, i) ==
    /\ waiting[w] # NoRequest
    /\ ~Expired(waiting[w].parent)
    /\ Grant(waiting[w].parent, waiting[w].threads, i)
    /\ waiting' = [waiting EXCEPT ![w] = NoRequest]
    /\ UNCHANGED <<clock, startedAt, elapsedBefore, consumed, modelWork,
                   roundConsumed, startedRounds, cancelled>>

(* A sleeper whose loop only tests for a slot, not for its parent. *)
MutantWakeRefused(w) ==
    /\ waiting[w] # NoRequest
    /\ SlotFree(waiting[w].threads)
    /\ ModelWorkDeadline(waiting[w].parent) <= clock
    /\ waiting' = [waiting EXCEPT ![w] = NoRequest]
    /\ UNCHANGED <<clock, startedAt, elapsedBefore, consumed, modelWork,
                   roundConsumed, startedRounds, cpuInUse, leases, cancelled>>

(* A sleeper whose loop raises: the parent expired, was closed or the task  *)
(* was cancelled; or a slot is free but too little time is left for it.     *)
WakeRefused(w) ==
    /\ waiting[w] # NoRequest
    /\ \/ Expired(waiting[w].parent)
       \/ /\ SlotFree(waiting[w].threads)
          /\ ModelWorkDeadline(waiting[w].parent) <= clock
    /\ waiting' = [waiting EXCEPT ![w] = NoRequest]
    /\ UNCHANGED <<clock, startedAt, elapsedBefore, consumed, modelWork,
                   roundConsumed, startedRounds, cpuInUse, leases, cancelled>>

(* The same close, giving the CPU back before the work is known to be gone. *)
MutantCloseUnconfirmed(i) ==
    /\ i \in Open
    /\ leases' = [leases EXCEPT ![i].unresolved = TRUE]
    /\ cpuInUse' = cpuInUse - leases[i].threads
    /\ UNCHANGED <<clock, startedAt, elapsedBefore, consumed, modelWork,
                   roundConsumed, startedRounds, cancelled, waiting>>

(* close(cleanup_confirmed=False): the lease stays open and keeps its CPU.  *)
CloseUnconfirmed(i) ==
    /\ i \in Open
    /\ leases' = [leases EXCEPT ![i].unresolved = TRUE]
    /\ UNCHANGED <<clock, startedAt, elapsedBefore, consumed, modelWork,
                   roundConsumed, startedRounds, cpuInUse, cancelled, waiting>>

MutantElapsed(i) == leases[i].started - clock

Elapsed(i) == clock - leases[i].started

ChargeClosed(i) ==
    IF leases[i].model
    THEN /\ cpuInUse' = cpuInUse - leases[i].threads
         /\ modelWork' = [modelWork EXCEPT ![leases[i].stage] = @ + Elapsed(i)]
         /\ UNCHANGED <<consumed, roundConsumed>>
    ELSE /\ consumed' = [consumed EXCEPT ![leases[i].stage] = @ + Elapsed(i)]
         /\ roundConsumed' =
                [roundConsumed EXCEPT ![leases[i].stage] = @ + Elapsed(i)]
         /\ UNCHANGED <<cpuInUse, modelWork>>

MutantCloseConfirmed(i) ==
    /\ i \in Open
    /\ leases' = [leases EXCEPT ![i] = Unused]
    /\ ChargeClosed(i)
    /\ UNCHANGED <<clock, startedAt, elapsedBefore, startedRounds, cancelled,
                   waiting>>

(* close(cleanup_confirmed=True); refused while a child lease is open. *)
CloseConfirmed(i) ==
    /\ i \in Open
    /\ Children(i) = {}
    /\ leases' = [leases EXCEPT ![i] = Unused]
    /\ ChargeClosed(i)
    /\ UNCHANGED <<clock, startedAt, elapsedBefore, startedRounds, cancelled,
                   waiting>>

(* A new round that also clears the usage of the task. *)
MutantStartTuningRound ==
    /\ ~cancelled
    /\ startedRounds < MaxRounds
    /\ clock < GlobalDeadline - Reserve
    /\ roundConsumed' = [s \in Stages |-> 0]
    /\ consumed' = [s \in Stages |-> 0]
    /\ startedRounds' = startedRounds + 1
    /\ UNCHANGED <<clock, startedAt, elapsedBefore, modelWork,
                   cpuInUse, leases, cancelled, waiting>>

(* start_tuning_round: refused when nothing would be left to run it with. *)
StartTuningRound ==
    /\ ~cancelled
    /\ startedRounds < MaxRounds
    /\ clock < GlobalDeadline - Reserve
    /\ \A s \in Stages \ {InitialStage} : Total[s] - consumed[s] > Reserve
    /\ roundConsumed' = [s \in Stages |-> 0]
    /\ startedRounds' = startedRounds + 1
    /\ UNCHANGED <<clock, startedAt, elapsedBefore, consumed, modelWork,
                   cpuInUse, leases, cancelled, waiting>>

Next ==
    \/ Tick
    \/ Cancel
    \/ \E s \in Stages, i \in LeaseIds : AcquireRoot(s, i)
    \/ \E w \in Workers, p \in LeaseIds, n \in Threads, i \in LeaseIds :
           AcquireModel(w, p, n, i)
    \/ \E w \in Workers, p \in LeaseIds, n \in Threads : BeginWait(w, p, n)
    \/ \E w \in Workers, i \in LeaseIds : WakeGranted(w, i)
    \/ \E w \in Workers : WakeRefused(w)
    \/ \E i \in LeaseIds : CloseUnconfirmed(i)
    \/ \E i \in LeaseIds : CloseConfirmed(i)
    \/ StartTuningRound

Spec == Init /\ [][Next]_vars

(* The clock runs, and a sleeper wakes at the latest every 0.05 seconds    *)
(* (_condition.wait takes a timeout) to run its loop again.                 *)
Wake(w) == WakeRefused(w) \/ \E i \in LeaseIds : WakeGranted(w, i)
FairSpec == Spec /\ WF_vars(Tick) /\ \A w \in Workers : WF_vars(Wake(w))
-----------------------------------------------------------------------------
(* Every variable has its type. *)
TypeOK ==
    /\ clock \in Nat /\ startedAt \in Nat
    /\ elapsedBefore \in Nat /\ startedRounds \in Nat
    /\ cpuInUse \in Int
    /\ consumed \in [Stages -> Nat]
    /\ modelWork \in [Stages -> Nat]
    /\ roundConsumed \in [Stages -> Nat]
    /\ leases \in [LeaseIds -> Lease]
    /\ cancelled \in BOOLEAN
    /\ waiting \in [Workers -> Request \cup {NoRequest}]

(* Neither the CPU slots nor the number of parallel models is exceeded. *)
SlotLimits ==
    /\ cpuInUse <= CpuBudget
    /\ Cardinality(Models) <= MaxParallel

(* The slots counted as busy are exactly those of the open model leases,    *)
(* unresolved ones included, and no limit is ever exceeded: a solver whose  *)
(* exit was not confirmed keeps its CPUs.                                   *)
CpuAccounting ==
    /\ cpuInUse = SumFunctionOnSet([i \in LeaseIds |-> leases[i].threads], Models)
    /\ SlotLimits

(* A stage has at most one open root lease. *)
OneRootPerStage ==
    \A i, j \in Roots : leases[i].stage = leases[j].stage => i = j

(* An open model lease hangs below an open root lease of its own stage,     *)
(* whose deadlines it does not outlive: a root is never closed, and its     *)
(* stage never reopened, under running model work.                          *)
ModelInsideRoot ==
    \A i \in Models :
        /\ leases[i].parent \in Roots
        /\ leases[leases[i].parent].stage = leases[i].stage
        /\ leases[i].deadline <= leases[leases[i].parent].deadline
        /\ leases[i].work <= leases[leases[i].parent].work

(* Whatever an open root lease may still use up to its deadline fits in     *)
(* what its stage, its round and the task have left.                        *)
OutstandingWithinLimits ==
    \A i \in Roots :
        LET s == leases[i].stage
            allowance == leases[i].deadline - leases[i].started
        IN  /\ consumed[s] + allowance <= Total[s]
            /\ roundConsumed[s] + allowance <= PerRound[s]
            /\ leases[i].deadline <= GlobalDeadline

(* Every open lease fits: one root per stage, its models inside it, and all *)
(* it may still use inside what stage, round and task have left, however    *)
(* acquisitions, unconfirmed closes and confirmations interleave.           *)
GrantsFit == OneRootPerStage /\ ModelInsideRoot /\ OutstandingWithinLimits

(* Once cancel() has had the lock no lease is opened, not even for a thread *)
(* that was asleep when the cancellation came.                              *)
NoGrantAfterCancel ==
    [][cancelled => \A i \in LeaseIds : leases[i].closed => leases'[i].closed]_vars

(* Usage is never given back, and an unresolved lease ends only by a        *)
(* confirmed close that charges it.                                         *)
UsageOnlyGrows ==
    [][/\ startedRounds' >= startedRounds
       /\ \A s \in Stages : consumed'[s] >= consumed[s]
       /\ \A i \in LeaseIds :
              leases[i].unresolved /\ ~leases[i].closed =>
                  \/ ~leases'[i].closed /\ leases'[i].unresolved
                  \/ leases'[i].closed /\ ~leases[i].model
                        /\ consumed'[leases[i].stage]
                             = consumed[leases[i].stage] + Elapsed(i)
                  \/ leases'[i].closed /\ leases[i].model
                        /\ modelWork'[leases[i].stage]
                             = modelWork[leases[i].stage] + Elapsed(i)]_vars

(* A solver thread that sleeps for a slot ends up with a lease or an        *)
(* exception: it never sleeps past its stage's deadline.                    *)
SleepersReturn ==
    \A w \in Workers : waiting[w] # NoRequest ~> waiting[w] = NoRequest
=============================================================================
