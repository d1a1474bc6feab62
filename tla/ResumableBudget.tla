-------------------------- MODULE ResumableBudget --------------------------
(***************************************************************************)
(* The budgets of one run across crashes: the stage() context manager of   *)
(* vericcl/workflow_v5.py, which opens a root lease, saves a checkpoint,   *)
(* works, closes the lease and saves again; and the budget part of         *)
(* save_checkpoint and restore_checkpoint (vericcl/workflow_state.py).     *)
(*                                                                         *)
(* The process may die between any two of these steps.  Only the last      *)
(* checkpoint survives.  Resuming builds a new BudgetManager from it and   *)
(* charges the leases that were open when it was saved.                    *)
(***************************************************************************)
EXTENDS BudgetManager

CONSTANT NoCheckpoint     \* nothing was saved yet

VARIABLES
    up,            \* the process is alive
    pc,            \* where the workflow thread is in stage()
    cur,           \* the root lease stage() holds
    ownedJob,      \* a child process that is not known to be gone
    saved,         \* checkpoints/latest.json
    worked,        \* history: stage -> time really worked, in all lives
    roundWorked,   \* history: the same, in the last round that worked
    tunedRounds,   \* history: rounds in which some stage began to work
    roundUntouched \* history: no stage worked in the current round yet

history == <<worked, roundWorked, tunedRounds, roundUntouched>>
driverVars == <<up, pc, cur, ownedJob>>
rvars == <<vars, driverVars, saved, history>>
-----------------------------------------------------------------------------
NonNegative(n) == IF n >= 0 THEN n ELSE 0

(* BudgetManager.snapshot together with saved_monotonic.  Of an open lease  *)
(* only the time it used and the time it had left are read back.            *)
Snapshot ==
    [consumed |-> consumed, modelWork |-> modelWork,
     roundConsumed |-> roundConsumed, rounds |-> startedRounds,
     elapsed |-> elapsedBefore + (clock - startedAt), at |-> clock,
     active |-> [i \in Open |->
         [stage |-> leases[i].stage, model |-> leases[i].model,
          used |-> Elapsed(i), left |-> NonNegative(leases[i].deadline - clock)]]]

RInit ==
    /\ Init
    /\ up = TRUE /\ pc = "idle" /\ cur = NoParent /\ ownedJob = FALSE
    /\ saved = NoCheckpoint
    /\ worked = [s \in Stages |-> 0]
    /\ roundWorked = [s \in Stages |-> 0]
    /\ tunedRounds = 0
    /\ roundUntouched = FALSE

(* with self.stage(s): the lease is acquired ... *)
StageOpen(s, i) ==
    /\ up /\ pc = "idle"
    /\ AcquireRoot(s, i)
    /\ pc' = "opened" /\ cur' = i
    /\ UNCHANGED <<up, ownedJob, saved, history>>

(* A stage() that starts its body before it saves. *)
MutantStageSaveOpened ==
    /\ up /\ pc = "opened"
    /\ pc' = "work"
    /\ tunedRounds' = tunedRounds + (IF roundUntouched THEN 1 ELSE 0)
    /\ roundUntouched' = FALSE
    /\ roundWorked' = IF roundUntouched THEN [s \in Stages |-> 0] ELSE roundWorked
    /\ UNCHANGED <<vars, up, cur, ownedJob, saved, worked>>

(* ... a checkpoint is saved, and only then does the body run. *)
StageSaveOpened ==
    /\ up /\ pc = "opened"
    /\ saved' = Snapshot
    /\ pc' = "work"
    /\ tunedRounds' = tunedRounds + (IF roundUntouched THEN 1 ELSE 0)
    /\ roundUntouched' = FALSE
    /\ roundWorked' = IF roundUntouched THEN [s \in Stages |-> 0] ELSE roundWorked
    /\ UNCHANGED <<vars, up, cur, ownedJob, worked>>

(* store() and adopt() save in the middle of the body. *)
SaveDuringWork ==
    /\ up /\ pc = "work"
    /\ saved' = Snapshot
    /\ saved' # saved
    /\ UNCHANGED <<vars, driverVars, history>>

(* The body hands work to a child process, which ends, or is reconciled as  *)
(* gone after a crash, in its own time.                                     *)
StartJob ==
    /\ up /\ pc = "work" /\ ~ownedJob
    /\ ownedJob' = TRUE
    /\ UNCHANGED <<vars, up, pc, cur, saved, history>>

JobGone ==
    /\ ownedJob
    /\ ownedJob' = FALSE
    /\ UNCHANGED <<vars, up, pc, cur, saved, history>>

(* lease.close(cleanup_confirmed=not active_jobs) *)
StageClose ==
    /\ up /\ pc = "work"
    /\ IF ownedJob THEN CloseUnconfirmed(cur) ELSE CloseConfirmed(cur)
    /\ pc' = "closed" /\ cur' = NoParent
    /\ UNCHANGED <<up, ownedJob, saved, history>>

(* close() raises for an open child, and the final checkpoint is skipped. *)
StageCloseRefused ==
    /\ up /\ pc = "work" /\ ~ownedJob
    /\ Children(cur) # {}
    /\ pc' = "idle" /\ cur' = NoParent
    /\ UNCHANGED <<vars, up, ownedJob, saved, history>>

StageSaveClosed ==
    /\ up /\ pc = "closed"
    /\ saved' = Snapshot
    /\ pc' = "idle"
    /\ UNCHANGED <<vars, up, cur, ownedJob, history>>

TuningRound ==
    /\ up /\ pc = "idle"
    /\ StartTuningRound
    /\ roundUntouched' = TRUE
    /\ UNCHANGED <<driverVars, saved, worked, roundWorked, tunedRounds>>

SolverOpen(w, i) ==
    /\ up /\ pc = "work"
    /\ AcquireModel(w, cur, 1, i)
    /\ UNCHANGED <<driverVars, saved, history>>

SolverClose(i) ==
    /\ up
    /\ i \in Models
    /\ CloseConfirmed(i)
    /\ UNCHANGED <<driverVars, saved, history>>

(* Time passes, also while the process is down.  A body that works before   *)
(* its lease's deadline adds to the history; overrunning it is left to the  *)
(* cleanup reserve.                                                         *)
Working == up /\ pc = "work" /\ clock < leases[cur].deadline

Pass ==
    /\ Tick
    /\ worked' = [s \in Stages |->
           worked[s] + IF Working /\ leases[cur].stage = s THEN 1 ELSE 0]
    /\ roundWorked' = [s \in Stages |->
           roundWorked[s] + IF Working /\ leases[cur].stage = s THEN 1 ELSE 0]
    /\ UNCHANGED <<driverVars, saved, tunedRounds, roundUntouched>>

(* The process dies and its memory, the manager included, is gone. *)
Crash ==
    /\ up
    /\ up' = FALSE /\ pc' = "idle" /\ cur' = NoParent
    /\ startedAt' = 0 /\ elapsedBefore' = 0
    /\ consumed' = [s \in Stages |-> 0]
    /\ modelWork' = [s \in Stages |-> 0]
    /\ roundConsumed' = [s \in Stages |-> 0]
    /\ startedRounds' = 0 /\ cpuInUse' = 0 /\ cancelled' = FALSE
    /\ leases' = [i \in LeaseIds |-> Unused]
    /\ waiting' = [w \in Workers |-> NoRequest]
    /\ UNCHANGED <<clock, ownedJob, saved, history>>

(* What restore_checkpoint charges for the leases that were open. *)
Downtime == clock - saved.at
MutantCharge(i) == saved.active[i].used

Charge(i) == saved.active[i].used + Smaller(Downtime, saved.active[i].left)
Charged(s, model) ==
    SumFunctionOnSet([i \in DOMAIN saved.active |-> Charge(i)],
                     {i \in DOMAIN saved.active : /\ saved.active[i].stage = s
                                                  /\ saved.active[i].model = model})

MutantRestoredRound(s) == saved.roundConsumed[s]

RestoredRound(s) == saved.roundConsumed[s] + Charged(s, FALSE)

RestoredWall == saved.elapsed + Downtime

(* restore_usage, on a manager of this life that has used nothing yet.      *)
RestoreUsage ==
    /\ elapsedBefore' = RestoredWall
    /\ consumed' = [s \in Stages |-> saved.consumed[s] + Charged(s, FALSE)]
    /\ modelWork' = [s \in Stages |-> saved.modelWork[s] + Charged(s, TRUE)]
    /\ roundConsumed' = [s \in Stages |-> RestoredRound(s)]
    /\ startedRounds' = saved.rounds

(* restore_checkpoint: refused while an owned job may be alive. *)
Resume ==
    /\ ~up
    /\ saved # NoCheckpoint
    /\ ~ownedJob
    /\ up' = TRUE
    /\ startedAt' = clock
    /\ RestoreUsage
    /\ roundUntouched' = FALSE
    /\ UNCHANGED <<clock, cpuInUse, leases, cancelled, waiting, pc, cur, ownedJob, saved,
                   worked, roundWorked, tunedRounds>>

RNext ==
    \/ \E s \in Stages, i \in LeaseIds : StageOpen(s, i)
    \/ StageSaveOpened
    \/ SaveDuringWork
    \/ StartJob
    \/ JobGone
    \/ StageClose
    \/ StageCloseRefused
    \/ StageSaveClosed
    \/ TuningRound
    \/ \E w \in Workers, i \in LeaseIds : SolverOpen(w, i)
    \/ \E i \in LeaseIds : SolverClose(i)
    \/ Pass
    \/ Crash
    \/ Resume

RSpec == RInit /\ [][RNext]_rvars
-----------------------------------------------------------------------------
RTypeOK ==
    /\ TypeOK
    /\ up \in BOOLEAN /\ ownedJob \in BOOLEAN /\ roundUntouched \in BOOLEAN
    /\ pc \in {"idle", "opened", "work", "closed"}
    /\ cur \in LeaseIds \cup {NoParent}
    /\ worked \in [Stages -> Nat] /\ roundWorked \in [Stages -> Nat]
    /\ tunedRounds \in Nat

OpenTime(s) == SumFunctionOnSet([i \in LeaseIds |-> Elapsed(i)], RootsOf(s))

(* No crash, however it falls between the steps of stage(), makes the run   *)
(* forget time that it worked: what the manager counts against a stage is   *)
(* never below what was really worked in all of the process's lives.        *)
TimeNeverRefunded ==
    up => \A s \in Stages : worked[s] <= consumed[s] + OpenTime(s)

(* The user's limits hold for the run as a whole, not for each life of it. *)
WorkWithinLimits ==
    \A s \in Stages : worked[s] <= Total[s] /\ roundWorked[s] <= PerRound[s]

(* A tuning round in which any stage worked stays counted after a resume.   *)
RoundsNeverRefunded == up => tunedRounds <= startedRounds

(* The wall deadline of the task is fixed when it starts: resuming neither  *)
(* extends it by the time the process was down nor shortens it.             *)
WallDeadlineFixed == up => GlobalDeadline = RunWall

(* A crash between any two steps of stage(), followed by a resume from the  *)
(* last checkpoint, gives back neither stage time nor a tuning round nor    *)
(* wall time (restore_checkpoint).                                          *)
ResumeNeverRefunds == TimeNeverRefunded /\ RoundsNeverRefunded /\ WallDeadlineFixed

(* The state has its types, and over all the lives of a run no stage works  *)
(* longer than the user allowed it in total and per round.                  *)
LimitsHonoured == RTypeOK /\ WorkWithinLimits
=============================================================================
