---------------------------- MODULE OwnedProcess ----------------------------
(***************************************************************************)
(* One job of run_owned_process (vericcl/execution/processes.py): a child  *)
(* process that leads its own process group, watched by the manager until  *)
(* the whole group is gone or the lease is over; its late reconciliation;  *)
(* and the ownership test a resumed run makes after the manager died       *)
(* (_resume_ownership in vericcl/workflow_state.py).                       *)
(*                                                                         *)
(* The processes of the group fork, exit and close their output pipes      *)
(* between any two steps of the manager.  _active_group_members lists      *)
(* /proc and then reads the entries, so it takes two steps here.  Time is  *)
(* what it means to the manager: before the execution deadline, between it *)
(* and the kill deadline, up to the end of the lease, and after it.        *)
(***************************************************************************)
EXTENDS Naturals, FiniteSets

CONSTANTS
    Leader,        \* the process started by Popen
    Kin,           \* processes it may fork, directly or indirectly
    Solver         \* the job is a local CPU solver ('scip-...')

ASSUME OwnedProcessAssumption ==
    /\ Leader \notin Kin
    /\ Solver \in BOOLEAN

VARIABLES
    \* the operating system
    now,           \* 0: running, 1: execution, 2: kill, 3: lease deadline passed
    leader,        \* "none", "alive", "zombie" or "reaped"
    kin,           \* forked processes that run
    born,          \* forked processes so far
    holders,       \* running processes with an open output pipe
    doomed,        \* processes that were sent SIGKILL
    recycled,      \* the leader's PID belongs to a stranger
    strangerHit,   \* history: a stranger's group was signalled
    \* the manager
    at,            \* where run_owned_process is
    identity,      \* ProcessIdentity was captured
    status,
    termSent, killSent,
    storageFailed,
    exited,        \* what waitid said in this iteration
    captured,      \* selector.get_map() is empty
    reaped,        \* code is not None
    cleanup,
    scan,          \* listdir("/proc") of the scan under way
    active,        \* job_id in context.active_jobs
    escaped,       \* history: forked while the last scan was under way, or
                   \* by such a process since: the scan cannot have listed it
    \* the run directory
    idFile,        \* identity.json exists
    result,        \* result.json: "none", or its cleanup_complete
    resumed        \* a resumed run accepted the job as gone

group == <<leader, kin, born, holders, doomed, recycled>>
os == <<now, group, strangerHit>>
control == <<at, identity, status, termSent, killSent, storageFailed, exited,
             captured, reaped, cleanup, scan, active>>
manager == <<control, escaped>>
files == <<idFile, result, resumed>>
vars == <<os, manager, files>>

Alive == kin \cup (IF leader = "alive" THEN {Leader} ELSE {})
Scanning == {"scan", "lastscan", "finalscan", "reconcile", "resumescan"}
Running == {"loop", "select", "wait", "scan", "check", "lastscan"}
-----------------------------------------------------------------------------
Init ==
    /\ now = 0 /\ leader = "none" /\ kin = {} /\ born = {} /\ holders = {}
    /\ doomed = {} /\ recycled = FALSE /\ strangerHit = FALSE
    /\ at = "start" /\ identity = FALSE /\ status = "not_started"
    /\ termSent = FALSE /\ killSent = FALSE /\ storageFailed = FALSE
    /\ exited = FALSE /\ captured = FALSE /\ reaped = FALSE /\ cleanup = TRUE
    /\ scan = {} /\ escaped = {} /\ active = FALSE
    /\ idFile = FALSE /\ result = "none" /\ resumed = FALSE

(* The operating system and the job's own processes. *)
TimePasses ==
    /\ now < 3
    /\ now' = now + 1
    /\ UNCHANGED <<group, strangerHit, manager, files>>

Fork(p, c) ==
    /\ p \in Alive \ doomed
    /\ c \in Kin \ born
    /\ kin' = kin \cup {c} /\ born' = born \cup {c}
    /\ holders' = IF p \in holders THEN holders \cup {c} ELSE holders
    /\ escaped' = IF at \in Scanning \/ p \in escaped THEN escaped \cup {c} ELSE escaped
    /\ UNCHANGED <<now, leader, doomed, recycled, strangerHit, control, files>>

ClosePipe(p) ==
    /\ p \in holders
    /\ holders' = holders \ {p}
    /\ UNCHANGED <<now, leader, kin, born, doomed, recycled, strangerHit, manager,
                   files>>

Exit(p) ==
    /\ p \in Alive
    /\ kin' = kin \ {p}
    /\ leader' = IF p = Leader THEN "zombie" ELSE leader
    /\ holders' = holders \ {p}
    /\ UNCHANGED <<now, born, doomed, recycled, strangerHit, manager, files>>

(* A PID is free again when the leader is reaped and its group is empty. *)
Recycle ==
    /\ leader = "reaped" /\ kin = {} /\ ~recycled
    /\ recycled' = TRUE
    /\ UNCHANGED <<now, leader, kin, born, holders, doomed, strangerHit, manager, files>>

MutantMatches == TRUE

(* ProcessIdentity.matches: a zombie still has its entry in /proc. *)
Matches == leader \in {"alive", "zombie"}

(* signal_owned_process_group *)
SignalSent == identity /\ Matches
Kill(sent) ==
    /\ doomed' = IF sent /\ ~recycled THEN doomed \cup Alive ELSE doomed
    /\ strangerHit' = (strangerHit \/ (sent /\ recycled))

(* _active_group_members: list /proc, then read the entries. *)
BeginScan == scan' = Alive /\ escaped' = {}
EndScan == scan' = {} /\ UNCHANGED escaped
Members == scan \cap Alive
-----------------------------------------------------------------------------
(* The request is recorded; the lease may already be over or cancelled. *)
NotStarted ==
    /\ at = "start"
    /\ at' = "report"
    /\ UNCHANGED <<os, identity, status, termSent, killSent, storageFailed,
                   exited, captured, reaped, cleanup, scan, escaped, active, files>>

SpawnFailed ==
    /\ at = "start" /\ now = 0
    /\ status' = "spawn_failed"
    /\ at' = "report"
    /\ UNCHANGED <<os, identity, termSent, killSent, storageFailed, exited,
                   captured, reaped, cleanup, scan, escaped, active, files>>

Spawn ==
    /\ at = "start" /\ now = 0
    /\ leader' = "alive" /\ holders' = {Leader}
    /\ at' = "spawned"
    /\ UNCHANGED <<now, kin, born, doomed, recycled, strangerHit, identity,
                   status, termSent, killSent, storageFailed, exited, captured,
                   reaped, cleanup, scan, escaped, active, files>>

(* The identity is captured and the job enters active_jobs ... *)
Own ==
    /\ at = "spawned"
    /\ identity' = TRUE /\ active' = TRUE
    /\ at' = "owned"
    /\ UNCHANGED <<os, status, termSent, killSent, storageFailed, exited,
                   captured, reaped, cleanup, scan, escaped, files>>

(* ... and identity.json is written. *)
RecordIdentity ==
    /\ at = "owned"
    /\ idFile' = TRUE
    /\ status' = "running" /\ cleanup' = FALSE
    /\ at' = "loop"
    /\ UNCHANGED <<os, identity, termSent, killSent, storageFailed, exited,
                   captured, reaped, scan, escaped, active, result, resumed>>

(* The top of an iteration: the status, then SIGTERM and SIGKILL. *)
Watch ==
    /\ at = "loop"
    /\ \E cancel \in BOOLEAN :
           status' = IF cancel \/ status = "cancelled" THEN "cancelled"
                     ELSE IF storageFailed THEN "storage_failure"
                     ELSE IF now >= 1 /\ status = "running" THEN "timeout"
                     ELSE status
    /\ LET kill == now >= 2 /\ status' # "running" /\ ~killSent
       IN  /\ termSent' = IF status' # "running" /\ ~termSent THEN SignalSent
                          ELSE termSent
           /\ killSent' = IF kill THEN SignalSent ELSE killSent
           /\ Kill(kill /\ SignalSent)
    /\ at' = "select"
    /\ UNCHANGED <<now, leader, kin, born, holders, recycled, identity,
                   storageFailed, exited, captured, reaped, cleanup, scan, escaped,
                   active, files>>

(* Output is read; writing it may fail; the pipes end when nobody holds them.*)
Select ==
    /\ at = "select"
    /\ storageFailed' \in {storageFailed, TRUE}
    /\ captured' \in {captured, captured \/ holders = {}}
    /\ at' = "wait"
    /\ UNCHANGED <<os, identity, status, termSent, killSent, exited, reaped,
                   cleanup, scan, escaped, active, files>>

(* waitid(WNOWAIT) leaves the leader a zombie. *)
WaitLeader ==
    /\ at = "wait"
    /\ exited' = (leader = "zombie")
    /\ IF exited' THEN BeginScan /\ at' = "scan"
       ELSE at' = "check" /\ UNCHANGED <<scan, escaped>>
    /\ UNCHANGED <<os, identity, status, termSent, killSent, storageFailed,
                   captured, reaped, cleanup, active, files>>

(* Treating the leader's exit as the end of the job. *)
MutantGroupGone == TRUE

GroupGone == Members = {} /\ captured

ScanGroup ==
    /\ at = "scan"
    /\ EndScan
    /\ IF GroupGone
       THEN /\ cleanup' = TRUE /\ reaped' = TRUE /\ leader' = "reaped"
            /\ at' = "left"
       ELSE at' = "check" /\ UNCHANGED <<cleanup, reaped, leader>>
    /\ UNCHANGED <<now, kin, born, holders, doomed, recycled, strangerHit,
                   identity, status, termSent, killSent, storageFailed, exited,
                   captured, active, files>>

(* An iteration that only looks at the deadline while the leader runs. *)
MutantCheckDeadline ==
    /\ at = "check"
    /\ IF now = 3 /\ ~exited THEN BeginScan /\ at' = "lastscan"
       ELSE at' = "loop" /\ UNCHANGED <<scan, escaped>>
    /\ UNCHANGED <<os, identity, status, termSent, killSent, storageFailed,
                   exited, captured, reaped, cleanup, active, files>>

CheckDeadline ==
    /\ at = "check"
    /\ IF now = 3 THEN BeginScan /\ at' = "lastscan"
       ELSE at' = "loop" /\ UNCHANGED <<scan, escaped>>
    /\ UNCHANGED <<os, identity, status, termSent, killSent, storageFailed,
                   exited, captured, reaped, cleanup, active, files>>

(* The lease is over: the group's state is what it is. *)
LastScan ==
    /\ at = "lastscan"
    /\ EndScan
    /\ cleanup' = (Members = {})
    /\ reaped' = exited
    /\ leader' = IF exited THEN "reaped" ELSE leader
    /\ at' = "left"
    /\ UNCHANGED <<now, kin, born, holders, doomed, recycled, strangerHit,
                   identity, status, termSent, killSent, storageFailed, exited,
                   captured, active, files>>

(* The loop is left; Ctrl-C may still come between the wait and the break. *)
Leave ==
    /\ at = "left"
    /\ \E s \in {"completed", "failed"} :
           status' = IF status = "running" /\ cleanup /\ reaped THEN s ELSE status
    /\ at' = "final"
    /\ UNCHANGED <<os, identity, termSent, killSent, storageFailed, exited,
                   captured, reaped, cleanup, scan, escaped, active, files>>

(* An exception leaves the try block: Ctrl-C, a failed record, an OS error. *)
Raise(s, failed) ==
    /\ status' = s
    /\ storageFailed' = failed
    /\ EndScan
    /\ Kill(SignalSent)
    /\ at' = "final"
    /\ UNCHANGED <<now, leader, kin, born, holders, recycled, identity,
                   termSent, killSent, exited, captured, reaped, cleanup,
                   active, files>>

Interrupt == at \in {"spawned", "owned", "left"} \cup Running
             /\ Raise("cancelled", storageFailed)
RecordFails == at = "owned" /\ Raise("storage_failure", TRUE)
LoopFails == at \in Running /\ Raise("failed", storageFailed)

(* The finally block: a leader that was not reaped is waited for, until the *)
(* cleanup deadline; then the group is scanned once more.                   *)
FinalWait ==
    /\ at = "final" /\ ~reaped
    /\ IF leader = "zombie" THEN leader' = "reaped" /\ reaped' = TRUE
       ELSE UNCHANGED <<leader, reaped>>
    /\ BeginScan
    /\ at' = "finalscan"
    /\ UNCHANGED <<now, kin, born, holders, doomed, recycled, strangerHit,
                   identity, status, termSent, killSent, storageFailed, exited,
                   captured, cleanup, active, files>>

FinalScan ==
    /\ at = "finalscan"
    /\ EndScan
    /\ cleanup' = (identity /\ Members = {})
    /\ active' = (active /\ ~cleanup')
    /\ at' = "report"
    /\ UNCHANGED <<os, identity, status, termSent, killSent, storageFailed,
                   exited, captured, reaped, files>>

FinalReaped ==
    /\ at = "final" /\ reaped
    /\ active' = (active /\ ~cleanup)
    /\ at' = "report"
    /\ UNCHANGED <<os, identity, status, termSent, killSent, storageFailed,
                   exited, captured, reaped, cleanup, scan, escaped, files>>

(* result.json, unless the storage failed. *)
Report ==
    /\ at = "report"
    /\ status' = IF storageFailed THEN "storage_failure" ELSE status
    /\ result' = IF storageFailed THEN result
                 ELSE IF cleanup THEN "clean" ELSE "unclean"
    /\ at' = "done"
    /\ UNCHANGED <<os, identity, termSent, killSent, storageFailed, exited,
                   captured, reaped, cleanup, scan, escaped, active, idFile, resumed>>

(* reconcile_owned_process: a later look at a job that was not clean. *)
Reconcile ==
    /\ at = "done" /\ active /\ identity
    /\ BeginScan
    /\ at' = "reconcile"
    /\ UNCHANGED <<os, identity, status, termSent, killSent, storageFailed,
                   exited, captured, reaped, cleanup, active, files>>

ReconcileScan ==
    /\ at = "reconcile"
    /\ EndScan
    /\ IF Members = {}
       THEN /\ active' = FALSE
            /\ leader' = IF leader = "zombie" THEN "reaped" ELSE leader
       ELSE UNCHANGED <<active, leader>>
    /\ at' = "done"
    /\ UNCHANGED <<now, kin, born, holders, doomed, recycled, strangerHit,
                   identity, status, termSent, killSent, storageFailed, exited,
                   captured, reaped, cleanup, files>>

(* The manager dies; init adopts and reaps the job's leader. *)
Crash ==
    /\ at \notin {"dead", "resumescan"}
    /\ at' = "dead" /\ EndScan /\ active' = FALSE
    /\ UNCHANGED <<os, identity, status, termSent, killSent, storageFailed,
                   exited, captured, reaped, cleanup, files>>

AdoptedReaped ==
    /\ at = "dead" /\ leader = "zombie"
    /\ leader' = "reaped"
    /\ UNCHANGED <<now, kin, born, holders, doomed, recycled, strangerHit,
                   manager, files>>

(* _resume_ownership: a clean receipt discharges the job; so does absence,  *)
(* but only of a local solver; a job without identity.json is not seen.     *)
ResumeAtOnce ==
    /\ at = "dead" /\ ~resumed
    /\ ~idFile \/ result = "clean"
    /\ resumed' = TRUE
    /\ UNCHANGED <<os, manager, idFile, result>>

ResumeScan ==
    /\ at = "dead" /\ ~resumed
    /\ idFile /\ result # "clean"
    /\ ~Matches
    /\ BeginScan
    /\ at' = "resumescan"
    /\ UNCHANGED <<os, identity, status, termSent, killSent, storageFailed,
                   exited, captured, reaped, cleanup, active, files>>

ResumeDecides ==
    /\ at = "resumescan"
    /\ EndScan
    /\ resumed' = (Members = {} /\ Solver)
    /\ at' = "dead"
    /\ UNCHANGED <<os, identity, status, termSent, killSent, storageFailed,
                   exited, captured, reaped, cleanup, active, idFile, result>>

Manager ==
    \/ NotStarted \/ SpawnFailed \/ Spawn \/ Own \/ RecordIdentity
    \/ Watch \/ Select \/ WaitLeader \/ ScanGroup \/ CheckDeadline \/ LastScan
    \/ Leave
    \/ FinalWait \/ FinalScan \/ FinalReaped \/ Report

Next ==
    \/ TimePasses
    \/ \E p \in Kin \cup {Leader}, c \in Kin : Fork(p, c)
    \/ \E p \in Kin \cup {Leader} : ClosePipe(p) \/ Exit(p)
    \/ Recycle
    \/ Manager
    \/ Interrupt \/ RecordFails \/ LoopFails
    \/ Reconcile \/ ReconcileScan
    \/ Crash \/ AdoptedReaped
    \/ ResumeAtOnce \/ ResumeScan \/ ResumeDecides

Spec == Init /\ [][Next]_vars

(* The manager runs and the clock runs.  Nothing is assumed of the job. *)
FairSpec == Spec /\ WF_vars(TimePasses) /\ WF_vars(Manager)
-----------------------------------------------------------------------------
(* Every variable has its type. *)
TypeOK ==
    /\ now \in 0..3
    /\ leader \in {"none", "alive", "zombie", "reaped"}
    /\ kin \subseteq born /\ born \subseteq Kin
    /\ holders \subseteq Alive
    /\ doomed \subseteq Kin \cup {Leader}
    /\ recycled \in BOOLEAN /\ strangerHit \in BOOLEAN /\ identity \in BOOLEAN
    /\ termSent \in BOOLEAN /\ killSent \in BOOLEAN
    /\ storageFailed \in BOOLEAN /\ exited \in BOOLEAN /\ captured \in BOOLEAN
    /\ reaped \in BOOLEAN /\ cleanup \in BOOLEAN /\ active \in BOOLEAN
    /\ idFile \in BOOLEAN /\ resumed \in BOOLEAN
    /\ at \in {"start", "spawned", "owned", "left", "final", "finalscan",
               "report", "done", "reconcile", "dead", "resumescan"} \cup Running
    /\ status \in {"not_started", "spawn_failed", "running", "timeout",
                   "storage_failure", "cancelled", "completed", "failed"}
    /\ scan \subseteq Kin \cup {Leader} /\ escaped \subseteq born
    /\ result \in {"none", "clean", "unclean"}

(* A cleanup receipt, and the removal of an identified job from             *)
(* active_jobs, mean that no process of the group runs any more, except     *)
(* ones the deciding scan cannot have seen: _active_group_members lists     *)
(* /proc and reads the entries with no barrier between them, so a process   *)
(* that was forked after the listing, and its own children, survive it.     *)
(* The budget lease and the CPU slots of the job are given back on the      *)
(* strength of the receipt.                                                 *)
ReceiptMeansGone ==
    /\ result = "clean" => Alive \subseteq escaped
    /\ at = "done" /\ identity /\ ~active => Alive \subseteq escaped

(* A resumed run takes over from a recorded job only when that job is gone, *)
(* with the same exception.                                                 *)
ResumeMeansGone == resumed /\ idFile => Alive \subseteq escaped

(* Whoever acts on the end of a job, the caller by its receipt or a resumed *)
(* run by its reconciliation, acts on a group whose leader is gone and      *)
(* whose only living processes, if any, were forked while the scan that     *)
(* decided was between its listing and its reads, or descend from such a    *)
(* process.                                                                 *)
GoneMeansGone == TypeOK /\ ReceiptMeansGone /\ ResumeMeansGone

(* Signals reach only the owned group, also when the leader's PID has been  *)
(* given to a stranger.                                                     *)
NoStrangerSignalled == ~strangerHit

(* The call is bounded by its lease whatever the job does: children that    *)
(* ignore signals or keep the pipes open cannot hold it.                    *)
CallReturns == at = "spawned" ~> at \in {"done", "dead"}
=============================================================================
