----------------------------- MODULE GpuLaunch -----------------------------
(***************************************************************************)
(* One native launch as both measurement drivers make it                   *)
(* (NativeProbeDriver._launch of verification/online/remote.py and         *)
(* NativeScheduleDriver._launch of execution/native.py): a coordinator     *)
(* calls a helper on every host to prepare the launch and to take the GPU  *)
(* in the host's ownership registry, starts one rank wrapper per host      *)
(* through mpirun, and afterwards calls helpers to stop what may still run *)
(* and to collect the receipts by which the registry gives the GPU back.   *)
(*                                                                         *)
(* A helper call may time out while the helper dies, or while it goes on   *)
(* on the other host; wrappers start late, outlive mpirun or die without   *)
(* their native process; hosts restart; another run wants the same GPUs.   *)
(* There is one rank and one GPU per host, so a host names its rank.       *)
(***************************************************************************)
EXTENDS Naturals, Sequences, FiniteSets, SequencesExt, FiniteSetsExt

CONSTANTS
    HostList,      \* sorted hosts of the rank map
    Roots,         \* names for the directories of launches; reused when blank
    Rival,         \* another run that uses the same registry
    RivalHosts,    \* the hosts it wants
    None

Hosts == Range(HostList)

\* What the receipts of a rank say, and what one page of them tells the
\* coordinator.
Results == [clean : BOOLEAN, released : BOOLEAN, completed : BOOLEAN]
Receipts == [clean : BOOLEAN, released : BOOLEAN]
Pages == [receipt : Receipts \union {None}, native : BOOLEAN, completed : BOOLEAN, never : BOOLEAN]

ASSUME HostAssumption == HostList \in Seq(Hosts) /\ HostList # <<>> /\ RivalHosts \subseteq Hosts
ASSUME RootAssumption == Roots \subseteq Nat /\ Rival \notin Roots
ASSUME NoneIsNothing ==
    /\ None \notin Roots /\ None \notin Hosts
    /\ None \notin Results /\ None \notin Receipts /\ None \notin Pages

VARIABLES
    reg,       \* ownership.json of each host: [owner, state]
    partial,   \* hosts with an ownership.<pid>.partial left by a killed helper
    dir,       \* dir[r][h]: launch directory r on host h, with its processes
    helpers,   \* helper processes: [root, host, op, at, data]
    l,         \* the coordinator's launch
    rival,     \* what the other run does on each host
    faults     \* faults left (bound of the model)

launchVars == <<reg, partial, dir, helpers, l, rival, faults>>

\* wrapper: none, spawned, cleared (found no reason to stop), done, dead.  native: none, running (uses the GPU),
\* released (wrote its receipt), ok, failed.
Blank == [prep |-> FALSE, stop |-> FALSE, notStarted |-> FALSE, late |-> FALSE,
          sameBoot |-> TRUE, wrapper |-> "none", native |-> "none",
          identity |-> FALSE, receipt |-> FALSE, result |-> None, reconciled |-> FALSE]

NoLaunch == [pc |-> "idle", root |-> None, kind |-> "probe", todo |-> <<>>,
             prepared |-> <<>>, wait |-> None, started |-> FALSE, error |-> FALSE,
             fatal |-> FALSE, launcher |-> TRUE, got |-> [h \in Hosts |-> None]]

LaunchInit ==
    /\ reg = [h \in Hosts |-> [owner |-> None, state |-> "released"]]
    /\ partial = {}
    /\ dir = [r \in Roots |-> [h \in Hosts |-> Blank]]
    /\ helpers = {} /\ l = NoLaunch
    /\ rival = [h \in Hosts |-> "none"]

Fault == faults > 0 /\ faults' = faults - 1

-----------------------------------------------------------------------------
(* GPUOwnershipRegistry.  Each operation holds the file lock.              *)

MayAcquire(h, owner) ==
    /\ reg[h].state # "released" => reg[h].owner = owner
    /\ reg[h].state # "quarantined"
Acquired(h, owner) == [reg EXCEPT ![h] = [owner |-> owner, state |-> "active"]]
Finished(h, clean, released) ==
    [reg EXCEPT ![h].state = IF clean /\ released THEN "released" ELSE "quarantined"]

\* _write opens its temporary file exclusively: a process whose PID is that
\* of a killed writer cannot write.
PidTaken(h) == IF h \in partial THEN BOOLEAN ELSE {FALSE}

\* Helpers that are killed may leave theirs, if they are about to write.
Writing(x) == <<x.op, x.at>> \in {<<"prepare", "begin">>, <<"collect", "read">>}
Torn(killed) ==
    {partial \union hs : hs \in SUBSET {x.host : x \in {y \in killed : Writing(y)}}}

-----------------------------------------------------------------------------
(* Receipts of one rank *)

Alive(d) == d.native \in {"running", "released"}
Confirmed(x) == x # None /\ x.clean /\ x.released

\* _reconcile_rank_cleanup: the identified process group of this boot is gone.
Reconcilable(d) ==
    /\ ~Confirmed(d.result)
    /\ d.identity /\ d.sameBoot /\ ~Alive(d)
Reconciled(d) == [d EXCEPT !.reconciled = @ \/ (Reconcilable(d) /\ d.receipt)]

\* collected_cleanup_receipts on the files of one host.
Receipt(d) ==
    IF d.reconciled THEN [clean |-> TRUE, released |-> TRUE] ELSE
    IF d.result = None THEN None
    ELSE [clean |-> d.result.clean, released |-> d.result.released]
NoRanks(d) == d.wrapper \in {"none", "spawned"}
Page(d) == [receipt |-> Receipt(d), native |-> d.receipt,
            completed |-> d.result # None /\ d.result.completed,
            never |-> d.notStarted /\ NoRanks(d)]

-----------------------------------------------------------------------------
(* Control of the coordinator *)

Op == CASE l.pc = "prepare" -> "prepare"
        [] l.pc = "cleanup" -> IF l.started THEN "cleanup" ELSE "cancel"
        [] OTHER -> "collect"
Awaited(x) == x.root = l.root /\ x.host = l.wait /\ x.op = Op

\* The probe driver leaves a launch it did not start as it is; the schedule
\* driver certifies on every prepared host that nothing was started.
NeedsCleanup(k) == IF k.started THEN k.error ELSE k.kind = "schedule"
ToCleanup(k) ==
    IF NeedsCleanup(k) /\ k.prepared # <<>>
    THEN [k EXCEPT !.pc = "cleanup", !.todo = k.prepared]
    ELSE [k EXCEPT !.pc = IF k.prepared = <<>> THEN "judge" ELSE "collect",
                   !.todo = k.prepared]

\* The call on the head of todo has ended; page is None if it failed.
Advance(k, failed, page) ==
    LET h == Head(k.todo)
        n == [k EXCEPT !.todo = Tail(@), !.wait = None, !.error = @ \/ failed]
        more == n.todo # <<>> IN
    CASE k.pc = "prepare" /\ failed -> ToCleanup(n)
      [] k.pc = "prepare" /\ ~failed ->
            [n EXCEPT !.prepared = Append(@, h), !.pc = IF more THEN @ ELSE "start"]
      [] k.pc = "cleanup" ->
            IF more THEN n ELSE [n EXCEPT !.pc = "collect", !.todo = k.prepared]
      [] k.pc = "collect" ->
            [n EXCEPT !.got[h] = page, !.pc = IF more THEN @ ELSE "judge"]

Quiet(r) ==
    /\ \A x \in helpers : x.root # r
    /\ \A h \in Hosts : ~Alive(dir[r][h]) /\ dir[r][h].wrapper \notin {"spawned", "cleared"}
Fresh == {r \in Roots : Quiet(r) /\ \A h \in Hosts : reg[h].owner = r => reg[h].state = "released"}

BeginLaunch(kind) ==
    \E r \in {CHOOSE r \in Fresh : \A q \in Fresh : r <= q} :
      /\ l' = [NoLaunch EXCEPT !.pc = "prepare", !.root = r, !.kind = kind, !.todo = HostList]
      /\ dir' = [dir EXCEPT ![r] = [h \in Hosts |-> Blank]]

-----------------------------------------------------------------------------
(* Helper calls *)

Calling == l.pc \in {"prepare", "cleanup", "collect"}

CallHelper ==
    /\ Calling /\ l.wait = None
    /\ helpers' = helpers \union {[root |-> l.root, host |-> Head(l.todo), op |-> Op,
                                   at |-> "begin", data |-> None]}
    /\ l' = [l EXCEPT !.wait = Head(l.todo)]
    /\ UNCHANGED <<reg, partial, dir, rival, faults>>

\* No time is left for the call: fatal in the part of _launch that is not
\* protected, one more error in the part that must reach every host.
CallRefused ==
    /\ Calling /\ l.wait = None /\ Fault
    /\ l' = Advance([l EXCEPT !.fatal = @ \/ l.pc = "prepare"], TRUE, None)
    /\ UNCHANGED <<reg, partial, dir, helpers, rival>>

\* The call times out.  A local helper is killed, perhaps while it writes the
\* registry; a remote one may go on.
CallTimeout ==
    \E x \in helpers, killed \in BOOLEAN :
      /\ Awaited(x) /\ Fault
      /\ helpers' = IF killed THEN helpers \ {x} ELSE helpers
      /\ partial' \in Torn(helpers \ helpers')
      /\ l' = Advance(l, TRUE, None)
      /\ UNCHANGED <<reg, dir, rival>>

-----------------------------------------------------------------------------
(* Helper processes.  The coordinator goes on when the one it waits for    *)
(* ends; one it no longer waits for ends unnoticed.                        *)

Steps(x, at, data) ==
    /\ helpers' = (helpers \ {x}) \union {[x EXCEPT !.at = at, !.data = data]}
    /\ UNCHANGED l
Ends(x, failed) ==
    /\ helpers' = helpers \ {x}
    /\ l' = IF Awaited(x) THEN Advance(l, failed, IF failed THEN None ELSE x.data) ELSE l
Returns(x) == Ends(x, FALSE)
Raises(x) == Ends(x, TRUE)
Put(x, d) == dir' = [dir EXCEPT ![x.root][x.host] = d]

\* _prepare takes the GPU first and then records when the launch expires.
PrepareAcquires(x) ==
    /\ x.op = "prepare" /\ x.at = "begin"
    /\ \E taken \in PidTaken(x.host) :
         IF MayAcquire(x.host, x.root) /\ ~taken
         THEN Steps(x, "acquired", None) /\ reg' = Acquired(x.host, x.root)
         ELSE Raises(x) /\ UNCHANGED reg
    /\ UNCHANGED dir
PrepareRecords(x) ==
    /\ x.op = "prepare" /\ x.at = "acquired"
    /\ Put(x, [dir[x.root][x.host] EXCEPT !.prep = TRUE])
    /\ Returns(x) /\ UNCHANGED reg

\* cancel-before-launch closes the directory before it looks for ranks.
CancelStops(x) ==
    /\ x.op = "cancel" /\ x.at = "begin"
    /\ Put(x, [dir[x.root][x.host] EXCEPT !.stop = TRUE])
    /\ Steps(x, "stopped", None) /\ UNCHANGED reg
CancelCertifies(x) ==
    /\ x.op = "cancel" /\ x.at = "stopped"
    /\ LET d == dir[x.root][x.host] IN
         Put(x, [d EXCEPT !.notStarted = NoRanks(d)]) /\ Ends(x, ~NoRanks(d))
    /\ UNCHANGED reg

\* _cleanup writes STOP, signals the identified groups, and looks at receipts
\* until all are clean or its time is over.
CleanupStops(x) ==
    /\ x.op = "cleanup" /\ x.at = "begin"
    /\ Put(x, [dir[x.root][x.host] EXCEPT !.stop = TRUE])
    /\ Steps(x, "stopped", None) /\ UNCHANGED reg
CleanupSignals(x) ==
    /\ x.op = "cleanup" /\ x.at = "stopped"
    /\ LET d == dir[x.root][x.host] IN
         /\ d.identity /\ d.sameBoot /\ Alive(d)
         /\ Put(x, [d EXCEPT !.native = "failed"])
    /\ UNCHANGED <<reg, helpers, l>>
CleanupLooks(x) ==
    /\ x.op = "cleanup" /\ x.at = "stopped"
    /\ Put(x, Reconciled(dir[x.root][x.host]))
    /\ Returns(x) /\ UNCHANGED reg

\* _collect, page 0: reconcile, read the receipts, then settle the registry.
CollectReads(x) ==
    /\ x.op = "collect" /\ x.at = "begin"
    /\ LET d == Reconciled(dir[x.root][x.host]) IN
         Put(x, d) /\ Steps(x, "read", Page(d))
    /\ UNCHANGED reg
MutantSettled(page) ==
    page.receipt = None \/ Confirmed(page.receipt)
Settled(page) ==
    page.never \/ Confirmed(page.receipt)
CollectFinishes(x) ==
    /\ x.op = "collect" /\ x.at = "read"
    /\ \E taken \in PidTaken(x.host) :
         IF reg[x.host].owner = x.root /\ ~taken
         THEN reg' = Finished(x.host, Settled(x.data), Settled(x.data)) /\ Returns(x)
         ELSE UNCHANGED reg /\ Raises(x)
    /\ UNCHANGED dir

HelperStep ==
    \E x \in helpers :
      /\ \/ PrepareAcquires(x) \/ PrepareRecords(x)
         \/ CancelStops(x) \/ CancelCertifies(x)
         \/ CleanupStops(x) \/ CleanupSignals(x) \/ CleanupLooks(x)
         \/ CollectReads(x) \/ CollectFinishes(x)
      /\ UNCHANGED <<partial, rival, faults>>

-----------------------------------------------------------------------------
(* mpirun *)

Unfinished(r) == {h \in Hosts : dir[r][h].wrapper \in {"spawned", "cleared"}}
Killing(r, hs) ==
    [dir EXCEPT ![r] = [h \in Hosts |-> IF h \in hs THEN [@[h] EXCEPT !.wrapper = "dead"] ELSE @[h]]]
ExitedZero(d) ==
    d.wrapper = "done" /\ d.result.completed /\ d.result.released

StartMpi ==
    /\ l.pc = "start"
    /\ l' = [l EXCEPT !.pc = "mpi", !.started = TRUE]
    /\ dir' = [dir EXCEPT ![l.root] = [h \in Hosts |-> [@[h] EXCEPT !.wrapper = "spawned"]]]
    /\ UNCHANGED <<reg, partial, helpers, rival, faults>>
\* The launch counts as started before mpirun is.
MpiRefused ==
    /\ l.pc = "start" /\ Fault
    /\ l' = ToCleanup([l EXCEPT !.started = TRUE, !.error = TRUE, !.fatal = TRUE, !.launcher = FALSE])
    /\ UNCHANGED <<reg, partial, dir, helpers, rival>>

\* For a schedule, mpirun lets the peers of a failed rank finish and may
\* still exit with zero.
MpiEnds ==
    /\ l.pc = "mpi" /\ Unfinished(l.root) = {}
    /\ LET failed == \E h \in Hosts : ~ExitedZero(dir[l.root][h]) IN
       \E error \in IF ~failed THEN {FALSE} ELSE IF l.kind = "probe" THEN {TRUE} ELSE BOOLEAN :
         l' = ToCleanup([l EXCEPT !.error = error])
    /\ UNCHANGED <<reg, partial, dir, helpers, rival, faults>>
\* For a probe, a rank that fails makes mpirun kill the other wrappers, but
\* not the native processes, which have process groups of their own.
MpiAborts ==
    /\ l.pc = "mpi" /\ l.kind = "probe" /\ Unfinished(l.root) # {}
    /\ \E h \in Hosts \ Unfinished(l.root) : ~ExitedZero(dir[l.root][h])
    /\ dir' = Killing(l.root, Unfinished(l.root))
    /\ UNCHANGED <<reg, partial, helpers, l, rival, faults>>
MpiTimeout ==
    /\ l.pc = "mpi" /\ Unfinished(l.root) # {} /\ Fault
    /\ \E hs \in SUBSET Unfinished(l.root) : dir' = Killing(l.root, hs)
    /\ \E clean \in BOOLEAN : l' = ToCleanup([l EXCEPT !.error = TRUE, !.launcher = clean])
    /\ UNCHANGED <<reg, partial, helpers, rival>>
\* Logs and traces follow the receipts; what goes wrong there is an error of
\* the launch.
ArtifactsFail ==
    /\ l.pc = "judge" /\ l.prepared # <<>> /\ ~l.error /\ Fault
    /\ l' = [l EXCEPT !.error = TRUE]
    /\ UNCHANGED <<reg, partial, dir, helpers, rival>>

MpiStep == StartMpi \/ MpiRefused \/ MpiEnds \/ MpiAborts \/ MpiTimeout \/ ArtifactsFail

-----------------------------------------------------------------------------
(* One rank on its host: the wrapper (_rank) and its native process        *)

Result(clean, released, completed) ==
    [clean |-> clean, released |-> released, completed |-> completed]
Becomes(r, h, d) == dir' = [dir EXCEPT ![r][h] = d]

\* The wrapper makes its directory and then looks for STOP and the expiry.
RankChecks(r, h) ==
    LET d == dir[r][h] IN
    /\ d.wrapper = "spawned"
    /\ Becomes(r, h, IF ~d.sameBoot THEN [d EXCEPT !.wrapper = "dead"]
                     ELSE IF d.stop \/ d.late
                     THEN [d EXCEPT !.wrapper = "done", !.result = Result(TRUE, TRUE, FALSE)]
                     ELSE [d EXCEPT !.wrapper = "cleared"])
\* run_owned_process: the process runs before its identity is on disk.
NativeStarts(r, h) ==
    LET d == dir[r][h] IN
    /\ d.wrapper = "cleared" /\ d.native = "none"
    /\ Becomes(r, h, [d EXCEPT !.native = "running"])
IdentityWritten(r, h) ==
    LET d == dir[r][h] IN
    /\ d.wrapper = "cleared" /\ d.native # "none" /\ ~d.identity
    /\ Becomes(r, h, [d EXCEPT !.identity = TRUE])
NativeReleases(r, h) ==
    LET d == dir[r][h] IN
    /\ d.native = "running"
    /\ Becomes(r, h, [d EXCEPT !.native = "released", !.receipt = TRUE])
NativeExits(r, h) ==
    LET d == dir[r][h] IN
    /\ d.native = "released"
    /\ Becomes(r, h, [d EXCEPT !.native = "ok"])
RankRecords(r, h) ==
    LET d == dir[r][h] IN
    /\ d.wrapper = "cleared" /\ d.identity /\ ~Alive(d)
    /\ Becomes(r, h, [d EXCEPT !.wrapper = "done",
                               !.result = Result(TRUE, d.receipt, d.native = "ok")])
RankTimesOut(r, h) ==
    LET d == dir[r][h] IN
    /\ d.wrapper = "cleared" /\ d.identity /\ Alive(d) /\ d.late
    /\ \E gone \in BOOLEAN :
         Becomes(r, h, [d EXCEPT !.wrapper = "done", !.native = IF gone THEN "failed" ELSE @,
                                 !.result = Result(gone, d.receipt, FALSE)])

RankStep ==
    /\ \E r \in Roots, h \in Hosts :
         \/ RankChecks(r, h) \/ NativeStarts(r, h)
         \/ IdentityWritten(r, h) \/ NativeReleases(r, h) \/ NativeExits(r, h)
         \/ RankRecords(r, h) \/ RankTimesOut(r, h)
    /\ UNCHANGED <<reg, partial, helpers, l, rival, faults>>

\* The native process fails, before or after it wrote its receipt.
NativeFails ==
    \E r \in Roots, h \in Hosts :
      /\ Alive(dir[r][h]) /\ Fault
      /\ Becomes(r, h, [dir[r][h] EXCEPT !.native = "failed"])
      /\ UNCHANGED <<reg, partial, helpers, l, rival>>
\* The host's clock passes the expiry recorded by prepare.
Expires ==
    \E r \in Roots, h \in Hosts :
      /\ dir[r][h].wrapper \in {"spawned", "cleared"} /\ ~dir[r][h].late /\ Fault
      /\ Becomes(r, h, [dir[r][h] EXCEPT !.late = TRUE])
      /\ UNCHANGED <<reg, partial, helpers, l, rival>>
\* A host restarts: its processes are gone, its files remain.
Restarted(d) ==
    [d EXCEPT !.sameBoot = ~d.prep,
              !.native = IF Alive(d) THEN "failed" ELSE @,
              !.wrapper = IF d.wrapper = "cleared" THEN "dead" ELSE @]
HostRestarts ==
    \E h \in Hosts :
      /\ Fault /\ \E r \in Roots : ~Quiet(r) \/ l.root = r
      /\ dir' = [r \in Roots |-> [dir[r] EXCEPT ![h] = Restarted(@)]]
      /\ helpers' = {x \in helpers : x.host # h}
      /\ partial' \in Torn(helpers \ helpers')
      /\ l' = IF l.wait = h THEN Advance(l, TRUE, None) ELSE l
      /\ UNCHANGED <<reg, rival>>

-----------------------------------------------------------------------------
(* Another run on the same hosts *)

RivalMoves(h, from, to) ==
    rival[h] = from /\ rival' = [rival EXCEPT ![h] = to]
RivalStep ==
    /\ \E h \in RivalHosts :
         \/ RivalMoves(h, "none", "running") /\ MayAcquire(h, Rival) /\ reg' = Acquired(h, Rival)
         \/ RivalMoves(h, "running", "none") /\ reg[h].owner = Rival /\ reg' = Finished(h, TRUE, TRUE)
    /\ UNCHANGED <<partial, dir, helpers, l, faults>>

-----------------------------------------------------------------------------
(* What the coordinator concludes *)

Everywhere(P(_)) == \A h \in Hosts : l.got[h] # None /\ l.got[h].receipt # None /\ P(l.got[h])
GpuReleased == LET P(page) == page.receipt.released IN Everywhere(P)
CleanupConfirmed ==
    /\ LET P(page) == page.receipt.clean IN Everywhere(P)
    /\ l.started => l.launcher
\* What makes a measurement of a launch that ended without an error: every
\* rank's sample (combine_rank_samples), or every rank's own record together
\* with the receipt of the wrapper that owned its process.
ProbeSample == \A h \in Hosts : l.got[h].native
ScheduleSample == \A h \in Hosts : l.got[h].native /\ l.got[h].completed
Sample == ~l.error /\ (IF l.kind = "probe" THEN ProbeSample ELSE ScheduleSample)
Quarantines == l.started /\ ~GpuReleased

EndLaunch ==
    /\ l.pc = "judge"
    /\ l' = NoLaunch
    /\ dir' = IF Quiet(l.root) THEN [dir EXCEPT ![l.root] = [h \in Hosts |-> Blank]] ELSE dir
    /\ UNCHANGED <<reg, partial, helpers, rival, faults>>

LaunchStep ==
    \/ CallHelper \/ CallRefused \/ CallTimeout
    \/ HelperStep \/ MpiStep \/ RankStep
Misfortune == NativeFails \/ Expires \/ HostRestarts

-----------------------------------------------------------------------------

\* Two runs, or two launches of one run, never use a GPU at the same time,
\* whatever is late, orphaned, killed or restarted: the registry of
\* execution/ownership.py and the receipts of remote.py see to that.
GpuExclusive ==
    \A h \in Hosts :
      Cardinality({r \in Roots : dir[r][h].native = "running"})
        + (IF rival[h] = "running" THEN 1 ELSE 0) <= 1

\* The rank may use its GPU: its native process runs, or its wrapper may still
\* start one.
MayUse(d) ==
    \/ d.native = "running"
    \/ d.wrapper = "cleared" /\ d.native = "none"
    \/ d.wrapper = "spawned" /\ ~d.stop /\ ~d.late

\* A GPU recorded as released is not in use by the launch that gave it back,
\* and no wrapper of that launch can still start a native process on it.
ReleasedIsQuiet ==
    \A h \in Hosts, r \in Roots :
      reg[h] = [owner |-> r, state |-> "released"] => ~MayUse(dir[r][h])

\* A launch of which the receipts say that all is cleaned up and all GPUs are
\* released, on which run_calibration goes on to its next probe, has left no
\* native process and nothing that could still start one on any host.
ConfirmedIsQuiet ==
    l.pc = "judge" /\ CleanupConfirmed /\ GpuReleased =>
      \A h \in Hosts : ~MayUse(dir[l.root][h])

\* A measurement is only taken from a launch whose every native process ran to
\* its end and exited with zero, and when it is taken the registry of no host
\* still holds a GPU for that launch: a reconciled receipt proves cleanup, it
\* never makes a failed execution count.
SampleIsGenuine ==
    l.pc = "judge" /\ Sample =>
      \A h \in Hosts :
        /\ dir[l.root][h].native = "ok"
        /\ reg[h].owner = l.root => reg[h].state = "released"
=============================================================================
