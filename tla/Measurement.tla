---------------------------- MODULE Measurement ----------------------------
(***************************************************************************)
(* What one task measures through native launches: calibration campaigns   *)
(* (verification/online/campaign.py) that measure one component, fit its   *)
(* cost, ask for more payloads and publish a cost model, and paired        *)
(* comparisons (trace_once.py, acceptance.py) whose significance levels    *)
(* come from the task's append-only ledger (statistical_ledger.py).        *)
(*                                                                         *)
(* The coordinator may be killed and resumed, the runtime environment may  *)
(* change between launches, and every launch may fail as in GpuLaunch.     *)
(* A duration is modelled by what is decided from it: whether a round is   *)
(* stable, how many pairs the candidate wins, how well a curve fits.       *)
(***************************************************************************)
EXTENDS GpuLaunch, Combinatorics

CONSTANTS
    MaxSize,         \* capacity of the Simple protocol
    MinSizes,        \* payloads a fit needs (3 in the code)
    Launches,        \* calibration.launches per round
    MaxRounds,       \* stability rounds of a job and of a comparison
    Pairs,           \* trace_and_measure.pairs
    AlphaInverse,    \* 1 / task_alpha (at least 20 in the code)
    CapInverse,      \* 1 / single_attempt_alpha_cap
    Workloads        \* one task: [config, cache, campaigns, attempts, faults]:
                     \* what it is configured with, the environments an earlier
                     \* task left in the cache, and bounds on what it does

Environments == {1, 2}    \* runtime identities a launch may observe

ASSUME NoneAssumption == None \notin Environments
ASSUME CampaignAssumption ==
    /\ \A w \in Workloads : /\ w.config.sizes \in Seq(Nat) /\ w.config.sizes # <<>>
                             /\ IsInjective(w.config.sizes)
    /\ MaxRounds \in Nat \ {0}
ASSUME WorkloadAssumption == \A w \in Workloads : w.faults \in Nat
ASSUME AlphaAssumption == AlphaInverse \in Nat \ {0} /\ CapInverse \in Nat \ {0}

VARIABLES
    t,         \* control of the task
    model,     \* [service, profile, signature] of the component; the value
               \* of a cost is the environment in which it was measured
    config,    \* [sizes, history]: payload_sizes, in order, and whether
               \* calibration reuse is configured
    cache,     \* environments with a record in the component cache
    env,       \* the environment now
    seen,      \* [latest, confirmed, strays]: the environments of the latest
               \* qualified measurement and the latest confirmation behind the
               \* model, and of other profiles it was given (history)
    quar,      \* live/native-resource-ownership.json names the GPUs
    mem,       \* the schedule driver has quarantined them in memory
    ledger     \* [plans, closed, torn, accepted]; plans: attempt_index of
               \* every attempt_reserved record

taskVars == <<t, model, config, cache, env, seen, quar, mem, ledger>>
vars == <<launchVars, taskVars>>

\* A job, and the measurement that qualifies it: a completed native launch in
\* the first stable round, with its provenance.
Job(size, confirm) == [size |-> size, confirm |-> confirm]
Point(job, e) == [size |-> job.size, env |-> e]

Cost(source, value) == [source |-> source, value |-> value]

Idle == [pc |-> "choose", queue |-> <<>>, round |-> 0, count |-> 0, ids |-> {},
         primary |-> <<>>, confirming |-> <<>>, latest |-> None,
         attempted |-> {}, confirmed |-> {},
         attempt |-> 0, pairs |-> 0, status |-> "none", left |-> [campaigns |-> 0, attempts |-> 0]]

\* What is left of the control when the task returns to its choice.
Return(status) ==
    [Idle EXCEPT !.status = status, !.left = t.left]
Stop(status) == [Return(status) EXCEPT !.pc = "done"]

Init ==
    /\ LaunchInit
    /\ \E w \in Workloads :
         /\ t = [Idle EXCEPT !.left = [campaigns |-> w.campaigns, attempts |-> w.attempts]]
         /\ faults = w.faults /\ config = w.config
         /\ cache = w.cache
    /\ model = [service |-> Cost("initial", None), profile |-> Cost("initial", None),
                signature |-> None]
    /\ env = 1 /\ seen = [latest |-> None, confirmed |-> None, strays |-> {}]
    /\ quar = FALSE /\ mem = FALSE
    /\ ledger = [plans |-> <<>>, closed |-> {}, torn |-> FALSE, accepted |-> {}]

-----------------------------------------------------------------------------
(* Calibration: run_calibration *)

StartCampaign ==
    /\ t.pc = "choose" /\ t.left.campaigns > 0
    /\ t' = [Idle EXCEPT !.pc = "job", !.left = [t.left EXCEPT !.campaigns = @ - 1],
                         !.queue = [i \in DOMAIN config.sizes |-> Job(config.sizes[i], FALSE)],
                         !.attempted = Range(config.sizes)]
    /\ UNCHANGED <<launchVars, model, config, cache, env, seen, quar, mem, ledger>>

\* A job has its result.  None: no qualified measurement came out of it.
JobDone(e) ==
    LET job == Head(t.queue)
        n == [t EXCEPT !.queue = Tail(@), !.round = 0, !.count = 0, !.ids = {},
                       !.pc = IF Len(t.queue) = 1 THEN "fit" ELSE "job"] IN
    IF e = None THEN n ELSE
    IF job.confirm THEN [n EXCEPT !.confirming = Append(@, Point(job, e)), !.latest = e]
    ELSE [n EXCEPT !.primary = Append(@, Point(job, e)), !.latest = e]

\* NativeProbeDriver.execute before its first launch.
JobBlocked ==
    /\ t.pc = "job" /\ quar
    /\ t' = Stop("cleanup_unconfirmed")
    /\ UNCHANGED <<launchVars, model, config, cache, env, seen, quar, mem, ledger>>
StartProbe ==
    /\ t.pc \in {"job", "rounds"} /\ ~(t.pc = "job" /\ quar) /\ Fresh # {}
    /\ BeginLaunch("probe")
    /\ t' = [t EXCEPT !.pc = "probe", !.round = IF t.pc = "job" THEN 1 ELSE @]
    /\ UNCHANGED <<reg, partial, helpers, rival, faults, model, config, cache, env, seen, quar, mem, ledger>>
\* Too little time for another launch: the job ends, the GPUs are free.
NotAdmitted ==
    /\ t.pc \in {"job", "rounds"} /\ ~(t.pc = "job" /\ quar) /\ Fault
    /\ t' = JobDone(None)
    /\ UNCHANGED <<reg, partial, dir, helpers, l, rival, model, config, cache, env, seen, quar, mem, ledger>>
LeaseExpires ==
    /\ t.pc = "job" /\ Fault
    /\ t' = Return("budget_exhausted")
    /\ UNCHANGED <<reg, partial, dir, helpers, l, rival, model, config, cache, env, seen, quar, mem, ledger>>

AfterProbe ==
    LET ids == t.ids \union {env} IN
    IF l.fatal THEN Return("budget_exhausted")
    ELSE IF ~CleanupConfirmed \/ ~GpuReleased THEN Stop("cleanup_unconfirmed")
    ELSE IF ~Sample THEN JobDone(None)
    ELSE [t EXCEPT !.pc = IF t.count + 1 < Launches THEN "rounds" ELSE "stable",
                   !.count = @ + 1, !.ids = ids]
EndProbe ==
    /\ t.pc = "probe" /\ EndLaunch
    /\ t' = AfterProbe
    /\ quar' = (quar \/ Quarantines)
    /\ UNCHANGED <<model, config, cache, env, seen, mem, ledger>>
\* A stable round is the measurement, if all its launches saw one environment.
ProbeStable ==
    /\ t.pc = "stable"
    /\ t' = JobDone(IF Cardinality(t.ids) = 1 THEN CHOOSE e \in t.ids : TRUE ELSE None)
    /\ UNCHANGED <<launchVars, model, config, cache, env, seen, quar, mem, ledger>>
ProbeUnstable ==
    /\ t.pc = "stable" /\ Fault
    /\ t' = IF t.round < MaxRounds
            THEN [t EXCEPT !.pc = "rounds", !.round = @ + 1, !.count = 0, !.ids = {}]
            ELSE JobDone(None)
    /\ UNCHANGED <<reg, partial, dir, helpers, l, rival, model, config, cache, env, seen, quar, mem, ledger>>

-----------------------------------------------------------------------------
(* fit_components and publish_model for the component *)

SizesIn(points, e) == {p.size : p \in {q \in Range(points) : q.env = e}}
Identities == {p.env : p \in Range(t.primary)}

\* fit_curve on the medians measured in environment e: one line fits, or none
\* does, or several pieces do, each of which needs enough payloads.
FitStatuses(e) ==
    LET n == Cardinality(SizesIn(t.primary, e)) IN
    IF n < MinSizes THEN {"insufficient_sizes"}
    ELSE {"qualified", "poor_fit"} \union (IF n >= 2 * MinSizes THEN {"needs_confirmation"} ELSE {})
\* Sizes asked for: fresh measurements of the same sizes, or larger sizes.
Extra(e) ==
    LET top == Max(SizesIn(t.primary, e)) IN
    {Min({MaxSize, top * scale}) : scale \in {2, 4, 8}} \ SizesIn(t.primary, e)
Followups(fit) ==
    LET confirm == UNION {SizesIn(t.primary, e) : e \in {i \in Identities : fit[i] = "needs_confirmation"}}
        more == UNION {Extra(e) : e \in {i \in Identities : fit[i] \in {"poor_fit", "insufficient_sizes"}}}
    IN [confirm |-> confirm \ t.confirmed, more |-> more \ t.attempted]
Jobs(sizes, confirm) ==
    LET nth(i) == CHOOSE s \in sizes : Cardinality({x \in sizes : x < s}) = i - 1 IN
    [i \in 1 .. Cardinality(sizes) |-> Job(nth(i), confirm)]
\* The issues are taken identity by identity, in the order of the records.
AskMore(fit) ==
    LET f == Followups(fit)
        more == Jobs(f.more, FALSE)
        confirm == Jobs(f.confirm, TRUE)
    IN [t EXCEPT !.pc = "job", !.attempted = @ \union f.more, !.confirmed = @ \union f.confirm,
                 !.queue = IF fit[t.primary[1].env] = "needs_confirmation"
                           THEN confirm \o more ELSE more \o confirm]

\* The records of a campaign: fit_components collects the confirmations after
\* all primary measurements, whenever they were made.
Records == t.primary \o t.confirming
LastEnv(records) == IF records = <<>> THEN None ELSE records[Len(records)].env

\* lookup_calibration, per identity: a cached record may be too old, or only
\* its part for a payload is.  save_calibration keeps the records of the
\* other identities.
Lookup(e) == IF config.history THEN cache \intersect e ELSE {}
Saved(new) == IF config.history /\ new # None THEN cache \union {new} ELSE cache

\* The cached profiles of all identities are put one after the other; the
\* first that has a value for a payload is the one an overlay finds.
First(young) ==
    IF young = {} THEN None
    ELSE Records[Min({i \in DOMAIN Records : Records[i].env \in young})].env

\* The first level that has a value for a payload wins.
Overlay(levels) ==
    IF \E i \in DOMAIN levels : levels[i].value # None
    THEN levels[Min({i \in DOMAIN levels : levels[i].value # None})]
    ELSE Cost("initial", None)

\* publish_model: new qualified, then applicable current, then history, then
\* initial.  now is the identity the caller supplies for the component, hits
\* are the identities with a cached record, young the ones of them whose record
\* has a value for the payload.
MutantPublish(new, now, hits, young) ==
    LET signature == IF new # None THEN new ELSE IF now # None THEN now ELSE model.signature
        merged(old, cached) ==
          Overlay(<<Cost("measured", new), Cost(old.source, old.value), Cost("history", cached)>>)
    IN [service |-> merged(model.service, IF signature \in young THEN signature ELSE None),
        profile |-> merged(model.profile, IF signature \in hits THEN First(young) ELSE None),
        signature |-> signature]
Publish(new, now, hits, young) ==
    LET fresh == IF now # None /\ now # new THEN None ELSE new
        signature == IF fresh # None THEN fresh ELSE IF now # None THEN now ELSE model.signature
        applicable == model.signature # None /\ model.signature = signature
        merged(old, cached) ==
          Overlay(<<Cost("measured", fresh),
                    Cost(old.source, IF applicable THEN old.value ELSE None),
                    Cost("history", cached)>>)
    IN [service |-> merged(model.service, IF signature \in young THEN signature ELSE None),
        profile |-> merged(model.profile, IF signature \in hits THEN First(young) ELSE None),
        signature |-> signature]

\* One pass of the campaign's loop.  The identities of all qualified records
\* are only collected where reuse is configured.
FitAndPublish ==
    /\ t.pc = "fit"
    /\ \E fit \in {f \in [Identities -> {"insufficient_sizes", "qualified", "needs_confirmation", "poor_fit"}] :
                      \A e \in Identities : f[e] \in FitStatuses(e)} :
       LET new == IF Cardinality(Identities) = 1 /\ \A e \in Identities : fit[e] = "qualified"
                  THEN CHOOSE e \in Identities : TRUE ELSE None
           now == IF config.history THEN LastEnv(Records) ELSE new
       IN /\ \E hits \in SUBSET Lookup({p.env : p \in Range(Records)}) :
             \E young \in SUBSET hits :
               /\ model' = Publish(new, now, hits, young)
               /\ seen' = IF t.latest = None THEN seen
                          ELSE [latest |-> t.latest, confirmed |-> LastEnv(t.confirming),
                                strays |-> seen.strays \union
                                  (IF model'.signature \in hits THEN hits \ {model'.signature} ELSE {})]
          /\ cache' = Saved(new)
          /\ t' = IF Followups(fit).confirm = {} /\ Followups(fit).more = {}
                  THEN Return("completed") ELSE AskMore(fit)
    /\ UNCHANGED <<launchVars, config, env, quar, mem, ledger>>

-----------------------------------------------------------------------------
(* Paired comparison: measured_evidence, capture_once, compare_measured *)

\* The level of attempt i is the i-th part of a series that sums up to
\* task_alpha; AlphaInv is its inverse.
MutantAlphaInv(i) == Max({CapInverse, AlphaInverse * i})
AlphaInv(i) == Max({CapInverse, AlphaInverse * i * (i + 1)})
\* Enough pairs, in balanced orders, for an attempt that wins all of them.
PairCount(i) ==
    CHOOSE n \in Pairs .. 64 : n % 2 = 0 /\ 2^n >= AlphaInv(i)
                               /\ \A k \in Pairs .. (n - 1) : k % 2 = 0 => 2^k < AlphaInv(i)
\* one_sided_binomial(wins, pairs) times 2^pairs.
TailCount(wins, pairs) == MapThenSumSet(LAMBDA k : choose(pairs, k), wins .. pairs)

\* A launch whose GPUs are free again counts; as a sample it must also come
\* from the environment of the attempt's earlier ones.
Captured == ~l.fatal /\ Sample /\ GpuReleased /\ CleanupConfirmed
ValidSample == Captured /\ t.ids \subseteq {env}

\* NativeScheduleDriver._launch refuses GPUs it has quarantined itself.
StartTrace ==
    /\ t.pc = "choose" /\ t.left.attempts > 0 /\ ~mem /\ Fresh # {}
    /\ BeginLaunch("schedule")
    /\ t' = [t EXCEPT !.pc = "trace", !.left.attempts = @ - 1, !.status = "none"]
    /\ UNCHANGED <<reg, partial, helpers, rival, faults, model, config, cache, env, seen, quar, mem, ledger>>
EndTrace ==
    /\ t.pc = "trace" /\ EndLaunch
    /\ t' \in {Return("trace_incomplete")} \union
              (IF Captured THEN {[t EXCEPT !.pc = "reserve"]} ELSE {})
    /\ mem' = (mem \/ Quarantines) /\ quar' = (quar \/ Quarantines)
    /\ UNCHANGED <<model, config, cache, env, seen, ledger>>

\* A ledger with an incomplete record cannot be read or extended.
Unreadable ==
    /\ t.pc = "reserve" /\ ledger.torn
    /\ t' = Stop("storage_failed")
    /\ UNCHANGED <<launchVars, model, config, cache, env, seen, quar, mem, ledger>>
Reserve ==
    /\ t.pc = "reserve" /\ ~ledger.torn
    /\ LET i == 1 + Len(ledger.plans) IN
         /\ ledger' = [ledger EXCEPT !.plans = Append(@, i)]
         /\ t' = [t EXCEPT !.pc = "side", !.attempt = i, !.pairs = PairCount(i), !.round = 1, !.count = 0, !.ids = {}]
    /\ UNCHANGED <<launchVars, model, config, cache, env, seen, quar, mem>>

\* attempt_finished: the decision closes the attempt.
Close(verdict) ==
    /\ ledger' = [ledger EXCEPT !.closed = @ \union {t.attempt},
                                !.accepted = @ \union verdict]
    /\ t' = Return("decided")
StartSide ==
    /\ t.pc = "side" /\ ~mem /\ Fresh # {}
    /\ BeginLaunch("schedule")
    /\ t' = [t EXCEPT !.pc = "launch"]
    /\ UNCHANGED <<reg, partial, helpers, rival, faults, model, config, cache, env, seen, quar, mem, ledger>>
\* The launch ends with a sample, which must come from the environment of the
\* earlier ones, or the attempt is closed as failed.
EndSide ==
    /\ t.pc = "launch" /\ EndLaunch
    /\ IF ValidSample
       THEN t' = [t EXCEPT !.pc = IF t.count + 1 = 2 * t.pairs THEN "measured" ELSE "side",
                           !.count = @ + 1, !.ids = {env}]
            /\ UNCHANGED ledger
       ELSE Close({})
    /\ mem' = (mem \/ Quarantines) /\ quar' = (quar \/ Quarantines)
    /\ UNCHANGED <<model, config, cache, env, seen>>
\* Both sides were measured in all pairs: an unstable round is repeated, a
\* stable one decides.
RoundUnstable ==
    /\ t.pc = "measured" /\ Fault
    /\ IF t.round < MaxRounds
       THEN t' = [t EXCEPT !.pc = "side", !.round = @ + 1, !.count = 0] /\ UNCHANGED ledger
       ELSE Close({})
    /\ UNCHANGED <<reg, partial, dir, helpers, l, rival, model, config, cache, env, seen, quar, mem>>
RoundDecides ==
    /\ t.pc = "measured"
    /\ \E wins \in 0 .. t.pairs :
         Close(IF 2 * wins > t.pairs /\ TailCount(wins, t.pairs) * AlphaInv(t.attempt) <= 2^t.pairs
               THEN {[attempt |-> t.attempt, wins |-> wins, pairs |-> t.pairs, ids |-> t.ids]} ELSE {})
    /\ UNCHANGED <<launchVars, model, config, cache, env, seen, quar, mem>>

-----------------------------------------------------------------------------
(* The task *)

Finish ==
    /\ t.pc = "choose"
    /\ t' = Stop(t.status)
    /\ UNCHANGED <<launchVars, model, config, cache, env, seen, quar, mem, ledger>>

\* The coordinator is killed and the task resumed.  Files stay; an append to
\* the ledger may be torn; wrappers and remote helpers may go on.
Crash ==
    /\ t.pc \notin {"choose", "done"} /\ Fault
    /\ t' = Return("none")
    /\ l' = NoLaunch
    /\ \E hs \in IF l.pc = "mpi" THEN SUBSET Unfinished(l.root) ELSE {{}} :
         dir' = IF l.pc = "idle" THEN dir ELSE Killing(l.root, hs)
    /\ \E orphans \in BOOLEAN : helpers' = {x \in helpers : orphans \/ x.root # l.root}
    /\ partial' \in Torn(helpers \ helpers')
    /\ \E torn \in BOOLEAN : ledger' = [ledger EXCEPT !.torn = @ \/ (torn /\ t.pc \in {"reserve", "launch", "measured"})]
    /\ mem' = FALSE
    /\ UNCHANGED <<reg, rival, model, config, cache, env, seen, quar>>

\* A driver, a binary or a device is replaced.
EnvironmentChanges ==
    /\ env = 1 /\ Fault /\ env' = 2
    /\ UNCHANGED <<reg, partial, dir, helpers, l, rival, t, model, config, cache, seen, quar, mem, ledger>>

Next ==
    \/ StartCampaign \/ JobBlocked \/ StartProbe \/ NotAdmitted \/ LeaseExpires \/ EndProbe
    \/ ProbeStable \/ ProbeUnstable \/ FitAndPublish
    \/ StartTrace \/ EndTrace \/ Unreadable \/ Reserve \/ StartSide \/ EndSide
    \/ RoundUnstable \/ RoundDecides
    \/ Finish \/ Crash \/ EnvironmentChanges
    \/ (LaunchStep \/ Misfortune \/ RivalStep) /\ UNCHANGED taskVars

Spec == Init /\ [][Next]_vars

-----------------------------------------------------------------------------

\* Types of the state.
TypeOK ==
    /\ \A h \in Hosts : /\ reg[h].owner \in Roots \union {Rival, None}
                        /\ reg[h].state \in {"active", "released", "quarantined"}
    /\ partial \subseteq Hosts /\ faults \in Nat
    /\ t.pc \in {"choose", "job", "rounds", "probe", "stable", "fit", "trace", "reserve", "side",
                 "launch", "measured", "done"}
    /\ t.round <= MaxRounds /\ Len(t.primary) <= Cardinality(t.attempted)
    /\ \A cost \in {model.service, model.profile} :
         /\ cost.source = "initial" <=> cost.value = None
         /\ cost.value # None => cost.value \in Environments /\ model.signature # None
    /\ ledger.closed \subseteq Range(ledger.plans)

\* No level is reserved twice, the levels of all attempts of a task, crashed
\* ones included, sum up to at most task_alpha (in units of 1/Scale), and every
\* accepted candidate passed the test at its own level with measurements of one
\* environment.
Scale == 2520
Spent(plans, unit) ==
    SumFunctionOnSet([i \in DOMAIN plans |-> unit \div AlphaInv(plans[i])], DOMAIN plans)
AlphaWithinTask ==
    /\ IsInjective(ledger.plans)
    /\ AlphaInverse * Spent(ledger.plans, Scale) <= Scale
    /\ Cardinality(ledger.accepted) = Cardinality({a.attempt : a \in ledger.accepted})
    /\ \A a \in ledger.accepted :
         /\ a.attempt \in Range(ledger.plans)
         /\ TailCount(a.wins, a.pairs) * AlphaInv(a.attempt) <= 2^a.pairs
         /\ Cardinality(a.ids) = 1

\* With calibration reuse configured, a measured or remembered service cost in
\* the model is of the environment of the latest qualified measurement; where
\* more payloads were measured after a confirmation, it may be of the
\* confirmation's, whose record comes last (run_calibration).  A rate profile
\* may besides be one of those that run_calibration adds for the other
\* identities it finds in the cache, under the signature of the current one.
ModelApplies ==
    config.history =>
      /\ model.service.value \in {None, seen.latest, seen.confirmed}
      /\ model.profile.value \in {None, seen.latest, seen.confirmed} \union seen.strays

\* A GPU has one user at a time, a launch that gave it back or completed a
\* campaign has left nothing on it, and samples come only from launches that
\* ran to their end, whatever is late, orphaned, killed or restarted.
GpuSafe ==
    /\ TypeOK
    /\ GpuExclusive /\ ReleasedIsQuiet
    /\ SampleIsGenuine /\ ConfirmedIsQuiet
=============================================================================
