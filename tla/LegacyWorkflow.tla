--------------------------- MODULE LegacyWorkflow ---------------------------
(***************************************************************************)
(* The legacy solve and verify entry points (vericcl/workflow.py) with the *)
(* online validation they call (verification/online/pipeline.py, its       *)
(* runner) and the tuner (tuning/engine.py), as one process under one      *)
(* wall-clock deadline.                                                    *)
(*                                                                         *)
(* Time passes in Tick; an action reads the clock where the code does, so  *)
(* the ticks before it are the time its own work took.  A candidate's id   *)
(* names the solve it came from by a key over the topology with its        *)
(* performance curves: a calibration changes it, unless it measures the    *)
(* very curves that were given.                                            *)
(***************************************************************************)
EXTENDS LegacyVerification

CONSTANTS Confs,          \* the commands to consider
          Limit,          \* the deadline of the run
          Verdict,        \* the verdicts to consider
          TunedScheds,    \* schedules that repairs can produce
          Perfs,          \* measured medians and variations to consider
          MaxIterations,  \* hyperparameters.max_tuning_iterations
          MaxProposals    \* bound: proposals of one iteration

MaxRounds == 3            \* MAX_MEASUREMENT_ROUNDS

ASSUME LegacyAssumption ==
    /\ Confs \subseteq [mode : {"solve", "verify"}, online : BOOLEAN,
                        tune : BOOLEAN, plan : BOOLEAN, single : BOOLEAN,
                        width : Nat]  \* bound: candidates of one solve
    /\ {Limit, MaxIterations, MaxProposals, MinImprovement} \subseteq Nat
    /\ Verdict \subseteq Verdicts(Nat)
    /\ Perfs # {} /\ Perfs \subseteq [median : Nat, cv : Nat]

\* A candidate is named after the key of its solve and its place in it, the
\* sidecar of a verification, or its tuning iteration and its place in that.
\* The sidecar may be that of a candidate some earlier run tuned.
Ids == ({"solve", "tune"} \X Nat \X Nat) \union {<<"sidecar">>}
SidecarIds == {<<"sidecar">>}
              \union ({"tune"} \X (1 .. MaxIterations) \X (1 .. MaxProposals))
Entries == [id : Ids, sig : Ids \union TunedScheds, rep : Reports \union {None},
            perf : Perfs \union {None}, accepted : BOOLEAN]

\* What can end a failed run.
Errors == {"timeout", "input", "attach", "no_xml", "duplicate"}

\* Python's None is no object of the program.
ASSUME NoneAssumption ==
    None \notin Perfs \union Reports \union Results(Perfs) \union Entries
                 \union Rejections \union Errors

VARIABLES
    conf,       \* command and options
    clock,
    pc,
    error,      \* what ended a failed run
    topology,   \* 0 as given, 1 with the calibrated curves
    key,        \* the candidate key of that topology
    cands,      \* the candidates of the latest solve, with their reports
    final,      \* id of the selected candidate, or None
    lineage,    \* records of the solve that a calibration replaced
    online,     \* result of the online validation, or None
    call,       \* the online validation under way
    records,
    tuning,     \* the tuner's state
    truth,      \* what checking each repaired schedule would find
    files,      \* candidate artifacts of the run directory
    alias       \* the final alias, None when it is not written

sources == <<conf, truth>>
search == <<topology, key, cands, final, lineage>>
vars == <<conf, clock, pc, error, topology, key, cands, final, lineage, online,
          call, records, tuning, truth, files, alias>>

Late == clock > Limit           \* _Deadline.check raises
Expired == clock >= Limit       \* _Deadline.remaining() <= 0

Fail(kind) == /\ pc' = "failed" /\ error' = kind
              /\ UNCHANGED <<topology, key, cands, final, lineage, online, call,
                             records, tuning, files, alias>>

MutantSolverId(k, n) == <<"solve", 0, n>>
SolverId(k, n) == <<"solve", k, n>>
Indices == 1 .. Len(cands)
IndexOf(s, id) == CHOOSE i \in 1 .. Len(s) :
                    s[i].id = id /\ \A j \in 1 .. i - 1 : s[j].id # id
Record(c, kind) == [id |-> c.id, topology |-> topology, rep |-> c.rep,
                    kind |-> kind, accepted |-> OfflineValid(c.rep)]
Records(kind) == [i \in Indices |-> Record(cands[i], kind)]

NoTuning == [online |-> FALSE, asked |-> 0, budget |-> 0, started |-> 0,
             best |-> None, iteration |-> 0, queue |-> <<>>, late |-> FALSE,
             signatures |-> {}, history |-> <<>>, sim |-> 0]

Init == /\ conf \in Confs /\ clock = 0 /\ pc = "solve" /\ error = None
        /\ topology = 0 /\ key = 0 /\ cands = <<>> /\ final = None /\ lineage = <<>>
        /\ online = None /\ call = None /\ records = <<>>
        /\ tuning = NoTuning
        /\ truth = None
        /\ files = <<>> /\ alias = None

Tick == /\ pc \notin {"done", "failed"} /\ clock <= Limit
        /\ clock' = clock + 1
        /\ UNCHANGED <<conf, pc, error, topology, key, cands, final, lineage,
                       online, call, records, tuning, truth, files, alias>>

-----------------------------------------------------------------------------
(* Solving and offline validation. *)

Candidate(id, v) == [id |-> id, rep |-> Report(v)]

SelectFinal(cs, selected) ==
    LET ok == {i \in 1 .. Len(cs) : OfflineValid(cs[i].rep)} IN
    IF selected \in ok THEN cs[selected].id
    ELSE IF ok = {} THEN None
    ELSE cs[CHOOSE i \in ok : \A j \in ok : i <= j].id

\* Solve, compose, validate every candidate and select one of them.
Solve ==
    /\ pc = "solve" /\ conf.mode = "solve"
    /\ IF Late THEN Fail("timeout")
       ELSE \E n \in 0 .. conf.width : \E vs \in [1 .. n -> Verdict] :
            \E selected \in 0 .. n :
              /\ cands' = [i \in 1 .. n |->
                             Candidate(SolverId(key, i), vs[i])]
              /\ final' = SelectFinal(cands', selected)
              /\ pc' = "select"
              /\ UNCHANGED <<error, topology, key, lineage, online, call, records,
                             tuning, files, alias>>
    /\ UNCHANGED <<clock, sources>>

\* Read the sidecar, check it against the input, and verify the given XML.
Verify ==
    /\ pc = "solve" /\ conf.mode = "verify"
    /\ \/ Fail("input")
       \/ Late /\ Fail("timeout")
       \/ /\ ~Late
          /\ \E id \in SidecarIds, v \in Verdict :
               /\ cands' = <<Candidate(id, v)>>
               /\ final' = SelectFinal(cands', 1)
          /\ pc' = "select"
          /\ UNCHANGED <<error, topology, key, lineage, online, call, records,
                         tuning, files, alias>>
    /\ UNCHANGED <<clock, sources>>

Call(id, rep, calibrate, tune, return) ==
    [id |-> id, rep |-> rep, calibrate |-> calibrate, tune |-> tune,
     return |-> return, until |-> 0, stage |-> "enter", blocked |-> FALSE,
     rounds |-> 0, stable |-> FALSE, res |-> NoResult]

\* After validation: an online run validates the selected candidate online,
\* with calibration the first time and without it after the new solve.
Selected ==
    /\ pc = "select"
    /\ IF Late THEN Fail("timeout")
       ELSE /\ IF conf.online /\ final # None
               THEN /\ call' = Call(final, cands[IndexOf(cands, final)].rep,
                                    lineage = <<>>, conf.tune,
                                    IF lineage = <<>> THEN "first" ELSE "operator")
                    /\ pc' = "online"
               ELSE pc' = "records" /\ UNCHANGED call
            /\ UNCHANGED <<error, search, online, records, tuning, files, alias>>
    /\ UNCHANGED <<clock, sources>>

-----------------------------------------------------------------------------
(* Online validation of one candidate, process by process. *)

\* Whether the budget given to the validation is used up.
OnlineExpired == clock >= call.until
Stage(s) == /\ pc = "online" /\ call.stage = s
            /\ UNCHANGED <<clock, error, search, online, records, tuning,
                           sources, files, alias>>
Go(s, r) == /\ call' = [call EXCEPT !.stage = s, !.res = r]
            /\ UNCHANGED pc
Return(r) == /\ call' = [call EXCEPT !.res = r]
             /\ pc' = "return"

\* No XML or an incompatible one: no validation.  No time left: the run ends.
Enter ==
    /\ pc = "online" /\ call.stage = "enter"
    /\ IF ~call.rep.runtime
       THEN /\ Return(None)
            /\ UNCHANGED <<error, search, online, records, tuning, files, alias>>
       ELSE IF Expired THEN Fail("timeout")
       ELSE /\ call' = [call EXCEPT !.stage = "preflight", !.until = Limit]
            /\ UNCHANGED <<pc, error, search, online, records, tuning, files, alias>>
    /\ UNCHANGED <<clock, sources>>

Preflight ==
    /\ Stage("preflight")
    /\ \/ Return(Failed(NoResult))
       \/ Go(IF call.calibrate /\ conf.plan THEN "calibrate" ELSE "measure",
             NoResult)

\* _calibrate raises, has nothing to measure, or measures every point.
Calibrate ==
    /\ Stage("calibrate")
    /\ \/ /\ call' = [call EXCEPT !.stage = "measure", !.blocked = TRUE,
                        !.res.calibration = "failed"]
          /\ UNCHANGED pc
       \/ OnlineExpired
          /\ Return(Failed([NoResult EXCEPT !.calibration = "failed",
                                            !.release = "failed"]))
       \/ ~OnlineExpired /\ Return(RequiresResolve)
       \/ /\ ~OnlineExpired
          /\ \E status \in {"not_run", "unstable"} :
               call' = [call EXCEPT !.stage = "measure", !.blocked = TRUE,
                          !.res.calibration = status]
          /\ UNCHANGED pc

\* Statistics of an unstable round, which nothing compares.
Noise == CHOOSE p \in Perfs : TRUE

MutantMeasureRound ==
    /\ Stage("measure")
    /\ ~OnlineExpired
    /\ \E stable \in BOOLEAN, perf \in Perfs :
         call' = [call EXCEPT
           !.rounds = (@ + 1) % 2, !.stable = stable, !.res.perf = perf,
           !.res.release = IF stable THEN "passed" ELSE "unstable",
           !.stage = IF stable THEN "trace" ELSE "measure"]
    /\ UNCHANGED pc

\* One round of release samples; unstable rounds are repeated.  A process
\* that fails, gives a wrong result or outlives the budget ends it.
MeasureRound ==
    /\ Stage("measure")
    /\ \/ Return(Failed([call.res EXCEPT !.release = "failed"]))
       \/ /\ ~OnlineExpired /\ conf.single
          /\ Go("trace", [call.res EXCEPT !.release = "passed"])
       \/ /\ ~OnlineExpired /\ ~conf.single
          /\ \E stable \in BOOLEAN : \E perf \in IF stable THEN Perfs ELSE {Noise} :
               call' = [call EXCEPT
                 !.rounds = @ + 1, !.stable = stable, !.res.perf = perf,
                 !.res.release = IF stable THEN "passed" ELSE "unstable",
                 !.stage = IF stable \/ call.rounds + 1 = MaxRounds
                           THEN "trace" ELSE "measure"]
          /\ UNCHANGED pc

\* Clock synchronisation, the traced run and the collection of its files.
TraceRun ==
    /\ Stage("trace")
    /\ \/ Return(Failed([call.res EXCEPT !.operator = "failed"]))
       \/ /\ ~OnlineExpired
          /\ \E eligible \in BOOLEAN :
               Return([call.res EXCEPT
                 !.operator = "passed",
                 !.failed = call.res.calibration = "failed",
                 !.allowed = TuningAllowed(call.tune, call.blocked,
                               call.res.perf, call.stable, eligible)])

OnlineValidation == Enter \/ Preflight \/ Calibrate \/ MeasureRound \/ TraceRun

-----------------------------------------------------------------------------
(* What the caller makes of the result. *)

CallReport == IF call.res = None THEN [call.rep EXCEPT !.online = "failed"]
              ELSE WithOnlineResult(call.rep, call.res)
Reported(rep) == [cands EXCEPT ![IndexOf(cands, call.id)].rep = rep]
RestOnline == <<records, tuning, files, alias, error, clock, conf, truth>>

\* The deadline is checked only when a validation ran.
Returned(what) == pc = "return" /\ call.return = what /\ (call.res # None => ~Late)

ReturnLate == /\ pc = "return" /\ call.res # None /\ Late /\ Fail("timeout")
              /\ UNCHANGED <<clock, sources>>

ReturnFirst ==
    /\ Returned("first") /\ ~(call.res # None /\ call.res.resolve)
    /\ cands' = Reported(CallReport)
    /\ online' = call.res /\ pc' = "records"
    /\ call' = None
    /\ UNCHANGED <<topology, key, final, lineage, RestOnline>>

\* A stable calibration replaces the topology and its solve; the candidates
\* found so far stay as lineage.  The key stays if the curves are the same.
ReturnCalibratedSolve ==
    /\ conf.mode = "solve"
    /\ Returned("first") /\ call.res # None /\ call.res.resolve
    /\ lineage' = [i \in Indices |->
                     Record([cands[i] EXCEPT
                       !.rep = Reported(CallReport)[i].rep], "initial_solve")]
    /\ topology' = 1 /\ key' \in {0, 1} /\ online' = None /\ pc' = "solve"
    /\ call' = None
    /\ UNCHANGED <<cands, final, RestOnline>>

\* A verification has no second solve: the operator runs under the old
\* topology and its result still asks for one.
ReturnCalibratedVerify ==
    /\ conf.mode = "verify"
    /\ Returned("first") /\ call.res # None /\ call.res.resolve
    /\ call' = Call(call.id, CallReport, FALSE, FALSE, "verify")
    /\ online' = call.res /\ pc' = "online"
    /\ UNCHANGED <<topology, key, cands, final, lineage, RestOnline>>

\* After an applied calibration the operator's result carries it.
ReturnOperator ==
    /\ \/ Returned("operator") \/ Returned("verify")
    /\ LET merged == MergeAppliedCalibration(call.res, conf.mode = "verify")
       IN IF call.res = None
          THEN /\ cands' = Reported(CallReport)
               /\ online' = RequiresResolve
          ELSE /\ cands' = Reported(WithOnlineResult(CallReport, merged))
               /\ online' = merged
    /\ pc' = "records"
    /\ call' = None
    /\ UNCHANGED <<topology, key, final, lineage, RestOnline>>

CollectRecords ==
    /\ pc = "records"
    /\ records' = lineage \o Records(
         IF conf.mode = "verify" THEN "verify_existing"
         ELSE IF topology = 1 THEN "calibrated_resolve" ELSE "initial_solve")
    /\ pc' = IF /\ conf.tune /\ final # None
                /\ (online # None => online.allowed)
             THEN "tune" ELSE "write"
    /\ UNCHANGED <<clock, error, search, online, call, tuning, sources, files, alias>>

-----------------------------------------------------------------------------
(* The tuner. *)

Others == <<clock, error, search, online, records, sources, files, alias>>

\* The tuner gets what is left of the run's time as its own budget.
BeginTuning ==
    /\ pc = "tune"
    /\ IF Expired THEN Fail("timeout")
       ELSE IF online # None /\ ~AttachEligible(online) THEN Fail("attach")
       ELSE /\ tuning' = [NoTuning EXCEPT !.asked = clock,
                            !.budget = Limit - clock,
                            !.online = online # None]
            /\ pc' = "tune_initial"
            /\ UNCHANGED <<error, search, online, call, records, files, alias>>
    /\ UNCHANGED <<clock, sources>>

TuningExpired == clock - tuning.started >= tuning.budget

Entry(id, sig, rep, perf, accepted) ==
    [id |-> id, sig |-> sig, rep |-> rep, perf |-> perf, accepted |-> accepted]

TuneInitial ==
    /\ pc = "tune_initial"
    /\ \E started \in tuning.asked .. clock :
         LET rep == cands[IndexOf(cands, final)].rep
             perf == Performance(online)
             late == clock - started >= tuning.budget
             ok == ~late /\ Rejection(rep, perf, tuning.online) = None
             entry == Entry(final, final, rep, perf, ok)
         IN /\ tuning' = [tuning EXCEPT !.started = started,
                            !.best = IF ok THEN entry ELSE None,
                            !.signatures = {final}, !.late = late,
                            !.history = <<entry>>]
            /\ pc' = IF late THEN "tuned" ELSE "iterate"
    /\ truth' \in [TunedScheds -> Verdict]
    /\ UNCHANGED <<clock, conf, error, search, online, records, files, alias, call>>

\* A proposal: a repaired schedule whose overlay may not fit the input.
Proposals == UNION {[1 .. n -> [sched : TunedScheds, fits : BOOLEAN]] :
                      n \in 0 .. MaxProposals}
IterationLimit == IF MaxIterations < 20 THEN MaxIterations ELSE 20

Iterate ==
    /\ pc = "iterate"
    /\ \/ /\ \/ tuning.iteration = IterationLimit
             \/ TuningExpired
             \/ tuning.best = None
          /\ pc' = "tuned"
          /\ UNCHANGED tuning
       \/ /\ tuning.iteration < IterationLimit /\ ~TuningExpired
          /\ tuning.best # None
          /\ \E ps \in Proposals :
               IF ps = <<>> THEN pc' = "tuned" /\ UNCHANGED tuning
               ELSE /\ tuning' = [tuning EXCEPT !.iteration = @ + 1,
                                                !.queue = ps]
                    /\ pc' = "propose"
    /\ UNCHANGED <<call, Others>>

\* The id of the proposal at the head: its iteration and its place in it.
ProposalId == <<"tune", tuning.iteration, Len(tuning.queue)>>
Proposal == Head(tuning.queue)
Conclude(entry, rest) ==
    tuning' = [rest EXCEPT !.queue = Tail(@), !.history = Append(@, entry),
                           !.best = IF entry.accepted THEN entry ELSE @]
Duplicate == \E i \in DOMAIN tuning.history : tuning.history[i].id = ProposalId
Reject(rep, rest) ==
    Conclude(Entry(ProposalId, Proposal.sched, rep, None, FALSE), rest)

\* An id that the tuner has seen ends the run: the names start over in every
\* run, and the candidate it was given may have such a name.
RaiseDuplicate ==
    /\ pc = "propose" /\ tuning.queue # <<>> /\ Duplicate
    /\ Fail("duplicate")
    /\ UNCHANGED <<clock, sources>>

\* Turned down before anything is checked: a known schedule, an overlay
\* that does not fit, no time left, or no simulated improvement.
RejectUnchecked ==
    /\ pc = "propose" /\ tuning.queue # <<>> /\ ~Duplicate
    /\ LET s == Proposal.sched
           known == [tuning EXCEPT !.signatures = @ \union {s}]
       IN \/ s \in tuning.signatures /\ Reject(None, tuning)
          \/ /\ s \notin tuning.signatures
             /\ ~Proposal.fits /\ Reject(None, known)
          \/ /\ s \notin tuning.signatures /\ Proposal.fits
             /\ TuningExpired /\ Reject(None, [known EXCEPT !.late = TRUE])
          \/ /\ s \notin tuning.signatures /\ Proposal.fits /\ ~TuningExpired
             /\ truth[s].sim > 0 => truth[s].sim >= tuning.best.rep.sim
             /\ Reject(None, known)
    /\ UNCHANGED <<pc, call, Others>>

\* Otherwise it is validated, and in online tuning run on the machine too.
Assess ==
    /\ pc = "propose" /\ tuning.queue # <<>> /\ ~Duplicate
    /\ LET s == Proposal.sched IN
       /\ s \notin tuning.signatures /\ Proposal.fits /\ ~TuningExpired
       /\ truth[s].sim > 0 /\ truth[s].sim < tuning.best.rep.sim
       /\ tuning' = [tuning EXCEPT !.signatures = @ \union {s}]
       /\ call' = Call(ProposalId, Report(truth[s]), FALSE, TRUE, "tuned")
    /\ pc' = IF tuning.online THEN "online" ELSE "judge"
    /\ UNCHANGED Others

ReturnTuned == /\ Returned("tuned")
               /\ pc' = "judge"
               /\ call' = [call EXCEPT !.rep = CallReport]
               /\ UNCHANGED <<tuning, Others>>

Judge ==
    /\ pc = "judge"
    /\ LET perf == IF tuning.online THEN Performance(call.res) ELSE None
           ok == /\ Rejection(call.rep, perf, tuning.online) = None
                 /\ Improves(tuning.best, call.rep, perf, tuning.online)
       IN IF TuningExpired
          THEN Reject(call.rep, [tuning EXCEPT !.late = TRUE])
          ELSE Conclude(Entry(ProposalId, Proposal.sched, call.rep, perf, ok),
                        tuning)
    /\ pc' = "propose" /\ call' = None
    /\ UNCHANGED Others

EndIteration == /\ pc = "propose" /\ tuning.queue = <<>>
                /\ pc' = IF tuning.late THEN "tuned" ELSE "iterate"
                /\ UNCHANGED <<tuning, call, Others>>

\* Entries turned down unchecked are validated now, for their reports.
EndTuning ==
    /\ pc = "tuned"
    /\ LET h == Tail(tuning.history)
           rep(e) == IF e.rep = None THEN Report(truth[e.sig]) ELSE e.rep
       IN records' = records \o [i \in 1 .. Len(h) |->
            [id |-> h[i].id, topology |-> topology, rep |-> rep(h[i]),
             kind |-> "tuned",
             accepted |-> h[i].accepted /\ OfflineValid(rep(h[i]))]]
    /\ final' = IF tuning.best # None THEN tuning.best.id ELSE final
    /\ pc' = "write"
    /\ UNCHANGED <<clock, error, topology, key, cands, lineage, online, call,
                   tuning, sources, files, alias>>

Tuner == BeginTuning \/ TuneInitial \/ Iterate \/ RaiseDuplicate
         \/ RejectUnchecked \/ Assess
         \/ ReturnTuned \/ Judge \/ EndIteration \/ EndTuning

-----------------------------------------------------------------------------
(* The run directory. *)

\* XML, schedule and report of one record; XML only when it is valid.
Artifact(r) == [id |-> r.id, topology |-> r.topology, rep |-> r.rep,
                xml |-> r.rep.artifact /\ OfflineValid(r.rep),
                accepted |-> r.accepted, best |-> r.id = final]

WriteArtifacts ==
    /\ pc = "write"
    /\ files' = [i \in DOMAIN records |-> Artifact(records[i])]
    /\ pc' = "finalize"
    /\ UNCHANGED <<clock, error, search, online, call, records, tuning,
                   sources, alias>>

\* The alias is a copy of the first artifact with the selected id.
Finalize ==
    /\ pc = "finalize"
    /\ LET chosen == files[IndexOf(files, final)] IN
       IF Late THEN Fail("timeout")
       ELSE IF final # None /\ ~chosen.xml THEN Fail("no_xml")
       ELSE /\ alias' = IF final = None THEN None ELSE chosen
            /\ pc' = "done"
            /\ UNCHANGED <<error, search, online, call, records, tuning, files>>
    /\ UNCHANGED <<clock, sources>>

Step == \/ Solve \/ Verify \/ Selected \/ OnlineValidation
        \/ ReturnLate \/ ReturnFirst \/ ReturnCalibratedSolve
        \/ ReturnCalibratedVerify \/ ReturnOperator \/ CollectRecords
        \/ Tuner \/ WriteArtifacts \/ Finalize
Next == Tick \/ Step

Spec == Init /\ [][Next]_vars
FairSpec == Spec /\ WF_vars(Step)

-----------------------------------------------------------------------------
(* Properties. *)

\* The calibration measured the very curves that were given, and the selected
\* candidate is of the second solve: the first has candidates of its id.
SameName == topology = 1 /\ key = 0 /\ final[1] = "solve"

\* What a finished run exports is the candidate it selected: valid offline,
\* found under the topology that was in force at the end, and marked as best
\* in exactly one artifact of the run directory, although the directory also
\* holds the candidates of the solve that a calibration replaced.  Only where
\* the calibration reproduced the curves do both solves name candidates alike;
\* the export is then the first of the name, a valid one all the same.
PublishedSelection ==
    pc = "done" /\ final # None =>
      /\ alias.id = final /\ OfflineValid(alias.rep) /\ alias.xml
      /\ SameName \/ /\ alias.topology = topology
                     /\ \E i \in DOMAIN files :
                          /\ files[i].best
                          /\ \A j \in DOMAIN files : files[j].best => j = i

\* The workflow meets the preconditions of its own callees: a result it hands
\* to the tuner is eligible for tuning, the candidate it ends with has an XML
\* to alias, and the tuner never meets an id twice.  Two exceptions: the alias
\* takes the first artifact of a name, which has no XML if a reproduced
\* calibration found the candidate only the second time; and verify --tune of
\* a candidate that an earlier run tuned proposes its id again
\* (tuning/engine.py:820).
NoInternalError ==
    /\ error # "attach"
    /\ error = "no_xml" => SameName
    /\ error = "duplicate" => conf.mode = "verify" /\ final[1] = "tune"

\* The exported candidate came out of the tuner of this run.
Tuned == tuning.history # <<>> /\ final # tuning.history[1].id

\* Under --online a repaired schedule is exported only after it ran on the
\* machine: its report says that its own online validation passed.
OnlineTunedRan ==
    pc = "done" /\ conf.online /\ final # None =>
      (Tuned => alias.rep.online = "valid" /\ alias.rep.runtime)

\* A tuned result is no worse than what tuning started from, by the measure
\* tuning was asked to use and by simulation, however many proposals were
\* accepted on the way and whatever was rejected after them.
TunedNeverSlower ==
    pc = "done" /\ final # None =>
      (Tuned =>
         LET first == tuning.history[1] IN
         /\ alias.rep.sim < first.rep.sim
         /\ tuning.online => tuning.best.perf.median <= first.perf.median)

\* Measurements guide the tuner only under a calibration that was applied:
\* when a calibration was planned and it failed, was skipped or stayed
\* unstable, there is no online tuning.
TuningCalibrated ==
    pc \in {"tune_initial", "iterate", "propose", "judge"} =>
      (tuning.online /\ conf.plan => topology = 1)

\* Every run comes to an end: rounds, retries and iterations are bounded.
RunEnds == <>(pc \in {"done", "failed"})

\* A run that ends well exports the one candidate it selected, without having
\* called the tuner or the export against their preconditions on the way,
\* except as PublishedSelection and NoInternalError say.
ExportSound == PublishedSelection /\ NoInternalError

\* Tuning is guided only by applicable measurements, and what it hands over
\* was run where that was asked for and is no slower than what it began with.
TuningSound == OnlineTunedRan /\ TunedNeverSlower /\ TuningCalibrated
=============================================================================
