-------------------------- MODULE PrimaryWorkflow --------------------------
(***************************************************************************)
(* The search loop of a run (vericcl/workflow_v5.py), what it makes        *)
(* durable on the way (workflow_state.py), how the result is published     *)
(* (execution/context.py, execution/publication.py) and how a dead run is  *)
(* taken up again (cli/lifecycle.py).                                      *)
(*                                                                         *)
(* A bundle is a schedule with the model version it was checked under;     *)
(* check_xml_bundle is a function of the two, so its outcome is a table:   *)
(* the predicted time, or 0 where the bundle cannot execute.  Budgets are  *)
(* modelled elsewhere (BudgetManager): here an acquisition or a check of a *)
(* lease may raise BudgetExhausted at any point.  An action ends at the    *)
(* next durable write, so that Crash falls between any two of them.        *)
(***************************************************************************)
EXTENDS Naturals, FiniteSets

CONSTANTS Scheds,       \* complete schedules the solvers can produce
          MaxModel,     \* model versions are 0 .. MaxModel, 0 the initial one
          Tables,       \* the predictions to consider, see PredictionTables
          Requests,     \* the commands to consider
          Calibrate,    \* sketch.calibration.enabled
          Measure,      \* sketch.trace_and_measure.enabled
          MaxRounds,    \* sketch.budgets.max_tuning_rounds
          MaxLives,     \* bound: processes that work on the run directory
          None

Versions == 0 .. MaxModel
PredictionTables == [Scheds -> [Versions -> Nat]]
Commands == {"solve", "verify", "verify_tune", "calibrate"}

ASSUME WorkflowAssumption ==
    /\ Tables \subseteq PredictionTables
    /\ Requests \subseteq Commands
    /\ Calibrate \in BOOLEAN /\ Measure \in BOOLEAN
    /\ MaxModel \in Nat /\ MaxRounds \in Nat /\ MaxLives \in Nat \ {0}
    /\ None \notin Scheds

VARIABLES
    cost, req,      \* the predictions and the command, fixed for the run
    \* durable: survives the process
    ckpt,           \* checkpoints/latest.json
    accepted,       \* best/accepted.json
    summary,        \* run-summary.json
    meta,           \* run.json: result, best and publication sections
    files,          \* schedule.xml, schedule.json, model.json
    \* the process
    life,           \* its ordinal among the processes of this run
    pc,             \* where it is; "down" when there is none
    mem,            \* the attributes of the PrimaryWorkflow object
    todo,           \* strategies of the batch not yet tried
    props, prop,    \* proposals still to compare, and the one compared
    stop,           \* stop reason once run() has left its try block
    result,         \* the RunResult being published
    lost            \* history: the last process that finished its search and
                    \* died before its run-summary.json, 0 while there is none

fixed == <<cost, req, lost>>    \* what the steps of a process leave alone
published == <<summary, meta, files>>
round == <<todo, props, prop>>
vars == <<cost, req, ckpt, accepted, summary, meta, files, life, pc, mem,
          todo, props, prop, stop, result, lost>>

Bundle == [sched : Scheds, model : Versions]
Kept == {"accepted", "best_retained"}
Acceptances == Kept \cup {"not_evaluated", "not_required"}
LimitReasons == {"time_limit", "maximum_rounds", "proven_no_improvement"}
ErrorReasons == {"execution_error", "analysis_error"}
StopReasons == LimitReasons \cup ErrorReasons \cup
    {"verification_complete", "calibration_finished", "cleanup_unconfirmed",
     "no_baseline", "exception"}
Result == [acceptance : Acceptances, stop : StopReasons, life : 1 .. MaxLives]
Checkpoint == [phase : {"running", "finished"}, best : Scheds \cup {None},
               model : Versions, rounds : 0 .. MaxRounds, cands : SUBSET Scheds,
               calibrated : BOOLEAN, life : 1 .. MaxLives]

ASSUME NoneAssumption == None \notin Bundle \cup Result \cup Checkpoint

Time(b) == cost[b.sched][b.model]
CanExecute(b) == Time(b) > 0
Check(s, m) == [sched |-> s, model |-> m.model]
Stale(b, m) == b.model # m.model

\* Mutant: a candidate that is merely as fast replaces the incumbent.
MutantAcceptCandidate(old, new) ==
    /\ CanExecute(new)
    /\ old # None => CanExecute(old) /\ old.model = new.model /\ Time(new) <= Time(old)

\* accept_candidate without measured evidence; old is None for a baseline.
AcceptCandidate(old, new) ==
    /\ CanExecute(new)
    /\ old # None => /\ CanExecute(old)
                     /\ old.model = new.model
                     /\ Time(new) < Time(old)

\* What save_checkpoint writes: the record of the incumbent, which outlives
\* a resumed process that has not revalidated it, and the candidate records.
\* The life is for the properties; nothing in the code reads it.
Snapshot(phase, m) ==
    [phase |-> phase, best |-> m.rec, model |-> m.model, rounds |-> m.rounds,
     cands |-> {c.sched : c \in m.cands}, calibrated |-> m.calibrated, life |-> life]
Save(phase, m) == ckpt' = Snapshot(phase, m)

----------------------------------------------------------------------------
\* Places.  stage() is entered from a key of Stage: the acquisition may
\* raise, then the first checkpoint is saved and the body runs.
Stage == [revalidate |-> "revalidating", reload |-> "reloading", input |-> "reading",
          synthesize |-> "synthesizing", calibrate |-> "calibrating",
          baseline |-> "assessing", recover |-> "recovering", analyse |-> "analysing",
          act |-> "repairing", restale |-> "restaling", refine |-> "refining",
          reassess |-> "reassessing"]
InStage == {Stage[p] : p \in DOMAIN Stage} \cup
    {"revalidated", "republish", "reprop", "reprop_last", "republish_last", "reassessed"}
Comparing == {"next", "restale", "restaling", "republish", "reprop", "preliminary",
              "refine", "refining", "reassess", "reassessing", "reprop_last",
              "republish_last", "reassessed", "decide", "improved"}
InRound == Comparing \cup {"act", "repairing", "analyse", "analysing"}
Searching == DOMAIN Stage \cup InStage \cup InRound \cup
    {"start_recovery", "start_round", "choose", "adopted", "round_over", "finish",
     "finished", "calibrated", "cleanup", "unqualified"}
Finalizing == {"finalize", "write_summary", "export_xml", "export_sidecar",
               "export_model", "write_metadata", "mark_complete"}
Unreported == {"finished", "finalize", "write_summary"}  \* before run-summary.json
Places == {"down"} \cup Searching \cup Finalizing

\* run(): which stage a process starts with.
Entry(m, candidates) ==
    CASE m.rec # None -> "revalidate"
      [] m.rec = None /\ candidates # {} -> "reload"
      [] OTHER -> CASE req = "solve" -> "synthesize"
                    [] req = "calibrate" -> "calibrate"
                    [] OTHER -> "input"

\* run() after the candidates are there.
AfterCandidates(m) ==
    CASE m.cands = {} -> "unqualified"
      [] m.cands # {} /\ Calibrate /\ ~m.calibrated -> "calibrate"
      [] OTHER -> "baseline"

Blank == [best |-> None, rec |-> None, model |-> 0, cands |-> {}, rounds |-> 0,
          calibrated |-> FALSE]

Init ==
    /\ cost \in Tables /\ req \in Requests
    /\ ckpt = None /\ accepted = None /\ summary = None
    /\ meta = [complete |-> FALSE, result |-> None, best |-> None]
    /\ files = [xml |-> None, sidecar |-> None, model |-> None]
    /\ life = 1 /\ mem = Blank /\ pc = Entry(Blank, {})
    /\ todo = {} /\ props = {} /\ prop = None /\ stop = None /\ result = None
    /\ lost = 0

\* A step of the search: the process moves to l with attributes m.
Move(l, m) == pc' = l /\ mem' = m /\ UNCHANGED <<fixed, published, life, result>>
Keep(l, m) == Move(l, m) /\ UNCHANGED <<round, stop>>
Quiet(l) == Keep(l, mem) /\ UNCHANGED <<ckpt, accepted>>
Saved(l, m) == Keep(l, m) /\ Save("running", m) /\ UNCHANGED accepted
Leave(reason) == pc' = "finish" /\ stop' = reason

\* stage(): the lease is acquired and the first checkpoint saved.
OpenStage == pc \in DOMAIN Stage /\ (pc = "act" => todo # {}) /\ Saved(Stage[pc], mem)

WithCandidates(m, S) == [m EXCEPT !.cands = @ \cup S]

----------------------------------------------------------------------------
\* Before the baseline.

\* initial_candidates(): one lowered candidate is stored, or all streams end.
StoreInitial(s) ==
    /\ pc = "synthesizing" /\ Check(s, mem) \notin mem.cands
    /\ Saved("synthesizing", WithCandidates(mem, {Check(s, mem)}))
SynthesisEnds == pc = "synthesizing" /\ Saved(AfterCandidates(mem), mem)

\* run(), purpose verify: the artifact of the command line is checked.  A
\* rejected one never has XML to execute and is no candidate here; a resumed
\* process has no artifact at all (resume_run passes neither XML nor sidecar).
ReadInput ==
    /\ pc = "reading"
    /\ \E S \in {{}} \cup IF life = 1 THEN {{Check(s, mem)} : s \in Scheds} ELSE {} :
         Saved(AfterCandidates(WithCandidates(mem, S)), WithCandidates(mem, S))

\* run(), restored without an incumbent: the stored candidates are checked
\* again, one by one.  They are those of the checkpoint resume read; until
\* then the object has none, and stage() saves that.
ReloadCandidate(s) ==
    /\ pc = "reloading"
    /\ Move("reloading", WithCandidates(mem, {Check(s, mem)})) /\ todo' = todo \ {s}
    /\ UNCHANGED <<ckpt, accepted, props, prop, stop>>
ReloadEnds == pc = "reloading" /\ todo = {} /\ Saved(AfterCandidates(mem), mem)

\* run(), restored with an incumbent: it is checked under the restored model
\* and published again; the stage then closes.
Restored == Check(mem.rec, mem)

\* Mutant: the revalidated incumbent is not published again.
MutantRevalidate ==
    /\ pc = "revalidating" /\ CanExecute(Restored)
    /\ Keep("revalidated", [mem EXCEPT !.best = Restored]) /\ UNCHANGED <<ckpt, accepted>>

Revalidate ==
    /\ pc = "revalidating" /\ CanExecute(Restored)
    /\ accepted' = Restored
    /\ Keep("revalidated", [mem EXCEPT !.best = Restored]) /\ UNCHANGED ckpt
RevalidationFails ==
    /\ pc = "revalidating" /\ ~CanExecute(Restored)
    /\ LET m == [mem EXCEPT !.best = Restored]
       IN Move("finish", m) /\ Save("running", m)
    /\ stop' = "execution_error" /\ UNCHANGED <<accepted, round>>

\* After the baseline: verify without --tune is done, the others tune.
AfterBaseline ==
    IF req = "verify"
    THEN pc' = "finish" /\ stop' = "verification_complete"
    ELSE pc' = "start_round" /\ UNCHANGED stop

CloseRevalidation ==
    /\ pc = "revalidated" /\ Save("running", mem) /\ AfterBaseline
    /\ UNCHANGED <<fixed, published, life, result, mem, round, accepted>>

\* calibration(): run_calibration returns the model it got to, which is a
\* new version if some component qualified, or reports unconfirmed cleanup.
NewModels == {mem.model} \cup {v \in Versions : v = mem.model + 1}
AfterComparison(m) ==
    IF Stale(m.best, m) \/ Stale(prop, m) THEN "reassess" ELSE "decide"
AfterCalibration(m) ==
    CASE pc = "refining" -> AfterComparison(m)
      [] pc # "refining" /\ req = "calibrate" -> "calibrated"
      [] OTHER -> "baseline"
Calibration ==
    /\ pc \in {"calibrating", "refining"}
    /\ \E v \in NewModels :
         LET m == [mem EXCEPT !.model = v, !.calibrated = TRUE]
         IN \E l \in {AfterCalibration(m), "cleanup"} : Saved(l, m)

\* baseline(): every candidate is checked under the current model and kept.
AssessCandidates ==
    /\ pc = "assessing"
    /\ Saved("choose", WithCandidates(mem, {Check(c.sched, mem) : c \in mem.cands}))

\* adopt(): the incumbent changes and best/accepted.json is replaced.
Adopt(c, l) ==
    /\ Move(l, [mem EXCEPT !.best = c, !.rec = c.sched])
    /\ accepted' = c /\ props' = {} /\ UNCHANGED <<ckpt, todo, prop, stop>>

\* The viable candidates are tried by predicted time; with measurement one
\* whose trace is not complete is passed over.
Viable == {c \in mem.cands : ~Stale(c, mem) /\ CanExecute(c)}
AdoptBaseline(c) ==
    /\ pc = "choose" /\ c \in Viable /\ AcceptCandidate(mem.best, c)
    /\ Measure \/ \A d \in Viable : Time(c) <= Time(d)
    /\ Adopt(c, "adopted")

\* recover_capacity_baseline(): only while nothing at all can execute.
CanRecover ==
    /\ req # "verify" /\ mem.rounds < MaxRounds
    /\ \A c \in mem.cands : ~CanExecute(c)
NoBaseline ==
    /\ pc = "choose" /\ (Viable = {} \/ Measure)
    /\ \/ CanRecover /\ Quiet("start_recovery")
       \/ Quiet("unqualified")
StoreRecovered(s) ==
    /\ pc = "recovering" /\ Check(s, mem) \notin mem.cands
    /\ Saved(IF CanExecute(Check(s, mem)) THEN "baseline" ELSE "recovering",
             WithCandidates(mem, {Check(s, mem)}))
RecoveryEnds == pc = "recovering" /\ Saved("unqualified", mem)

\* adopt(): the checkpoint that follows the publication.
SaveAdopted ==
    /\ pc \in {"adopted", "improved"} /\ Save("running", mem)
    /\ IF pc = "adopted" THEN AfterBaseline ELSE pc' = "round_over" /\ UNCHANGED stop
    /\ UNCHANGED <<fixed, published, life, result, mem, round, accepted>>

----------------------------------------------------------------------------
\* tuning() and tuning_round().

\* Mutant: the round is not counted.
MutantUncountedRound ==
    /\ pc \in {"start_round", "start_recovery"} /\ mem.rounds < MaxRounds
    /\ Quiet(IF pc = "start_round" THEN "analyse" ELSE "recover")

\* The budgets count the round, of tuning or of capacity recovery.
StartRound ==
    /\ pc \in {"start_round", "start_recovery"} /\ mem.rounds < MaxRounds
    /\ Keep(IF pc = "start_round" THEN "analyse" ELSE "recover",
            [mem EXCEPT !.rounds = @ + 1])
    /\ UNCHANGED <<ckpt, accepted>>
MaximumRounds ==
    /\ pc = "start_round" /\ mem.rounds >= MaxRounds /\ Leave("maximum_rounds")
    /\ UNCHANGED <<fixed, published, life, result, mem, round, ckpt, accepted>>

\* The offline stage of a round ends the search or yields a batch.
Analyse ==
    /\ pc = "analysing" /\ Save("running", mem)
    /\ \/ pc' = "act" /\ todo' = Scheds /\ UNCHANGED stop
       \/ /\ \E reason \in {"proven_no_improvement", "analysis_error"} : Leave(reason)
          /\ UNCHANGED todo
    /\ UNCHANGED <<fixed, published, life, result, mem, accepted, props, prop>>

\* A repair stage, of an analysed strategy or of an expansion branch, stores
\* the complete candidates it produced.
Repair(S) ==
    /\ pc = "repairing" /\ S # {}
    /\ LET m == WithCandidates(mem, {Check(s, mem) : s \in S})
       IN Move("next", m) /\ Save("running", m)
    /\ todo' = todo \ S /\ props' = {Check(s, mem) : s \in S}
    /\ UNCHANGED <<accepted, prop, stop>>
\* None may come of it, or a SemanticError that only spends the strategy.
RepairFindsNothing(s) ==
    /\ pc = "repairing" /\ Move("act", mem) /\ Save("running", mem)
    /\ todo' = todo \ {s} /\ UNCHANGED <<accepted, props, prop, stop>>

\* compare(): a proposal or incumbent of an older model is checked again.
PickProposal(p) ==
    /\ pc = "next"
    /\ prop' = p /\ props' = props \ {p}
    /\ Move(IF Stale(p, mem) \/ Stale(mem.best, mem) THEN "restale" ELSE "preliminary", mem)
    /\ UNCHANGED <<ckpt, accepted, todo, stop>>
ProposalsCompared == pc = "next" /\ props = {} /\ Quiet("act")

ReassessedBest == Check(mem.best.sched, mem)
WithReassessedBest == WithCandidates([mem EXCEPT !.best = ReassessedBest], {ReassessedBest})
ReassessBest ==
    \/ pc = "restaling" /\ ~Stale(mem.best, mem) /\ Quiet("reprop")
    \/ /\ pc = "restaling" /\ Stale(mem.best, mem)
       /\ Saved(IF CanExecute(ReassessedBest) THEN "republish" ELSE "reprop",
                WithReassessedBest)
    \/ pc = "reassessing" /\ Saved("reprop_last", WithReassessedBest)

\* Mutant: the reassessed incumbent is published without asking whether it
\* can still execute.
MutantReassessProposal ==
    /\ pc \in {"reprop", "reprop_last"}
    /\ prop' = Check(prop.sched, mem)
    /\ LET m == WithCandidates(mem, {prop'})
       IN  /\ Move(IF pc = "reprop" THEN "preliminary" ELSE "republish_last", m)
           /\ Save("running", m)
    /\ UNCHANGED <<accepted, todo, props, stop>>

ReassessProposal ==
    /\ pc \in {"reprop", "reprop_last"}
    /\ prop' = Check(prop.sched, mem)
    /\ LET m == WithCandidates(mem, {prop'})
           after == CASE pc = "reprop" -> "preliminary"
                      [] pc = "reprop_last" /\ CanExecute(mem.best) -> "republish_last"
                      [] OTHER -> "decide"
       IN Move(after, m) /\ Save("running", m)
    /\ UNCHANGED <<accepted, todo, props, stop>>

\* publish_best('model_reassessment'), before and after the proposal.
Republish ==
    /\ pc \in {"republish", "republish_last"} /\ accepted' = mem.best
    /\ Keep(IF pc = "republish" THEN "reprop" ELSE "reassessed", mem) /\ UNCHANGED ckpt
CloseReassessment == pc = "reassessed" /\ Saved("decide", mem)

\* A proposal without gain is dropped, unless calibration could supply the
\* cost it lacks; the others are refined where some cost is unmeasured.
Preliminary ==
    /\ pc = "preliminary"
    /\ \/ ~AcceptCandidate(mem.best, prop) /\ Quiet("next")
       \/ /\ AcceptCandidate(mem.best, prop) \/ (Calibrate /\ ~CanExecute(prop))
          /\ \/ Quiet(AfterComparison(mem))
             \/ Calibrate /\ Quiet("refine")

\* The proposal replaces the incumbent, or is refused by the final check or
\* by the trace and measurement it needs.
AdoptImprovement ==
    /\ pc = "decide" /\ AcceptCandidate(mem.best, prop) /\ Adopt(prop, "improved")
Refuse ==
    /\ pc = "decide" /\ (Measure \/ ~AcceptCandidate(mem.best, prop)) /\ Quiet("next")

ActionsTried == pc = "act" /\ Quiet("round_over")
RoundOver == pc = "round_over" /\ Saved("start_round", mem)

----------------------------------------------------------------------------
\* Errors.  Raising inside a stage saves the closing checkpoint on the way.
Unwind == IF pc \in InStage THEN Save("running", mem) ELSE UNCHANGED ckpt
Acquiring == DOMAIN Stage \cup {"start_round", "start_recovery"}

\* BudgetExhausted: initial synthesis goes on with what it has, a round is
\* abandoned, anything else ends the search.
BudgetRaised ==
    /\ pc \in InStage \cup Acquiring /\ Unwind
    /\ \/ /\ pc \in {"synthesize", "synthesizing"}
          /\ pc' = AfterCandidates(mem) /\ UNCHANGED stop
       \/ pc \in InRound /\ pc' = "round_over" /\ UNCHANGED stop
       \/ /\ pc \notin InRound \cup {"synthesize", "synthesizing"}
          /\ Leave("time_limit")
    /\ props' = {} /\ todo' = {} /\ prop' = None
    /\ UNCHANGED <<fixed, published, life, result, mem, accepted>>

\* Another SemanticError: of a strategy it is noted and the next one tried,
\* of an expansion branch or elsewhere it ends the search.
SemanticRaised ==
    /\ pc \in InStage \cup DOMAIN Stage /\ Unwind
    /\ \/ pc \in Comparing /\ pc' = "act" /\ UNCHANGED <<stop, todo>>
       \/ Leave("execution_error") /\ todo' = {}
    /\ props' = {} /\ prop' = None
    /\ UNCHANGED <<fixed, published, life, result, mem, accepted>>

\* _execute: an interrupt, a missing solver or an internal error.
Aborted ==
    /\ pc \in Searching /\ Unwind
    /\ pc' = "finalize"
    /\ result' = [acceptance |-> "not_evaluated", stop |-> "exception", life |-> life]
    /\ UNCHANGED <<fixed, published, life, mem, round, stop, accepted>>

----------------------------------------------------------------------------
\* The end of run().

Conclude(acceptance, reason) ==
    /\ pc' = "finalize"
    /\ result' = [acceptance |-> acceptance, stop |-> reason, life |-> life]
    /\ UNCHANGED <<fixed, published, life, mem, round, stop, accepted>>

Unqualified == pc = "unqualified" /\ Conclude("not_evaluated", "no_baseline") /\ UNCHANGED ckpt
CleanupUnconfirmed ==
    /\ pc = "cleanup" /\ Save("finished", mem)
    /\ Conclude(IF mem.best # None THEN "best_retained" ELSE "not_evaluated",
                "cleanup_unconfirmed")
FinishCalibration ==
    /\ pc = "calibrated" /\ Save("finished", mem)
    /\ \E a \in {"not_required", "not_evaluated"} : Conclude(a, "calibration_finished")

Finish ==
    /\ pc = "finish" /\ Keep("finished", mem) /\ Save("finished", mem) /\ UNCHANGED accepted
Qualified == mem.best # None /\ CanExecute(mem.best) /\ ~Stale(mem.best, mem)
Decide ==
    /\ pc = "finished" /\ UNCHANGED ckpt
    /\ Conclude(CASE ~Qualified -> "not_evaluated"
                  [] Qualified /\ stop \in ErrorReasons -> "best_retained"
                  [] OTHER -> "accepted", stop)

----------------------------------------------------------------------------
\* finalize_run and publish_results, one durable write after the other.
Step(from, to) ==
    /\ pc = from /\ pc' = to
    /\ UNCHANGED <<fixed, life, ckpt, accepted, mem, round, stop, result>>
Export == accepted # None /\ result.acceptance \in Kept

MarkIncomplete ==
    /\ Step("finalize", "write_summary")
    /\ meta' = [meta EXCEPT !.complete = FALSE] /\ UNCHANGED <<summary, files>>
WriteSummary ==
    /\ Step("write_summary", "export_xml") /\ summary' = result /\ UNCHANGED <<meta, files>>
ExportXml ==
    /\ Step("export_xml", "export_sidecar")
    /\ files' = [files EXCEPT !.xml = IF Export THEN accepted.sched ELSE None]
    /\ UNCHANGED <<summary, meta>>
ExportSidecar ==
    /\ Step("export_sidecar", "export_model")
    /\ files' = [files EXCEPT !.sidecar = IF Export THEN accepted.sched ELSE None]
    /\ UNCHANGED <<summary, meta>>
ModelSource ==
    CASE Export -> accepted.model
      [] ~Export /\ ckpt # None -> ckpt.model
      [] OTHER -> 0
ExportModel ==
    /\ Step("export_model", "write_metadata")
    /\ files' = [files EXCEPT !.model = ModelSource] /\ UNCHANGED <<summary, meta>>
WriteMetadata ==
    /\ Step("write_metadata", "mark_complete")
    /\ meta' = [meta EXCEPT !.result = result, !.best = accepted]
    /\ UNCHANGED <<summary, files>>

\* The process is gone and its memory with it.
Gone ==
    /\ pc' = "down" /\ mem' = Blank /\ result' = None /\ stop' = None
    /\ todo' = {} /\ props' = {} /\ prop' = None
    /\ UNCHANGED <<cost, req, life, ckpt, accepted>>
MarkComplete ==
    /\ pc = "mark_complete" /\ meta' = [meta EXCEPT !.complete = TRUE] /\ Gone
    /\ UNCHANGED <<summary, files, lost>>

\* Death, failing storage, or finalize_run finding owned jobs unresolved.
Crash ==
    /\ pc # "down" /\ Gone /\ UNCHANGED published
    /\ lost' = IF pc \in Unreported /\ ckpt # None /\ ckpt.phase = "finished" /\ ckpt.life = life
               THEN life ELSE lost

\* resume_run.  A finished search with a summary is only published again,
\* and not even that when the last publication is complete; any other is
\* continued from the checkpoint.
AlreadyFinished == ckpt.phase = "finished" /\ summary # None
Restart ==
    LET m == [Blank EXCEPT !.rec = ckpt.best, !.model = ckpt.model,
                           !.rounds = ckpt.rounds, !.calibrated = ckpt.calibrated]
    IN  /\ mem' = m /\ pc' = Entry(m, ckpt.cands)
        /\ todo' = IF pc' = "reload" THEN ckpt.cands ELSE {}
        /\ UNCHANGED result
Resume ==
    /\ pc = "down" /\ ckpt # None /\ life < MaxLives /\ life' = life + 1
    /\ \/ ~AlreadyFinished /\ Restart
       \/ /\ AlreadyFinished /\ ~meta.complete
          /\ result' = summary /\ pc' = "finalize" /\ UNCHANGED <<mem, todo>>
    /\ UNCHANGED <<fixed, published, ckpt, accepted, props, prop, stop>>

Search ==
    \/ OpenStage \/ SynthesisEnds \/ ReadInput \/ ReloadEnds
    \/ \E s \in Scheds : StoreInitial(s) \/ StoreRecovered(s)
    \/ Revalidate \/ RevalidationFails \/ CloseRevalidation
    \/ Calibration \/ AssessCandidates \/ NoBaseline \/ RecoveryEnds
    \/ \E c \in mem.cands : AdoptBaseline(c)
    \/ SaveAdopted \/ StartRound \/ MaximumRounds \/ Analyse
    \/ \E S \in SUBSET todo : Repair(S)
    \/ \E s \in todo : RepairFindsNothing(s) \/ ReloadCandidate(s)
    \/ \E p \in props : PickProposal(p)
    \/ ProposalsCompared \/ ReassessBest \/ ReassessProposal \/ Republish
    \/ CloseReassessment \/ Preliminary \/ AdoptImprovement \/ Refuse
    \/ ActionsTried \/ RoundOver
    \/ Unqualified \/ CleanupUnconfirmed \/ FinishCalibration \/ Finish \/ Decide
Fail == BudgetRaised \/ SemanticRaised \/ Aborted
Publish ==
    \/ MarkIncomplete \/ WriteSummary \/ ExportXml \/ ExportSidecar \/ ExportModel
    \/ WriteMetadata \/ MarkComplete

Next == Search \/ Fail \/ Publish \/ Crash \/ Resume
Spec == Init /\ [][Next]_vars

\* The process does not stop by itself: run() and finalize_run are one
\* sequential computation in which every wait is bounded by a lease.
Work == Search \/ Fail \/ Publish
FairSpec == Spec /\ WF_vars(Work)

----------------------------------------------------------------------------
\* Every variable has its shape; the round counter never passes its limit.
WTypeOK ==
    /\ cost \in Tables /\ req \in Requests /\ life \in 1 .. MaxLives /\ pc \in Places
    /\ ckpt \in Checkpoint \cup {None} /\ (ckpt # None => ckpt.life <= life)
    /\ accepted \in Bundle \cup {None} /\ summary \in Result \cup {None}
    /\ meta.complete \in BOOLEAN
    /\ meta.result \in Result \cup {None} /\ meta.best \in Bundle \cup {None}
    /\ {files.xml, files.sidecar} \subseteq Scheds \cup {None}
    /\ files.model \in Versions \cup {None}
    /\ mem.best \in Bundle \cup {None} /\ mem.rec \in Scheds \cup {None}
    /\ mem.model \in Versions /\ mem.cands \subseteq Bundle
    /\ mem.rounds \in 0 .. MaxRounds /\ mem.calibrated \in BOOLEAN
    /\ todo \subseteq Scheds /\ props \subseteq Bundle /\ prop \in Bundle \cup {None}
    /\ stop \in StopReasons \cup {None} /\ result \in Result \cup {None}
    /\ lost \in 0 .. life

\* While run.json calls the publication complete, the exported files are one
\* result: XML and sidecar of the same schedule, present exactly when the
\* published result keeps a schedule, with the model that schedule was
\* accepted under (publish_results, publication_complete).  It must survive
\* a second finalization that dies half way.
PublicationConsistent ==
    meta.complete =>
        /\ files.xml = files.sidecar
        /\ (files.xml # None) <=> (meta.best # None /\ meta.result.acceptance \in Kept)
        /\ files.xml # None => files.xml = meta.best.sched /\ files.model = meta.best.model

\* What best/accepted.json names can execute under the model it names, also
\* after a recalibration made the incumbent infeasible (publish_best).
AcceptedExecutes == accepted # None => CanExecute(accepted)

\* A finished search that keeps a schedule exports the incumbent of its own
\* checkpoint, whatever accepted.json held when an earlier process died
\* between publishing a better one and saving it (adopt, resume_revalidation).
ExportsCheckpointedIncumbent ==
    (meta.complete /\ meta.result.acceptance \in Kept) => files.xml = ckpt.best

\* Under one model version the checkpointed incumbent is only ever replaced
\* by a strictly faster executable one, crashes and resumes included
\* (accept_candidate, compare).
IncumbentImproves ==
    (/\ ckpt # None /\ ckpt.best # None /\ ckpt'.model = ckpt.model
     /\ ckpt'.best \notin {None, ckpt.best})
      => LET new == cost[ckpt'.best][ckpt.model]
             old == cost[ckpt.best][ckpt.model]
         IN new > 0 /\ new < old

\* An incumbent once checkpointed stays in every later checkpoint, also those
\* of a resumed process that could not revalidate it (checkpoint, best_record).
IncumbentKept == (ckpt # None /\ ckpt.best # None) => ckpt'.best # None

\* A process that is not killed comes to an end: the tuning loop swallows
\* BudgetExhausted and goes on, yet every pass takes one of the rounds left.
RunEnds == []<>(pc = "down")

\* A result that resume keeps because the search is finished is the result of
\* that search, with one exception.  A process that was aborted or found no
\* baseline publishes without a finished checkpoint; if the process that then
\* takes the run up finishes the search and dies before its run-summary.json,
\* resume takes the summary of the earlier one for the finished search's
\* (cli/lifecycle.py:101-117), although src/README.md:554 says that it completes
\* an interrupted finalization.  A death anywhere else shadows nothing.
FinishedResultNotShadowed ==
    (/\ pc = "down" /\ ckpt # None /\ AlreadyFinished /\ meta.complete
     /\ meta.result.life < ckpt.life)
        => /\ lost = ckpt.life
           /\ meta.result.stop \in {"exception", "no_baseline"}

\* A complete publication is one consistent result, of the incumbent that the
\* search ended with, wherever processes died while searching or finalizing;
\* and it is that search's own result, unless the process that finished it
\* died between its last checkpoint and its summary while an aborted or
\* unqualified one had published before (finalize_run, resume_run).
PublicationSound ==
    /\ WTypeOK
    /\ PublicationConsistent
    /\ ExportsCheckpointedIncumbent
    /\ FinishedResultNotShadowed

\* From one checkpoint to the next, crashes and resumes included, the incumbent
\* is neither lost nor replaced by one that is not strictly faster.
IncumbentMonotone == [][IncumbentKept /\ IncumbentImproves]_vars
=============================================================================
