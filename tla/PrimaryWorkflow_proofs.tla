----------------------- MODULE PrimaryWorkflow_proofs -----------------------
(***************************************************************************)
(* Proofs about PrimaryWorkflow, for any schedules, predictions, model     *)
(* versions, rounds and number of processes.                               *)
(*                                                                         *)
(* The argument: while a process searches, the last checkpoint names its   *)
(* model and its incumbent, except between adopt()'s publication and the   *)
(* checkpoint that follows it; and best/accepted.json names its incumbent, *)
(* except after a revalidation that failed.  A result that is neither an   *)
(* abortion nor the lack of a baseline follows a finished checkpoint of    *)
(* its own process; once it is in run-summary.json no process searches any *)
(* more, so that checkpoint, accepted.json and the summary stay together.  *)
(***************************************************************************)
EXTENDS PrimaryWorkflow, TLAPS

MemType == [best : Bundle \cup {None}, rec : Scheds \cup {None}, model : Versions,
            cands : SUBSET Bundle, rounds : 0 .. MaxRounds, calibrated : BOOLEAN]
MetaType == [complete : BOOLEAN, result : Result \cup {None}, best : Bundle \cup {None}]
FilesType == [xml : Scheds \cup {None}, sidecar : Scheds \cup {None},
              model : Versions \cup {None}]
SearchStops == LimitReasons \cup ErrorReasons \cup {"verification_complete"}

FixedTypes == cost \in PredictionTables /\ cost \in Tables /\ req \in Requests
DurableTypes ==
    /\ ckpt \in Checkpoint \cup {None} /\ accepted \in Bundle \cup {None}
    /\ summary \in Result \cup {None} /\ meta \in MetaType /\ files \in FilesType
    /\ ckpt # None => ckpt.life <= life
ProcessTypes ==
    /\ life \in 1 .. MaxLives /\ pc \in Places /\ mem \in MemType
    /\ todo \subseteq Scheds /\ props \subseteq Bundle /\ prop \in Bundle \cup {None}
    /\ stop \in SearchStops \cup {None} /\ result \in Result \cup {None}
    /\ lost \in 0 .. life
Types == FixedTypes /\ DurableTypes /\ ProcessTypes

(* What the process has at hand, place by place. *)
PreBaseline == {"reload", "reloading", "input", "reading", "synthesize",
                "synthesizing", "calibrate", "calibrating", "baseline", "assessing",
                "choose", "start_recovery", "recover", "recovering", "calibrated",
                "unqualified"}
WithIncumbent == InRound \cup {"start_round", "round_over", "adopted", "improved",
                               "revalidated"}
WithProposal == Comparing \ {"next", "improved"}
AtHand ==
    /\ pc \in PreBaseline => mem.best = None /\ mem.rec = None
    /\ pc \in {"revalidate", "revalidating"} => mem.best = None /\ mem.rec \in Scheds
    /\ pc \in WithIncumbent => mem.best \in Bundle
    /\ mem.best # None => mem.best.sched = mem.rec
    /\ pc \in WithProposal => prop \in Bundle
    /\ pc \in {"finish", "finished"} => stop \in SearchStops

(* Incumbent and proposal are compared under the current model. *)
UpToDate ==
    /\ pc \in {"decide", "reprop_last", "republish_last", "reassessed"} =>
           ~Stale(mem.best, mem)
    /\ pc \in {"decide", "republish_last", "reassessed"} => ~Stale(prop, mem)

(* The last checkpoint is the process's state, but for an adoption that is  *)
(* not yet saved.                                                           *)
CheckpointCurrent ==
    pc \in Searching /\ ckpt # None =>
        /\ ckpt.model = mem.model
        /\ pc \notin {"adopted", "improved"} => ckpt.best = mem.rec
        /\ pc = "adopted" => ckpt.best = None
        /\ pc = "improved" /\ ckpt.best # None =>
               /\ cost[mem.rec][mem.model] > 0
               /\ cost[mem.rec][mem.model] < cost[ckpt.best][mem.model]
FinishSaved ==
    pc = "finished" => ckpt \in Checkpoint /\ ckpt.phase = "finished" /\ ckpt.life = life

(* best/accepted.json names the incumbent, and something that can execute.  *)
AcceptedCurrent ==
    /\ AcceptedExecutes
    /\ pc \in {"republish", "republish_last"} => CanExecute(mem.best)
    /\ (/\ pc \in Searching /\ mem.best # None
        /\ pc \in {"finish", "finished"} => CanExecute(mem.best))
           => accepted \in Bundle /\ accepted.sched = mem.rec

SearchInv == AtHand /\ UpToDate /\ CheckpointCurrent /\ FinishSaved /\ AcceptedCurrent

(* A result of a search that came to its end. *)
Ended(r) == r \in Result /\ r.stop \notin {"exception", "no_baseline"}
Final(r) ==
    /\ ckpt \in Checkpoint /\ ckpt.phase = "finished" /\ ckpt.life <= r.life
    /\ r.acceptance \in Kept => accepted \in Bundle /\ accepted.sched = ckpt.best

ResultInv ==
    /\ pc \in Finalizing => result \in Result /\ (Ended(result) => Final(result))
    /\ Ended(summary) => /\ Final(summary)
                         /\ pc = "down" \/ (pc \in Finalizing /\ result = summary)
    /\ Ended(meta.result) => summary = meta.result
    /\ \A r \in {result, summary, meta.result} :
           r # None /\ r.acceptance \in Kept => Ended(r)

(* How far the publication has come. *)
Exported == IF Export THEN accepted.sched ELSE None
PublishInv ==
    /\ pc \in Finalizing \ {"finalize"} => ~meta.complete
    /\ pc \in Finalizing \ {"finalize", "write_summary"} => summary = result
    /\ pc \in {"export_sidecar", "export_model", "write_metadata", "mark_complete"} =>
           files.xml = Exported
    /\ pc \in {"export_model", "write_metadata", "mark_complete"} =>
           files.sidecar = Exported
    /\ pc \in {"write_metadata", "mark_complete"} =>
           (Export => files.model = accepted.model)
    /\ pc = "mark_complete" => meta.result = result /\ meta.best = accepted
    /\ meta.complete => meta.result \in Result
    /\ meta.complete /\ Ended(meta.result) => meta.best = accepted
    /\ PublicationConsistent

WorkflowInv == Types /\ SearchInv /\ ResultInv /\ PublishInv

(* Whose summary run-summary.json is.  It is older than the finished search *)
(* only while the process that finished it has yet to write its own, or     *)
(* after that process died; and what is published is what is summarised.    *)
ReportInv ==
    /\ (/\ ckpt # None /\ ckpt.phase = "finished" /\ summary # None
        /\ summary.life < ckpt.life)
           => lost = ckpt.life \/ (pc \in Unreported /\ life = ckpt.life)
    /\ pc \in {"finalize", "write_summary"} =>
           \/ result.life = life
           \/ result = summary /\ ckpt # None /\ ckpt.life < life
    /\ meta.complete => summary = meta.result
-----------------------------------------------------------------------------
(* The places, one by one. *)
Doors == {"revalidate", "reload", "input", "synthesize", "calibrate", "baseline",
          "recover", "analyse", "act", "restale", "refine", "reassess"}
Rooms == {"revalidating", "reloading", "reading", "synthesizing", "calibrating",
          "assessing", "recovering", "analysing", "repairing", "restaling",
          "refining", "reassessing"}

LEMMA StageDoors ==
    /\ DOMAIN Stage = Doors
    /\ Stage["revalidate"] = "revalidating" /\ Stage["reload"] = "reloading"
    /\ Stage["input"] = "reading" /\ Stage["synthesize"] = "synthesizing"
    /\ Stage["calibrate"] = "calibrating" /\ Stage["baseline"] = "assessing"
    /\ Stage["recover"] = "recovering" /\ Stage["analyse"] = "analysing"
    /\ Stage["act"] = "repairing" /\ Stage["restale"] = "restaling"
    /\ Stage["refine"] = "refining" /\ Stage["reassess"] = "reassessing"
  BY DEF Stage, Doors

LEMMA StageRooms ==
    InStage = Rooms \cup {"revalidated", "republish", "reprop", "reprop_last",
                          "republish_last", "reassessed"}
<1>1. {Stage[p] : p \in DOMAIN Stage} = Rooms
  BY StageDoors DEF Doors, Rooms
<1> QED
  BY <1>1 DEF InStage

(* What the pieces of a step are. *)
LEMMA CheckFacts ==
    \A s \in Scheds, m \in MemType :
        Check(s, m) \in Bundle /\ Check(s, m).sched = s /\ Check(s, m).model = m.model
  BY DEF Check, Bundle, MemType

LEMMA WithCandidatesFacts ==
    \A m \in MemType, S \in SUBSET Bundle :
        /\ WithCandidates(m, S) \in MemType
        /\ WithCandidates(m, S).best = m.best /\ WithCandidates(m, S).rec = m.rec
        /\ WithCandidates(m, S).model = m.model
  BY DEF WithCandidates, MemType

LEMMA SnapshotFacts ==
    ASSUME life \in 1 .. MaxLives, NEW m \in MemType, NEW phase \in {"running", "finished"}
    PROVE  /\ Snapshot(phase, m) \in Checkpoint
           /\ Snapshot(phase, m).best = m.rec /\ Snapshot(phase, m).model = m.model
           /\ Snapshot(phase, m).phase = phase /\ Snapshot(phase, m).life = life
<1>1. {c.sched : c \in m.cands} \in SUBSET Scheds
  BY DEF MemType, Bundle
<1> DEFINE S == {c.sched : c \in m.cands}
<1> HIDE DEF S
<1>2. Snapshot(phase, m) =
         [phase |-> phase, best |-> m.rec, model |-> m.model, rounds |-> m.rounds,
          cands |-> S, calibrated |-> m.calibrated, life |-> life]
  BY DEF Snapshot, S
<1>3. S \in SUBSET Scheds
  BY <1>1 DEF S
<1> QED
  BY <1>2, <1>3 DEF Checkpoint, MemType

LEMMA AfterCandidatesFacts ==
    \A m : AfterCandidates(m) \in {"unqualified", "calibrate", "baseline"}
  BY Zenon DEF AfterCandidates

LEMMA AfterComparisonFacts ==
    \A m : /\ AfterComparison(m) \in {"reassess", "decide"}
           /\ AfterComparison(m) = "decide" => ~Stale(m.best, m) /\ ~Stale(prop, m)
  BY DEF AfterComparison

LEMMA AfterCalibrationFacts ==
    /\ pc = "refining" => \A m : AfterCalibration(m) = AfterComparison(m)
    /\ pc = "calibrating" => \A m : AfterCalibration(m) \in {"calibrated", "baseline"}
<1>1. ASSUME pc = "refining", NEW m PROVE AfterCalibration(m) = AfterComparison(m)
  BY <1>1, Zenon DEF AfterCalibration
<1>2. ASSUME pc = "calibrating", NEW m
      PROVE  AfterCalibration(m) \in {"calibrated", "baseline"}
  <2>1. pc # "refining"
    BY <1>2
  <2> QED
    BY <2>1, Zenon DEF AfterCalibration
<1> QED
  BY <1>1, <1>2

LEMMA TimeFacts ==
    ASSUME FixedTypes
    PROVE  \A b \in Bundle : Time(b) = cost[b.sched][b.model] /\ Time(b) \in Nat
  BY DEF FixedTypes, PredictionTables, Time, Bundle

(* The incumbent is set to b and nothing else changes. *)
LEMMA SetBest ==
    ASSUME NEW m \in MemType, NEW b \in Bundle
    PROVE  LET n == [m EXCEPT !.best = b]
           IN  n \in MemType /\ n.best = b /\ n.rec = m.rec /\ n.model = m.model
  BY DEF MemType

LEMMA RestoredFacts ==
    ASSUME Types, mem.rec \in Scheds
    PROVE  Restored \in Bundle /\ Restored.sched = mem.rec /\ Restored.model = mem.model
  BY CheckFacts DEF Types, ProcessTypes, Restored

LEMMA RevalidateEffect ==
    ASSUME Types, mem.rec \in Scheds, Revalidate \/ RevalidationFails
    PROVE  /\ mem' \in MemType /\ mem'.best = Restored
           /\ mem'.rec = mem.rec /\ mem'.model = mem.model
<1>1. mem' = [mem EXCEPT !.best = Restored]
  BY DEF Revalidate, RevalidationFails, Keep, Move
<1> QED
  BY <1>1, SetBest, RestoredFacts DEF Types, ProcessTypes

LEMMA AdoptEffect ==
    ASSUME Types, NEW c \in Bundle, NEW l, Adopt(c, l)
    PROVE  /\ mem' \in MemType /\ mem'.best = c /\ mem'.rec = c.sched
           /\ mem'.model = mem.model
<1>1. mem' = [mem EXCEPT !.best = c, !.rec = c.sched]
  BY DEF Adopt, Move
<1>2. mem \in MemType /\ c.sched \in Scheds
  BY DEF Types, ProcessTypes, Bundle
<1> QED
  BY <1>1, <1>2 DEF MemType

LEMMA CalibrationEffect ==
    ASSUME Types, Calibration
    PROVE  /\ mem' \in MemType /\ mem'.best = mem.best /\ mem'.rec = mem.rec
           /\ ckpt' = Snapshot("running", mem')
           /\ \/ pc = "calibrating" /\ pc' \in {"calibrated", "baseline", "cleanup"}
              \/ /\ pc = "refining" /\ pc' \in {"reassess", "decide", "cleanup"}
                 /\ pc' = "decide" => ~Stale(mem'.best, mem') /\ ~Stale(prop, mem')
           /\ UNCHANGED <<accepted, todo, props, prop, stop>>
<1>1. PICK v \in NewModels :
          LET m == [mem EXCEPT !.model = v, !.calibrated = TRUE]
          IN \E l \in {AfterCalibration(m), "cleanup"} : Saved(l, m)
  BY Zenon DEF Calibration
<1>2. mem' = [mem EXCEPT !.model = v, !.calibrated = TRUE]
  BY <1>1 DEF Saved, Keep, Move
<1>3. mem \in MemType /\ v \in Versions
  BY DEF Types, ProcessTypes, NewModels, MemType
<1>4. mem' \in MemType /\ mem'.best = mem.best /\ mem'.rec = mem.rec
  BY <1>2, <1>3 DEF MemType
<1>5. ckpt' = Snapshot("running", mem') /\ pc' \in {AfterCalibration(mem'), "cleanup"}
  BY <1>1, <1>2 DEF Saved, Keep, Move, Save
<1>6. UNCHANGED <<accepted, todo, props, prop, stop>>
  BY <1>1 DEF Saved, Keep, Move, round
<1>7. CASE pc = "calibrating"
  BY <1>4, <1>5, <1>6, <1>7, AfterCalibrationFacts
<1>8. CASE pc = "refining"
  BY <1>4, <1>5, <1>6, <1>8, AfterCalibrationFacts, AfterComparisonFacts
<1> QED
  BY <1>7, <1>8 DEF Calibration

LEMMA AssessEffect ==
    ASSUME Types, AssessCandidates
    PROVE  /\ mem' \in MemType /\ mem'.best = mem.best /\ mem'.rec = mem.rec
           /\ mem'.model = mem.model
<1> DEFINE S == {Check(c.sched, mem) : c \in mem.cands}
<1>1. mem \in MemType /\ \A c \in mem.cands : c.sched \in Scheds
  BY DEF Types, ProcessTypes, MemType, Bundle
<1>2. S \in SUBSET Bundle
  BY <1>1, CheckFacts
<1>3. mem' = WithCandidates(mem, S)
  BY DEF AssessCandidates, Saved, Keep, Move
<1> HIDE DEF S
<1> QED
  BY <1>1, <1>2, <1>3, WithCandidatesFacts

LEMMA StartRoundEffect ==
    ASSUME Types, StartRound
    PROVE  /\ mem' \in MemType /\ mem'.best = mem.best /\ mem'.rec = mem.rec
           /\ mem'.model = mem.model
<1>1. mem' = [mem EXCEPT !.rounds = @ + 1] /\ mem.rounds < MaxRounds
  BY DEF StartRound, Keep, Move
<1>2. mem \in MemType /\ mem.rounds + 1 \in 0 .. MaxRounds
  BY <1>1, WorkflowAssumption DEF Types, ProcessTypes, MemType
<1> QED
  BY <1>1, <1>2 DEF MemType

LEMMA ReassessBestEffect ==
    ASSUME Types, mem.best \in Bundle
    PROVE  /\ ReassessedBest \in Bundle /\ ReassessedBest.sched = mem.best.sched
           /\ ReassessedBest.model = mem.model
           /\ WithReassessedBest \in MemType
           /\ WithReassessedBest.best = ReassessedBest
           /\ WithReassessedBest.rec = mem.rec /\ WithReassessedBest.model = mem.model
<1>1. mem \in MemType /\ mem.best.sched \in Scheds
  BY DEF Types, ProcessTypes, Bundle
<1>2. /\ ReassessedBest \in Bundle /\ ReassessedBest.sched = mem.best.sched
      /\ ReassessedBest.model = mem.model
  BY <1>1, CheckFacts DEF ReassessedBest
<1> DEFINE n == [mem EXCEPT !.best = ReassessedBest]
<1>3. n \in MemType /\ n.best = ReassessedBest /\ n.rec = mem.rec /\ n.model = mem.model
  BY <1>1, <1>2, SetBest
<1> HIDE DEF n
<1>4. WithReassessedBest = WithCandidates(n, {ReassessedBest})
  BY DEF WithReassessedBest, n
<1>5. {ReassessedBest} \in SUBSET Bundle
  BY <1>2
<1> QED
  BY <1>2, <1>3, <1>4, <1>5, WithCandidatesFacts

LEMMA ReassessProposalEffect ==
    ASSUME Types, prop \in Bundle, ReassessProposal
    PROVE  /\ prop' \in Bundle /\ prop'.sched = prop.sched /\ prop'.model = mem.model
           /\ mem' \in MemType /\ mem'.best = mem.best /\ mem'.rec = mem.rec
           /\ mem'.model = mem.model /\ ckpt' = Snapshot("running", mem')
           /\ pc = "reprop" => pc' = "preliminary"
           /\ pc = "reprop_last" => IF CanExecute(mem.best) THEN pc' = "republish_last"
                                    ELSE pc' = "decide"
<1>1. mem \in MemType /\ prop.sched \in Scheds
  BY DEF Types, ProcessTypes, Bundle
<1>2. prop' \in Bundle /\ prop'.sched = prop.sched /\ prop'.model = mem.model
  BY <1>1, CheckFacts DEF ReassessProposal
<1>3. mem' = WithCandidates(mem, {prop'}) /\ ckpt' = Snapshot("running", mem')
  BY DEF ReassessProposal, Move, Save
<1>4. /\ mem' \in MemType /\ mem'.best = mem.best /\ mem'.rec = mem.rec
      /\ mem'.model = mem.model
  BY <1>1, <1>2, <1>3, WithCandidatesFacts
<1>5. pc = "reprop" => pc' = "preliminary"
  <2> SUFFICES ASSUME pc = "reprop" PROVE pc' = "preliminary"
    OBVIOUS
  <2>1. pc # "reprop_last"
    OBVIOUS
  <2> QED
    BY <2>1, Zenon DEF ReassessProposal, Move
<1>6. pc = "reprop_last" => IF CanExecute(mem.best) THEN pc' = "republish_last"
                            ELSE pc' = "decide"
  <2> SUFFICES ASSUME pc = "reprop_last"
               PROVE  IF CanExecute(mem.best) THEN pc' = "republish_last"
                      ELSE pc' = "decide"
    OBVIOUS
  <2>1. pc # "reprop"
    OBVIOUS
  <2> QED
    BY <2>1, Zenon DEF ReassessProposal, Move
<1> QED
  BY <1>2, <1>3, <1>4, <1>5, <1>6
-----------------------------------------------------------------------------
(* The steps of the search: those that leave the process searching. *)
SearchStep ==
    \/ OpenStage
    \/ SynthesisEnds
    \/ ReadInput
    \/ ReloadEnds
    \/ \E s \in Scheds : StoreInitial(s)
    \/ \E s \in Scheds : StoreRecovered(s)
    \/ Revalidate
    \/ RevalidationFails
    \/ CloseRevalidation
    \/ Calibration
    \/ AssessCandidates
    \/ NoBaseline
    \/ RecoveryEnds
    \/ \E c \in mem.cands : AdoptBaseline(c)
    \/ SaveAdopted
    \/ StartRound
    \/ MaximumRounds
    \/ Analyse
    \/ \E S \in SUBSET todo : Repair(S)
    \/ \E s \in todo : RepairFindsNothing(s)
    \/ \E s \in todo : ReloadCandidate(s)
    \/ \E p \in props : PickProposal(p)
    \/ ProposalsCompared
    \/ ReassessBest
    \/ ReassessProposal
    \/ Republish
    \/ CloseReassessment
    \/ Preliminary
    \/ AdoptImprovement
    \/ Refuse
    \/ ActionsTried
    \/ RoundOver
    \/ Finish
    \/ BudgetRaised
    \/ SemanticRaised

(* A step of the search touches nothing that is published. *)
Frame ==
    /\ pc \in Searching /\ pc' \in Searching
    /\ UNCHANGED <<cost, req, summary, meta, files, life, result, lost>>

LEMMA SearchFrame == Types /\ AtHand /\ SearchStep => Frame
<1> SUFFICES ASSUME Types, AtHand, SearchStep PROVE Frame
  OBVIOUS
<1> USE StageDoors, StageRooms, AfterCandidatesFacts, AfterComparisonFacts,
        AfterCalibrationFacts
    DEF Frame, Searching, Rooms, Doors, InRound, Comparing, fixed, published
<1>1. CASE OpenStage
  BY <1>1 DEF OpenStage, Saved, Keep, Move, Save
<1>2. CASE SynthesisEnds
  BY <1>2 DEF SynthesisEnds, Saved, Keep, Move, Save
<1>3. CASE ReadInput
  BY <1>3 DEF ReadInput, Saved, Keep, Move, Save
<1>4. CASE ReloadEnds
  BY <1>4 DEF ReloadEnds, Saved, Keep, Move, Save
<1>5. CASE \E s \in Scheds : StoreInitial(s)
  BY <1>5 DEF StoreInitial, Saved, Keep, Move, Save
<1>6. CASE \E s \in Scheds : StoreRecovered(s)
  BY <1>6 DEF StoreRecovered, Saved, Keep, Move, Save
<1>7. CASE Revalidate
  BY <1>7 DEF Revalidate, Restored, Keep, Move
<1>8. CASE RevalidationFails
  BY <1>8 DEF RevalidationFails, Restored, Move, Save
<1>9. CASE CloseRevalidation
  BY <1>9 DEF CloseRevalidation, AfterBaseline, Save
<1>10. CASE Calibration
  BY <1>10 DEF Calibration, NewModels, Saved, Keep, Move, Save
<1>11. CASE AssessCandidates
  BY <1>11 DEF AssessCandidates, Saved, Keep, Move, Save
<1>12. CASE NoBaseline
  BY <1>12 DEF NoBaseline, Quiet, Keep, Move
<1>13. CASE RecoveryEnds
  BY <1>13 DEF RecoveryEnds, Saved, Keep, Move, Save
<1>14. CASE \E c \in mem.cands : AdoptBaseline(c)
  BY <1>14 DEF AdoptBaseline, Adopt, Move
<1>15. CASE SaveAdopted
  BY <1>15 DEF SaveAdopted, AfterBaseline, Save
<1>16. CASE StartRound
  BY <1>16 DEF StartRound, Keep, Move
<1>17. CASE MaximumRounds
  BY <1>17 DEF MaximumRounds, Leave
<1>18. CASE Analyse
  BY <1>18 DEF Analyse, Leave, Save
<1>19. CASE \E S \in SUBSET todo : Repair(S)
  BY <1>19 DEF Repair, Move, Save
<1>20. CASE \E s \in todo : RepairFindsNothing(s)
  BY <1>20 DEF RepairFindsNothing, Move, Save
<1>21. CASE \E s \in todo : ReloadCandidate(s)
  BY <1>21 DEF ReloadCandidate, Move
<1>22. CASE \E p \in props : PickProposal(p)
  BY <1>22 DEF PickProposal, Move
<1>23. CASE ProposalsCompared
  BY <1>23 DEF ProposalsCompared, Quiet, Keep, Move
<1>24. CASE ReassessBest
  BY <1>24 DEF ReassessBest, WithReassessedBest, ReassessedBest, Quiet, Saved,
     Keep, Move, Save
<1>25. CASE ReassessProposal
  BY <1>25 DEF ReassessProposal, Move, Save
<1>26. CASE Republish
  BY <1>26 DEF Republish, Keep, Move
<1>27. CASE CloseReassessment
  BY <1>27 DEF CloseReassessment, Saved, Keep, Move, Save
<1>28. CASE Preliminary
  BY <1>28 DEF Preliminary, Quiet, Keep, Move
<1>29. CASE AdoptImprovement
  BY <1>29 DEF AdoptImprovement, Adopt, Move, AcceptCandidate
<1>30. CASE Refuse
  BY <1>30 DEF Refuse, Quiet, Keep, Move
<1>31. CASE ActionsTried
  BY <1>31 DEF ActionsTried, Quiet, Keep, Move
<1>32. CASE RoundOver
  BY <1>32 DEF RoundOver, Saved, Keep, Move, Save
<1>33. CASE Finish
  BY <1>33 DEF Finish, Keep, Move, Save
<1>34. CASE BudgetRaised
  BY <1>34 DEF BudgetRaised, Unwind, Acquiring, Leave, Save
<1>35. CASE SemanticRaised
  BY <1>35 DEF SemanticRaised, Unwind, Leave, Save
<1> QED
  BY <1>1, <1>2, <1>3, <1>4, <1>5, <1>6, <1>7, <1>8, <1>9, <1>10, <1>11,
     <1>12, <1>13, <1>14, <1>15, <1>16, <1>17, <1>18, <1>19, <1>20, <1>21,
     <1>22, <1>23, <1>24, <1>25, <1>26, <1>27, <1>28, <1>29, <1>30, <1>31,
     <1>32, <1>33, <1>34, <1>35 DEF SearchStep

LEMMA SearchTypes == Types /\ AtHand /\ SearchStep => Types'
<1> SUFFICES ASSUME Types, AtHand, SearchStep PROVE Types'
  OBVIOUS
<1>f. Frame
  BY SearchFrame
<1>c. \A s \in Scheds : /\ Check(s, mem) \in Bundle /\ Check(s, mem).sched = s
                        /\ Check(s, mem).model = mem.model
  BY CheckFacts DEF Types, ProcessTypes
<1>s. \A m \in MemType, phase \in {"running", "finished"} :
          /\ Snapshot(phase, m) \in Checkpoint /\ Snapshot(phase, m).best = m.rec
          /\ Snapshot(phase, m).model = m.model /\ Snapshot(phase, m).phase = phase
          /\ Snapshot(phase, m).life = life
  BY SnapshotFacts DEF Types, ProcessTypes
<1> USE WorkflowAssumption, NoneAssumption
<1>g. pc' \in Places /\ FixedTypes'
  BY <1>f DEF Frame, Places, Types, FixedTypes
<1> SUFFICES /\ mem' \in MemType /\ ckpt' \in Checkpoint \cup {None}
             /\ ckpt' # None => ckpt'.life <= life
             /\ accepted' \in Bundle \cup {None}
             /\ todo' \subseteq Scheds /\ props' \subseteq Bundle
             /\ prop' \in Bundle \cup {None} /\ stop' \in SearchStops \cup {None}
  BY <1>f, <1>g DEF Types, DurableTypes, ProcessTypes, Frame
<1> USE <1>c, <1>s, WithCandidatesFacts
    DEF Types, DurableTypes, ProcessTypes, AtHand, PreBaseline, WithIncumbent,
        WithProposal, Searching, InRound, Comparing, round, SearchStops, LimitReasons, ErrorReasons
<1>1. CASE OpenStage
  BY <1>1 DEF OpenStage, Saved, Keep, Move, Save
<1>2. CASE SynthesisEnds
  BY <1>2 DEF SynthesisEnds, Saved, Keep, Move, Save
<1>3. CASE ReadInput
  BY <1>3 DEF ReadInput, Saved, Keep, Move, Save
<1>4. CASE ReloadEnds
  BY <1>4 DEF ReloadEnds, Saved, Keep, Move, Save
<1>5. CASE \E s \in Scheds : StoreInitial(s)
  BY <1>5 DEF StoreInitial, Saved, Keep, Move, Save
<1>6. CASE \E s \in Scheds : StoreRecovered(s)
  BY <1>6 DEF StoreRecovered, Saved, Keep, Move, Save
<1>7. CASE Revalidate
  BY <1>7, RevalidateEffect, RestoredFacts DEF Revalidate, Keep, Move
<1>8. CASE RevalidationFails
  BY <1>8, RevalidateEffect DEF RevalidationFails, Move, Save
<1>9. CASE CloseRevalidation
  BY <1>9 DEF CloseRevalidation, AfterBaseline, Save
<1>10. CASE Calibration
  BY <1>10, CalibrationEffect
<1>11. CASE AssessCandidates
  BY <1>11, AssessEffect DEF AssessCandidates, Saved, Keep, Move, Save
<1>12. CASE NoBaseline
  BY <1>12 DEF NoBaseline, Quiet, Keep, Move
<1>13. CASE RecoveryEnds
  BY <1>13 DEF RecoveryEnds, Saved, Keep, Move, Save
<1>14. CASE \E c \in mem.cands : AdoptBaseline(c)
  <2>1. PICK c \in mem.cands : AdoptBaseline(c)
    BY <1>14
  <2>2. c \in Bundle
    BY DEF MemType
  <2>3. mem' \in MemType
    BY <2>1, <2>2, AdoptEffect DEF AdoptBaseline
  <2> QED
    BY <2>1, <2>2, <2>3 DEF AdoptBaseline, Adopt
<1>15. CASE SaveAdopted
  BY <1>15 DEF SaveAdopted, AfterBaseline, Save
<1>16. CASE StartRound
  BY <1>16, StartRoundEffect DEF StartRound, Keep, Move
<1>17. CASE MaximumRounds
  BY <1>17 DEF MaximumRounds, Leave
<1>18. CASE Analyse
  BY <1>18 DEF Analyse, Leave, Save
<1>19. CASE \E S \in SUBSET todo : Repair(S)
  BY <1>19 DEF Repair, Move, Save
<1>20. CASE \E s \in todo : RepairFindsNothing(s)
  BY <1>20 DEF RepairFindsNothing, Move, Save
<1>21. CASE \E s \in todo : ReloadCandidate(s)
  BY <1>21 DEF ReloadCandidate, Move
<1>22. CASE \E p \in props : PickProposal(p)
  BY <1>22 DEF PickProposal, Move
<1>23. CASE ProposalsCompared
  BY <1>23 DEF ProposalsCompared, Quiet, Keep, Move
<1>24. CASE ReassessBest
  BY <1>24, ReassessBestEffect
  DEF ReassessBest, Quiet, Saved, Keep, Move, Save
<1>25. CASE ReassessProposal
  BY <1>25, ReassessProposalEffect DEF ReassessProposal
<1>26. CASE Republish
  BY <1>26 DEF Republish, Keep, Move
<1>27. CASE CloseReassessment
  BY <1>27 DEF CloseReassessment, Saved, Keep, Move, Save
<1>28. CASE Preliminary
  BY <1>28 DEF Preliminary, Quiet, Keep, Move
<1>29. CASE AdoptImprovement
  <2>1. prop \in Bundle /\ Adopt(prop, "improved")
    BY <1>29 DEF AdoptImprovement
  <2>2. mem' \in MemType
    BY <2>1, AdoptEffect
  <2> QED
    BY <2>1, <2>2 DEF Adopt
<1>30. CASE Refuse
  BY <1>30 DEF Refuse, Quiet, Keep, Move
<1>31. CASE ActionsTried
  BY <1>31 DEF ActionsTried, Quiet, Keep, Move
<1>32. CASE RoundOver
  BY <1>32 DEF RoundOver, Saved, Keep, Move, Save
<1>33. CASE Finish
  BY <1>33 DEF Finish, Keep, Move, Save
<1>34. CASE BudgetRaised
  BY <1>34 DEF BudgetRaised, Unwind, Acquiring, Leave, Save
<1>35. CASE SemanticRaised
  BY <1>35 DEF SemanticRaised, Unwind, Leave, Save
<1> QED
  BY <1>1, <1>2, <1>3, <1>4, <1>5, <1>6, <1>7, <1>8, <1>9, <1>10, <1>11,
     <1>12, <1>13, <1>14, <1>15, <1>16, <1>17, <1>18, <1>19, <1>20, <1>21,
     <1>22, <1>23, <1>24, <1>25, <1>26, <1>27, <1>28, <1>29, <1>30, <1>31,
     <1>32, <1>33, <1>34, <1>35 DEF SearchStep

LEMMA SearchAtHand == Types /\ AtHand /\ SearchStep => AtHand'
<1> SUFFICES ASSUME Types, AtHand, SearchStep PROVE AtHand'
  OBVIOUS
<1>t. Types'
  BY SearchTypes
<1>c. \A s \in Scheds : /\ Check(s, mem) \in Bundle /\ Check(s, mem).sched = s
                        /\ Check(s, mem).model = mem.model
  BY CheckFacts DEF Types, ProcessTypes
<1>s. \A m \in MemType, phase \in {"running", "finished"} :
          /\ Snapshot(phase, m) \in Checkpoint /\ Snapshot(phase, m).best = m.rec
          /\ Snapshot(phase, m).model = m.model /\ Snapshot(phase, m).phase = phase
          /\ Snapshot(phase, m).life = life
  BY SnapshotFacts DEF Types, ProcessTypes
<1> USE WorkflowAssumption, NoneAssumption
<1> USE <1>t, <1>c, StageDoors, StageRooms, WithCandidatesFacts, AfterCandidatesFacts,
        AfterComparisonFacts
    DEF Types, ProcessTypes, AtHand, PreBaseline, WithIncumbent, WithProposal,
        InRound, Comparing, Doors, Rooms, round, SearchStops, LimitReasons,
        ErrorReasons
<1>1. CASE OpenStage
  BY <1>1 DEF OpenStage, Saved, Keep, Move, Save
<1>2. CASE SynthesisEnds
  BY <1>2 DEF SynthesisEnds, Saved, Keep, Move, Save
<1>3. CASE ReadInput
  BY <1>3 DEF ReadInput, Saved, Keep, Move, Save
<1>4. CASE ReloadEnds
  BY <1>4 DEF ReloadEnds, Saved, Keep, Move, Save
<1>5. CASE \E s \in Scheds : StoreInitial(s)
  BY <1>5 DEF StoreInitial, Saved, Keep, Move, Save
<1>6. CASE \E s \in Scheds : StoreRecovered(s)
  BY <1>6 DEF StoreRecovered, Saved, Keep, Move, Save
<1>7. CASE Revalidate
  BY <1>7, RevalidateEffect, RestoredFacts DEF Revalidate, Keep, Move
<1>8. CASE RevalidationFails
  BY <1>8, RevalidateEffect, RestoredFacts DEF RevalidationFails, Move, Save
<1>9. CASE CloseRevalidation
  BY <1>9 DEF CloseRevalidation, AfterBaseline, Save
<1>10. CASE Calibration
  BY <1>10, CalibrationEffect DEF Stale
<1>11. CASE AssessCandidates
  BY <1>11, AssessEffect DEF AssessCandidates, Saved, Keep, Move, Save
<1>12. CASE NoBaseline
  BY <1>12 DEF NoBaseline, Quiet, Keep, Move
<1>13. CASE RecoveryEnds
  BY <1>13 DEF RecoveryEnds, Saved, Keep, Move, Save
<1>14. CASE \E c \in mem.cands : AdoptBaseline(c)
  <2>1. PICK c \in mem.cands : AdoptBaseline(c)
    BY <1>14
  <2>2. c \in Bundle
    BY DEF MemType
  <2>3. mem' \in MemType /\ mem'.best = c /\ mem'.rec = c.sched /\ mem'.model = mem.model
    BY <2>1, <2>2, AdoptEffect DEF AdoptBaseline
  <2> QED
    BY <2>1, <2>2, <2>3 DEF AdoptBaseline, Adopt, Move
<1>15. CASE SaveAdopted
  BY <1>15 DEF SaveAdopted, AfterBaseline, Save
<1>16. CASE StartRound
  BY <1>16, StartRoundEffect DEF StartRound, Keep, Move
<1>17. CASE MaximumRounds
  BY <1>17 DEF MaximumRounds, Leave
<1>18. CASE Analyse
  BY <1>18 DEF Analyse, Leave, Save
<1>19. CASE \E S \in SUBSET todo : Repair(S)
  BY <1>19 DEF Repair, Move, Save
<1>20. CASE \E s \in todo : RepairFindsNothing(s)
  BY <1>20 DEF RepairFindsNothing, Move, Save
<1>21. CASE \E s \in todo : ReloadCandidate(s)
  BY <1>21 DEF ReloadCandidate, Move
<1>22. CASE \E p \in props : PickProposal(p)
  BY <1>22 DEF PickProposal, Move
<1>23. CASE ProposalsCompared
  BY <1>23 DEF ProposalsCompared, Quiet, Keep, Move
<1>24. CASE ReassessBest
  BY <1>24, ReassessBestEffect DEF ReassessBest, Quiet, Saved, Keep, Move, Save
<1>25. CASE ReassessProposal
  BY <1>25, ReassessProposalEffect DEF ReassessProposal, Move, Save
<1>26. CASE Republish
  BY <1>26 DEF Republish, Keep, Move
<1>27. CASE CloseReassessment
  BY <1>27 DEF CloseReassessment, Saved, Keep, Move, Save
<1>28. CASE Preliminary
  BY <1>28 DEF Preliminary, Quiet, Keep, Move
<1>29. CASE AdoptImprovement
  <2>1. prop \in Bundle /\ Adopt(prop, "improved")
    BY <1>29 DEF AdoptImprovement
  <2>2. /\ mem' \in MemType /\ mem'.best = prop /\ mem'.rec = prop.sched
        /\ mem'.model = mem.model
    BY <2>1, AdoptEffect
  <2> QED
    BY <1>29, <2>1, <2>2 DEF AdoptImprovement, Adopt, Move
<1>30. CASE Refuse
  BY <1>30 DEF Refuse, Quiet, Keep, Move
<1>31. CASE ActionsTried
  BY <1>31 DEF ActionsTried, Quiet, Keep, Move
<1>32. CASE RoundOver
  BY <1>32 DEF RoundOver, Saved, Keep, Move, Save
<1>33. CASE Finish
  BY <1>33 DEF Finish, Keep, Move, Save
<1>34. CASE BudgetRaised
  BY <1>34 DEF BudgetRaised, Unwind, Acquiring, Leave, Save
<1>35. CASE SemanticRaised
  BY <1>35 DEF SemanticRaised, Unwind, Leave, Save
<1> QED
  BY <1>1, <1>2, <1>3, <1>4, <1>5, <1>6, <1>7, <1>8, <1>9, <1>10, <1>11,
     <1>12, <1>13, <1>14, <1>15, <1>16, <1>17, <1>18, <1>19, <1>20, <1>21,
     <1>22, <1>23, <1>24, <1>25, <1>26, <1>27, <1>28, <1>29, <1>30, <1>31,
     <1>32, <1>33, <1>34, <1>35 DEF SearchStep

LEMMA SearchUpToDate == Types /\ AtHand /\ UpToDate /\ SearchStep => UpToDate'
<1> SUFFICES ASSUME Types, AtHand, UpToDate, SearchStep PROVE UpToDate'
  OBVIOUS
<1>c. \A s \in Scheds : /\ Check(s, mem) \in Bundle /\ Check(s, mem).sched = s
                        /\ Check(s, mem).model = mem.model
  BY CheckFacts DEF Types, ProcessTypes
<1>s. \A m \in MemType, phase \in {"running", "finished"} :
          /\ Snapshot(phase, m) \in Checkpoint /\ Snapshot(phase, m).best = m.rec
          /\ Snapshot(phase, m).model = m.model /\ Snapshot(phase, m).phase = phase
          /\ Snapshot(phase, m).life = life
  BY SnapshotFacts DEF Types, ProcessTypes
<1> USE WorkflowAssumption, NoneAssumption
<1> USE <1>c, StageDoors, WithCandidatesFacts, AfterCandidatesFacts,
        AfterComparisonFacts
    DEF Types, ProcessTypes, AtHand, UpToDate, Stale, WithIncumbent, WithProposal,
        InRound, Comparing, Doors, round
<1>1. CASE OpenStage
  BY <1>1 DEF OpenStage, Saved, Keep, Move, Save
<1>2. CASE SynthesisEnds
  BY <1>2 DEF SynthesisEnds, Saved, Keep, Move, Save
<1>3. CASE ReadInput
  BY <1>3 DEF ReadInput, Saved, Keep, Move, Save
<1>4. CASE ReloadEnds
  BY <1>4 DEF ReloadEnds, Saved, Keep, Move, Save
<1>5. CASE \E s \in Scheds : StoreInitial(s)
  BY <1>5 DEF StoreInitial, Saved, Keep, Move, Save
<1>6. CASE \E s \in Scheds : StoreRecovered(s)
  BY <1>6 DEF StoreRecovered, Saved, Keep, Move, Save
<1>7. CASE Revalidate
  BY <1>7, RevalidateEffect, RestoredFacts DEF Revalidate, Keep, Move
<1>8. CASE RevalidationFails
  BY <1>8, RevalidateEffect, RestoredFacts DEF RevalidationFails, Move, Save
<1>9. CASE CloseRevalidation
  BY <1>9 DEF CloseRevalidation, AfterBaseline, Save
<1>10. CASE Calibration
  BY <1>10, CalibrationEffect DEF Stale
<1>11. CASE AssessCandidates
  BY <1>11, AssessEffect DEF AssessCandidates, Saved, Keep, Move, Save
<1>12. CASE NoBaseline
  BY <1>12 DEF NoBaseline, Quiet, Keep, Move
<1>13. CASE RecoveryEnds
  BY <1>13 DEF RecoveryEnds, Saved, Keep, Move, Save
<1>14. CASE \E c \in mem.cands : AdoptBaseline(c)
  <2>1. PICK c \in mem.cands : AdoptBaseline(c)
    BY <1>14
  <2>2. c \in Bundle
    BY DEF MemType
  <2>3. mem' \in MemType /\ mem'.best = c /\ mem'.rec = c.sched /\ mem'.model = mem.model
    BY <2>1, <2>2, AdoptEffect DEF AdoptBaseline
  <2> QED
    BY <2>1, <2>2, <2>3 DEF AdoptBaseline, Adopt, Move
<1>15. CASE SaveAdopted
  BY <1>15 DEF SaveAdopted, AfterBaseline, Save
<1>16. CASE StartRound
  BY <1>16, StartRoundEffect DEF StartRound, Keep, Move
<1>17. CASE MaximumRounds
  BY <1>17 DEF MaximumRounds, Leave
<1>18. CASE Analyse
  BY <1>18 DEF Analyse, Leave, Save
<1>19. CASE \E S \in SUBSET todo : Repair(S)
  BY <1>19 DEF Repair, Move, Save
<1>20. CASE \E s \in todo : RepairFindsNothing(s)
  BY <1>20 DEF RepairFindsNothing, Move, Save
<1>21. CASE \E s \in todo : ReloadCandidate(s)
  BY <1>21 DEF ReloadCandidate, Move
<1>22. CASE \E p \in props : PickProposal(p)
  BY <1>22 DEF PickProposal, Move
<1>23. CASE ProposalsCompared
  BY <1>23 DEF ProposalsCompared, Quiet, Keep, Move
<1>24. CASE ReassessBest
  BY <1>24, ReassessBestEffect DEF ReassessBest, Quiet, Saved, Keep, Move, Save
<1>25. CASE ReassessProposal
  BY <1>25, ReassessProposalEffect DEF ReassessProposal, Move, Save
<1>26. CASE Republish
  BY <1>26 DEF Republish, Keep, Move
<1>27. CASE CloseReassessment
  BY <1>27 DEF CloseReassessment, Saved, Keep, Move, Save
<1>28. CASE Preliminary
  BY <1>28 DEF Preliminary, Quiet, Keep, Move
<1>29. CASE AdoptImprovement
  <2>1. prop \in Bundle /\ Adopt(prop, "improved")
    BY <1>29 DEF AdoptImprovement
  <2>2. /\ mem' \in MemType /\ mem'.best = prop /\ mem'.rec = prop.sched
        /\ mem'.model = mem.model
    BY <2>1, AdoptEffect
  <2> QED
    BY <1>29, <2>1, <2>2 DEF AdoptImprovement, Adopt, Move
<1>30. CASE Refuse
  BY <1>30 DEF Refuse, Quiet, Keep, Move
<1>31. CASE ActionsTried
  BY <1>31 DEF ActionsTried, Quiet, Keep, Move
<1>32. CASE RoundOver
  BY <1>32 DEF RoundOver, Saved, Keep, Move, Save
<1>33. CASE Finish
  BY <1>33 DEF Finish, Keep, Move, Save
<1>34. CASE BudgetRaised
  BY <1>34 DEF BudgetRaised, Unwind, Acquiring, Leave, Save
<1>35. CASE SemanticRaised
  BY <1>35 DEF SemanticRaised, Unwind, Leave, Save
<1> QED
  BY <1>1, <1>2, <1>3, <1>4, <1>5, <1>6, <1>7, <1>8, <1>9, <1>10, <1>11,
     <1>12, <1>13, <1>14, <1>15, <1>16, <1>17, <1>18, <1>19, <1>20, <1>21,
     <1>22, <1>23, <1>24, <1>25, <1>26, <1>27, <1>28, <1>29, <1>30, <1>31,
     <1>32, <1>33, <1>34, <1>35 DEF SearchStep

LEMMA SearchCheckpoint ==
    Types /\ AtHand /\ UpToDate /\ CheckpointCurrent /\ FinishSaved /\ SearchStep
        => CheckpointCurrent' /\ FinishSaved'
<1> SUFFICES ASSUME Types, AtHand, UpToDate, CheckpointCurrent, FinishSaved, SearchStep
             PROVE  CheckpointCurrent' /\ FinishSaved'
  OBVIOUS
<1>f. Frame
  BY SearchFrame
<1>c. \A s \in Scheds : /\ Check(s, mem) \in Bundle /\ Check(s, mem).sched = s
                        /\ Check(s, mem).model = mem.model
  BY CheckFacts DEF Types, ProcessTypes
<1>s. \A m \in MemType, phase \in {"running", "finished"} :
          /\ Snapshot(phase, m) \in Checkpoint /\ Snapshot(phase, m).best = m.rec
          /\ Snapshot(phase, m).model = m.model /\ Snapshot(phase, m).phase = phase
          /\ Snapshot(phase, m).life = life
  BY SnapshotFacts DEF Types, ProcessTypes
<1> USE WorkflowAssumption, NoneAssumption
<1> USE <1>f, <1>c, <1>s, StageDoors, StageRooms, WithCandidatesFacts, AfterCandidatesFacts,
        AfterComparisonFacts
    DEF Types, DurableTypes, ProcessTypes, AtHand, UpToDate, CheckpointCurrent,
        FinishSaved, Stale, PreBaseline, WithIncumbent, WithProposal, InRound,
        Comparing, Doors, Rooms, Frame, round
<1>1. CASE OpenStage
  BY <1>1 DEF OpenStage, Saved, Keep, Move, Save
<1>2. CASE SynthesisEnds
  BY <1>2 DEF SynthesisEnds, Saved, Keep, Move, Save
<1>3. CASE ReadInput
  BY <1>3 DEF ReadInput, Saved, Keep, Move, Save
<1>4. CASE ReloadEnds
  BY <1>4 DEF ReloadEnds, Saved, Keep, Move, Save
<1>5. CASE \E s \in Scheds : StoreInitial(s)
  BY <1>5 DEF StoreInitial, Saved, Keep, Move, Save
<1>6. CASE \E s \in Scheds : StoreRecovered(s)
  BY <1>6 DEF StoreRecovered, Saved, Keep, Move, Save
<1>7. CASE Revalidate
  BY <1>7, RevalidateEffect, RestoredFacts DEF Revalidate, Keep, Move
<1>8. CASE RevalidationFails
  <2>1. mem.rec \in Scheds
    BY <1>8 DEF RevalidationFails
  <2>2. mem' \in MemType /\ mem'.rec = mem.rec /\ mem'.model = mem.model
    BY <1>8, <2>1, RevalidateEffect
  <2>3. pc' = "finish" /\ ckpt' = Snapshot("running", mem')
    BY <1>8 DEF RevalidationFails, Move, Save
  <2>4. ckpt'.model = mem'.model /\ ckpt'.best = mem'.rec
    BY <2>2, <2>3
  <2> QED
    BY <2>3, <2>4
<1>9. CASE CloseRevalidation
  BY <1>9 DEF CloseRevalidation, AfterBaseline, Save
<1>10. CASE Calibration
  BY <1>10, CalibrationEffect DEF Stale
<1>11. CASE AssessCandidates
  BY <1>11, AssessEffect DEF AssessCandidates, Saved, Keep, Move, Save
<1>12. CASE NoBaseline
  BY <1>12 DEF NoBaseline, Quiet, Keep, Move
<1>13. CASE RecoveryEnds
  BY <1>13 DEF RecoveryEnds, Saved, Keep, Move, Save
<1>14. CASE \E c \in mem.cands : AdoptBaseline(c)
  <2>1. PICK c \in mem.cands : AdoptBaseline(c)
    BY <1>14
  <2>2. c \in Bundle
    BY DEF MemType
  <2>3. mem' \in MemType /\ mem'.best = c /\ mem'.rec = c.sched /\ mem'.model = mem.model
    BY <2>1, <2>2, AdoptEffect DEF AdoptBaseline
  <2> QED
    BY <2>1, <2>2, <2>3 DEF AdoptBaseline, Adopt, Move, AcceptCandidate, CanExecute, Time
<1>15. CASE SaveAdopted
  BY <1>15 DEF SaveAdopted, AfterBaseline, Save
<1>16. CASE StartRound
  BY <1>16, StartRoundEffect DEF StartRound, Keep, Move
<1>17. CASE MaximumRounds
  BY <1>17 DEF MaximumRounds, Leave
<1>18. CASE Analyse
  BY <1>18 DEF Analyse, Leave, Save
<1>19. CASE \E S \in SUBSET todo : Repair(S)
  BY <1>19 DEF Repair, Move, Save
<1>20. CASE \E s \in todo : RepairFindsNothing(s)
  BY <1>20 DEF RepairFindsNothing, Move, Save
<1>21. CASE \E s \in todo : ReloadCandidate(s)
  BY <1>21 DEF ReloadCandidate, Move
<1>22. CASE \E p \in props : PickProposal(p)
  BY <1>22 DEF PickProposal, Move
<1>23. CASE ProposalsCompared
  BY <1>23 DEF ProposalsCompared, Quiet, Keep, Move
<1>24. CASE ReassessBest
  BY <1>24, ReassessBestEffect DEF ReassessBest, Quiet, Saved, Keep, Move, Save
<1>25. CASE ReassessProposal
  BY <1>25, ReassessProposalEffect DEF ReassessProposal, Move, Save
<1>26. CASE Republish
  BY <1>26 DEF Republish, Keep, Move
<1>27. CASE CloseReassessment
  BY <1>27 DEF CloseReassessment, Saved, Keep, Move, Save
<1>28. CASE Preliminary
  BY <1>28 DEF Preliminary, Quiet, Keep, Move
<1>29. CASE AdoptImprovement
  <2>1. prop \in Bundle /\ Adopt(prop, "improved")
    BY <1>29 DEF AdoptImprovement
  <2>2. /\ mem' \in MemType /\ mem'.best = prop /\ mem'.rec = prop.sched
        /\ mem'.model = mem.model
    BY <2>1, AdoptEffect
  <2> QED
    BY <1>29, <2>1, <2>2 DEF AdoptImprovement, Adopt, Move, AcceptCandidate, CanExecute, Time
<1>30. CASE Refuse
  BY <1>30 DEF Refuse, Quiet, Keep, Move
<1>31. CASE ActionsTried
  BY <1>31 DEF ActionsTried, Quiet, Keep, Move
<1>32. CASE RoundOver
  BY <1>32 DEF RoundOver, Saved, Keep, Move, Save
<1>33. CASE Finish
  BY <1>33 DEF Finish, Keep, Move, Save
<1>34. CASE BudgetRaised
  BY <1>34 DEF BudgetRaised, Unwind, Acquiring, Leave, Save
<1>35. CASE SemanticRaised
  BY <1>35 DEF SemanticRaised, Unwind, Leave, Save
<1> QED
  BY <1>1, <1>2, <1>3, <1>4, <1>5, <1>6, <1>7, <1>8, <1>9, <1>10, <1>11,
     <1>12, <1>13, <1>14, <1>15, <1>16, <1>17, <1>18, <1>19, <1>20, <1>21,
     <1>22, <1>23, <1>24, <1>25, <1>26, <1>27, <1>28, <1>29, <1>30, <1>31,
     <1>32, <1>33, <1>34, <1>35 DEF SearchStep

LEMMA SearchAccepted ==
    Types /\ AtHand /\ UpToDate /\ AcceptedCurrent /\ SearchStep => AcceptedCurrent'
<1> SUFFICES ASSUME Types, AtHand, UpToDate, AcceptedCurrent, SearchStep
             PROVE  AcceptedCurrent'
  OBVIOUS
<1>f. Frame
  BY SearchFrame
<1>c. \A s \in Scheds : /\ Check(s, mem) \in Bundle /\ Check(s, mem).sched = s
                        /\ Check(s, mem).model = mem.model
  BY CheckFacts DEF Types, ProcessTypes
<1>s. \A m \in MemType, phase \in {"running", "finished"} :
          /\ Snapshot(phase, m) \in Checkpoint /\ Snapshot(phase, m).best = m.rec
          /\ Snapshot(phase, m).model = m.model /\ Snapshot(phase, m).phase = phase
          /\ Snapshot(phase, m).life = life
  BY SnapshotFacts DEF Types, ProcessTypes
<1> USE WorkflowAssumption, NoneAssumption
<1> USE <1>f, <1>c, StageDoors, StageRooms, WithCandidatesFacts, AfterCandidatesFacts,
        AfterComparisonFacts
    DEF Types, DurableTypes, ProcessTypes, AtHand, UpToDate, AcceptedCurrent,
        AcceptedExecutes, CanExecute, Time, Stale, PreBaseline, WithIncumbent,
        WithProposal, InRound, Comparing, Doors, Rooms, Frame, round
<1>1. CASE OpenStage
  BY <1>1 DEF OpenStage, Saved, Keep, Move, Save
<1>2. CASE SynthesisEnds
  BY <1>2 DEF SynthesisEnds, Saved, Keep, Move, Save
<1>3. CASE ReadInput
  BY <1>3 DEF ReadInput, Saved, Keep, Move, Save
<1>4. CASE ReloadEnds
  BY <1>4 DEF ReloadEnds, Saved, Keep, Move, Save
<1>5. CASE \E s \in Scheds : StoreInitial(s)
  BY <1>5 DEF StoreInitial, Saved, Keep, Move, Save
<1>6. CASE \E s \in Scheds : StoreRecovered(s)
  BY <1>6 DEF StoreRecovered, Saved, Keep, Move, Save
<1>7. CASE Revalidate
  BY <1>7, RevalidateEffect, RestoredFacts DEF Revalidate, Keep, Move
<1>8. CASE RevalidationFails
  BY <1>8, RevalidateEffect, RestoredFacts DEF RevalidationFails, Move, Save
<1>9. CASE CloseRevalidation
  BY <1>9 DEF CloseRevalidation, AfterBaseline, Save
<1>10. CASE Calibration
  BY <1>10, CalibrationEffect DEF Stale
<1>11. CASE AssessCandidates
  BY <1>11, AssessEffect DEF AssessCandidates, Saved, Keep, Move, Save
<1>12. CASE NoBaseline
  BY <1>12 DEF NoBaseline, Quiet, Keep, Move
<1>13. CASE RecoveryEnds
  BY <1>13 DEF RecoveryEnds, Saved, Keep, Move, Save
<1>14. CASE \E c \in mem.cands : AdoptBaseline(c)
  <2>1. PICK c \in mem.cands : AdoptBaseline(c)
    BY <1>14
  <2>2. c \in Bundle
    BY DEF MemType
  <2>3. mem' \in MemType /\ mem'.best = c /\ mem'.rec = c.sched /\ mem'.model = mem.model
    BY <2>1, <2>2, AdoptEffect DEF AdoptBaseline
  <2> QED
    BY <2>1, <2>2, <2>3 DEF AdoptBaseline, Adopt, Move, AcceptCandidate
<1>15. CASE SaveAdopted
  BY <1>15 DEF SaveAdopted, AfterBaseline, Save
<1>16. CASE StartRound
  BY <1>16, StartRoundEffect DEF StartRound, Keep, Move
<1>17. CASE MaximumRounds
  BY <1>17 DEF MaximumRounds, Leave
<1>18. CASE Analyse
  BY <1>18 DEF Analyse, Leave, Save
<1>19. CASE \E S \in SUBSET todo : Repair(S)
  BY <1>19 DEF Repair, Move, Save
<1>20. CASE \E s \in todo : RepairFindsNothing(s)
  BY <1>20 DEF RepairFindsNothing, Move, Save
<1>21. CASE \E s \in todo : ReloadCandidate(s)
  BY <1>21 DEF ReloadCandidate, Move
<1>22. CASE \E p \in props : PickProposal(p)
  BY <1>22 DEF PickProposal, Move
<1>23. CASE ProposalsCompared
  BY <1>23 DEF ProposalsCompared, Quiet, Keep, Move
<1>24. CASE ReassessBest
  BY <1>24, ReassessBestEffect DEF ReassessBest, Quiet, Saved, Keep, Move, Save
<1>25. CASE ReassessProposal
  BY <1>25, ReassessProposalEffect DEF ReassessProposal, Move, Save
<1>26. CASE Republish
  BY <1>26 DEF Republish, Keep, Move
<1>27. CASE CloseReassessment
  BY <1>27 DEF CloseReassessment, Saved, Keep, Move, Save
<1>28. CASE Preliminary
  BY <1>28 DEF Preliminary, Quiet, Keep, Move
<1>29. CASE AdoptImprovement
  <2>1. prop \in Bundle /\ Adopt(prop, "improved")
    BY <1>29 DEF AdoptImprovement
  <2>2. /\ mem' \in MemType /\ mem'.best = prop /\ mem'.rec = prop.sched
        /\ mem'.model = mem.model
    BY <2>1, AdoptEffect
  <2> QED
    BY <1>29, <2>1, <2>2 DEF AdoptImprovement, Adopt, Move, AcceptCandidate
<1>30. CASE Refuse
  BY <1>30 DEF Refuse, Quiet, Keep, Move
<1>31. CASE ActionsTried
  BY <1>31 DEF ActionsTried, Quiet, Keep, Move
<1>32. CASE RoundOver
  BY <1>32 DEF RoundOver, Saved, Keep, Move, Save
<1>33. CASE Finish
  BY <1>33 DEF Finish, Keep, Move, Save
<1>34. CASE BudgetRaised
  BY <1>34 DEF BudgetRaised, Unwind, Acquiring, Leave, Save
<1>35. CASE SemanticRaised
  BY <1>35 DEF SemanticRaised, Unwind, Leave, Save
<1> QED
  BY <1>1, <1>2, <1>3, <1>4, <1>5, <1>6, <1>7, <1>8, <1>9, <1>10, <1>11,
     <1>12, <1>13, <1>14, <1>15, <1>16, <1>17, <1>18, <1>19, <1>20, <1>21,
     <1>22, <1>23, <1>24, <1>25, <1>26, <1>27, <1>28, <1>29, <1>30, <1>31,
     <1>32, <1>33, <1>34, <1>35 DEF SearchStep

(* A step of the search either leaves the checkpoint alone or saves the     *)
(* incumbent the process had before it: adopt() saves in a step of its own. *)
(* Only the last checkpoint of the search says that it is finished.         *)
LEMMA SearchSaves ==
    Types /\ AtHand /\ SearchStep =>
        /\ pc \in Searching \ {"finished"}
        /\ \/ ckpt' = ckpt
           \/ /\ ckpt'.best = mem.rec
              /\ ckpt'.phase = "finished" => pc' = "finished" /\ ckpt'.life = life
<1> SUFFICES ASSUME Types, AtHand, SearchStep
             PROVE  /\ pc # "finished"
                    /\ \/ ckpt' = ckpt
                       \/ /\ ckpt'.best = mem.rec
                          /\ ckpt'.phase = "finished" => pc' = "finished" /\ ckpt'.life = life
  BY SearchFrame DEF Frame
<1>c. \A s \in Scheds : /\ Check(s, mem) \in Bundle /\ Check(s, mem).sched = s
                        /\ Check(s, mem).model = mem.model
  BY CheckFacts DEF Types, ProcessTypes
<1>s. \A m \in MemType, phase \in {"running", "finished"} :
          /\ Snapshot(phase, m) \in Checkpoint /\ Snapshot(phase, m).best = m.rec
          /\ Snapshot(phase, m).model = m.model /\ Snapshot(phase, m).phase = phase
          /\ Snapshot(phase, m).life = life
  BY SnapshotFacts DEF Types, ProcessTypes
<1> USE WorkflowAssumption, NoneAssumption
<1> USE <1>c, <1>s, WithCandidatesFacts
    DEF Types, DurableTypes, ProcessTypes, AtHand, WithIncumbent, WithProposal, InRound,
        Comparing
<1>1. CASE OpenStage
  BY <1>1, StageDoors DEF Doors, OpenStage, Saved, Keep, Move, Save
<1>2. CASE SynthesisEnds
  BY <1>2 DEF SynthesisEnds, Saved, Keep, Move, Save
<1>3. CASE ReadInput
  BY <1>3 DEF ReadInput, Saved, Keep, Move, Save
<1>4. CASE ReloadEnds
  BY <1>4 DEF ReloadEnds, Saved, Keep, Move, Save
<1>5. CASE \E s \in Scheds : StoreInitial(s)
  BY <1>5 DEF StoreInitial, Saved, Keep, Move, Save
<1>6. CASE \E s \in Scheds : StoreRecovered(s)
  BY <1>6 DEF StoreRecovered, Saved, Keep, Move, Save
<1>7. CASE Revalidate
  BY <1>7, RevalidateEffect, RestoredFacts DEF Revalidate, Keep, Move
<1>8. CASE RevalidationFails
  BY <1>8, RevalidateEffect, RestoredFacts DEF RevalidationFails, Move, Save
<1>9. CASE CloseRevalidation
  BY <1>9 DEF CloseRevalidation, AfterBaseline, Save
<1>10. CASE Calibration
  BY <1>10, CalibrationEffect DEF Stale
<1>11. CASE AssessCandidates
  BY <1>11, AssessEffect DEF AssessCandidates, Saved, Keep, Move, Save
<1>12. CASE NoBaseline
  BY <1>12 DEF NoBaseline, Quiet, Keep, Move
<1>13. CASE RecoveryEnds
  BY <1>13 DEF RecoveryEnds, Saved, Keep, Move, Save
<1>14. CASE \E c \in mem.cands : AdoptBaseline(c)
  <2>1. PICK c \in mem.cands : AdoptBaseline(c)
    BY <1>14
  <2>2. c \in Bundle
    BY DEF MemType
  <2>3. mem' \in MemType /\ mem'.best = c /\ mem'.rec = c.sched /\ mem'.model = mem.model
    BY <2>1, <2>2, AdoptEffect DEF AdoptBaseline
  <2> QED
    BY <2>1, <2>2, <2>3 DEF AdoptBaseline, Adopt, Move
<1>15. CASE SaveAdopted
  BY <1>15 DEF SaveAdopted, AfterBaseline, Save
<1>16. CASE StartRound
  BY <1>16, StartRoundEffect DEF StartRound, Keep, Move
<1>17. CASE MaximumRounds
  BY <1>17 DEF MaximumRounds, Leave
<1>18. CASE Analyse
  BY <1>18 DEF Analyse, Leave, Save
<1>19. CASE \E S \in SUBSET todo : Repair(S)
  BY <1>19 DEF Repair, Move, Save
<1>20. CASE \E s \in todo : RepairFindsNothing(s)
  BY <1>20 DEF RepairFindsNothing, Move, Save
<1>21. CASE \E s \in todo : ReloadCandidate(s)
  BY <1>21 DEF ReloadCandidate, Move
<1>22. CASE \E p \in props : PickProposal(p)
  BY <1>22 DEF PickProposal, Move
<1>23. CASE ProposalsCompared
  BY <1>23 DEF ProposalsCompared, Quiet, Keep, Move
<1>24. CASE ReassessBest
  BY <1>24, ReassessBestEffect DEF ReassessBest, Quiet, Saved, Keep, Move, Save
<1>25. CASE ReassessProposal
  BY <1>25, ReassessProposalEffect DEF ReassessProposal, Move, Save
<1>26. CASE Republish
  BY <1>26 DEF Republish, Keep, Move
<1>27. CASE CloseReassessment
  BY <1>27 DEF CloseReassessment, Saved, Keep, Move, Save
<1>28. CASE Preliminary
  BY <1>28 DEF Preliminary, Quiet, Keep, Move
<1>29. CASE AdoptImprovement
  <2>1. prop \in Bundle /\ Adopt(prop, "improved")
    BY <1>29 DEF AdoptImprovement
  <2>2. /\ mem' \in MemType /\ mem'.best = prop /\ mem'.rec = prop.sched
        /\ mem'.model = mem.model
    BY <2>1, AdoptEffect
  <2> QED
    BY <1>29, <2>1, <2>2 DEF AdoptImprovement, Adopt, Move
<1>30. CASE Refuse
  BY <1>30 DEF Refuse, Quiet, Keep, Move
<1>31. CASE ActionsTried
  BY <1>31 DEF ActionsTried, Quiet, Keep, Move
<1>32. CASE RoundOver
  BY <1>32 DEF RoundOver, Saved, Keep, Move, Save
<1>33. CASE Finish
  BY <1>33 DEF Finish, Keep, Move, Save
<1>34. CASE BudgetRaised
  BY <1>34, StageDoors, StageRooms DEF Doors, Rooms, BudgetRaised, Unwind, Acquiring, Leave, Save
<1>35. CASE SemanticRaised
  BY <1>35, StageDoors, StageRooms DEF Doors, Rooms, SemanticRaised, Unwind, Leave, Save
<1> QED
  BY <1>1, <1>2, <1>3, <1>4, <1>5, <1>6, <1>7, <1>8, <1>9, <1>10, <1>11,
     <1>12, <1>13, <1>14, <1>15, <1>16, <1>17, <1>18, <1>19, <1>20, <1>21,
     <1>22, <1>23, <1>24, <1>25, <1>26, <1>27, <1>28, <1>29, <1>30, <1>31,
     <1>32, <1>33, <1>34, <1>35 DEF SearchStep
-----------------------------------------------------------------------------
(* The end of the search and the publication. *)
LEMMA PlaceFacts ==
    /\ Finalizing \cap Searching = {} /\ "down" \notin Searching
    /\ "down" \notin Finalizing /\ "finalize" \in Finalizing
    /\ {"finished", "calibrated", "cleanup", "unqualified"} \subseteq Searching
    /\ Finalizing \subseteq Places /\ "down" \in Places /\ Searching \subseteq Places
  BY StageDoors, StageRooms
     DEF Finalizing, Searching, Places, Rooms, Doors, InRound, Comparing

(* While a process searches no ended search is summarised. *)
LEMMA NothingEnded ==
    ASSUME ResultInv, pc \in Searching
    PROVE  ~Ended(summary) /\ ~Ended(meta.result)
<1>1. ~Ended(summary)
  BY PlaceFacts DEF ResultInv
<1> QED
  BY <1>1 DEF ResultInv

LEMMA SearchPublishes ==
    Types /\ ResultInv /\ PublishInv /\ Frame => ResultInv' /\ PublishInv'
<1> SUFFICES ASSUME Types, ResultInv, PublishInv, Frame
             PROVE  ResultInv' /\ PublishInv'
  OBVIOUS
<1>1. /\ pc' \in Searching /\ summary' = summary /\ meta' = meta /\ files' = files
      /\ result' = result /\ pc \in Searching
  BY DEF Frame
<1>2. ~Ended(summary) /\ ~Ended(meta.result)
  BY <1>1, NothingEnded
<1>3. pc' \notin Finalizing
  BY <1>1, PlaceFacts
<1>4. ResultInv'
  BY <1>1, <1>2, <1>3 DEF ResultInv, Ended
<1>5. PublishInv'
  BY <1>1, <1>2, <1>3 DEF PublishInv, Ended, PublicationConsistent, Finalizing
<1> QED
  BY <1>4, <1>5

(* Out of the search only the incumbent and accepted.json matter. *)
LEMMA OutOfSearch ==
    ASSUME SearchInv, pc' \in Finalizing \cup {"down"}, accepted' = accepted, cost' = cost,
           mem' = mem \/ mem'.best = None
    PROVE  SearchInv'
<1>1. pc' \notin Searching
  BY PlaceFacts
<1>2. /\ pc' \notin PreBaseline /\ pc' \notin {"revalidate", "revalidating"}
      /\ pc' \notin WithIncumbent /\ pc' \notin WithProposal
      /\ pc' \notin {"finish", "finished", "decide", "reprop_last", "republish_last",
                     "reassessed", "republish"}
  BY DEF Finalizing, PreBaseline, WithIncumbent, WithProposal, InRound, Comparing
<1>3. AtHand'
  BY <1>2 DEF SearchInv, AtHand
<1>4. UpToDate' /\ CheckpointCurrent' /\ FinishSaved'
  BY <1>1, <1>2 DEF UpToDate, CheckpointCurrent, FinishSaved
<1>5. AcceptedCurrent'
  BY <1>1, <1>2 DEF SearchInv, AcceptedCurrent, AcceptedExecutes, CanExecute, Time
<1> QED
  BY <1>3, <1>4, <1>5 DEF SearchInv

(* A search that concludes: what the result needs is at hand. *)
LEMMA Concluding ==
    ASSUME WorkflowInv, pc \in Searching, NEW a \in Acceptances, NEW r \in StopReasons,
           Conclude(a, r), ckpt' \in Checkpoint \cup {None}, ckpt' # None => ckpt'.life <= life,
           Ended([acceptance |-> a, stop |-> r, life |-> life]) =>
               /\ ckpt' \in Checkpoint /\ ckpt'.phase = "finished" /\ ckpt'.life = life
               /\ a \in Kept => accepted \in Bundle /\ accepted.sched = ckpt'.best,
           a \in Kept => r \notin {"exception", "no_baseline"}
    PROVE  WorkflowInv'
<1> DEFINE res == [acceptance |-> a, stop |-> r, life |-> life]
<1>1. /\ pc' = "finalize" /\ result' = res /\ cost' = cost /\ req' = req
      /\ summary' = summary /\ meta' = meta /\ files' = files /\ life' = life
      /\ mem' = mem /\ todo' = todo /\ props' = props /\ prop' = prop /\ stop' = stop
      /\ lost' = lost /\ accepted' = accepted
  BY DEF Conclude, fixed, published, round
<1>2. /\ res \in Result /\ res.acceptance = a /\ res.stop = r /\ res.life = life
  BY DEF Result, WorkflowInv, Types, ProcessTypes
<1>3. Ended(res) => /\ ckpt' \in Checkpoint /\ ckpt'.phase = "finished" /\ ckpt'.life = life
                    /\ a \in Kept => accepted \in Bundle /\ accepted.sched = ckpt'.best
  OBVIOUS
<1>4. a \in Kept => Ended(res)
  BY <1>2 DEF Ended
<1> HIDE DEF res
<1>5. Types'
  BY <1>1, <1>2, PlaceFacts DEF WorkflowInv, Types, FixedTypes, DurableTypes, ProcessTypes
<1>6. SearchInv'
  BY <1>1, OutOfSearch, PlaceFacts DEF WorkflowInv
<1>7. ~Ended(summary) /\ ~Ended(meta.result)
  BY NothingEnded DEF WorkflowInv
<1>8. ResultInv'
  <2>1. \A x \in {result, summary, meta.result} : x # None /\ x.acceptance \in Kept => Ended(x)
    BY DEF WorkflowInv, ResultInv
  <2>2. Ended(res) => Final(result)'
    <3>1. life <= res.life
      BY <1>2 DEF WorkflowInv, Types, ProcessTypes
    <3> QED
      BY <1>1, <1>2, <1>3, <3>1 DEF Final
  <2>3. ~Ended(summary') /\ ~Ended(meta'.result)
    BY <1>1, <1>7
  <2>4. \A x \in {result', summary', meta'.result} :
            x # None /\ x.acceptance \in Kept => Ended(x)
    BY <1>1, <1>2, <1>4, <2>1
  <2> QED
    BY <1>1, <1>2, <2>2, <2>3, <2>4 DEF ResultInv, Ended
<1>9. PublishInv'
  BY <1>1, <1>7 DEF WorkflowInv, PublishInv, Ended, PublicationConsistent, Finalizing
<1> QED
  BY <1>5, <1>6, <1>8, <1>9 DEF WorkflowInv

LEMMA ConcludeSteps ==
    ASSUME WorkflowInv,
           Unqualified \/ CleanupUnconfirmed \/ FinishCalibration \/ Decide \/ Aborted
    PROVE  WorkflowInv'
<1>1. Types /\ AtHand /\ CheckpointCurrent /\ FinishSaved /\ AcceptedCurrent
  BY DEF WorkflowInv, SearchInv
<1>2. /\ life \in 1 .. MaxLives /\ mem \in MemType /\ ckpt \in Checkpoint \cup {None}
      /\ ckpt # None => ckpt.life <= life
  BY <1>1 DEF Types, ProcessTypes, DurableTypes
<1>3. \A phase \in {"running", "finished"} :
          /\ Snapshot(phase, mem) \in Checkpoint /\ Snapshot(phase, mem).best = mem.rec
          /\ Snapshot(phase, mem).phase = phase /\ Snapshot(phase, mem).life = life
          /\ Snapshot(phase, mem).life <= life
  BY <1>2, SnapshotFacts
<1>4. \A a, r : /\ [acceptance |-> a, stop |-> r, life |-> life].stop = r
                /\ Ended([acceptance |-> a, stop |-> r, life |-> life]) =>
                       r \notin {"exception", "no_baseline"}
  BY DEF Ended
<1> DEFINE Ready(a, r) ==
         Ended([acceptance |-> a, stop |-> r, life |-> life]) =>
             /\ ckpt' \in Checkpoint /\ ckpt'.phase = "finished" /\ ckpt'.life = life
             /\ a \in Kept => accepted \in Bundle /\ accepted.sched = ckpt'.best
<1>5. CASE Unqualified
  <2>1. pc \in Searching /\ Conclude("not_evaluated", "no_baseline") /\ ckpt' = ckpt
    BY <1>5, PlaceFacts DEF Unqualified
  <2>2. "not_evaluated" \in Acceptances \ Kept /\ "no_baseline" \in StopReasons
    BY DEF Acceptances, Kept, StopReasons
  <2>3. Ready("not_evaluated", "no_baseline")
    BY <1>4
  <2> QED
    BY <1>2, <2>1, <2>2, <2>3, Concluding
<1>6. CASE CleanupUnconfirmed
  <2> DEFINE a == IF mem.best # None THEN "best_retained" ELSE "not_evaluated"
  <2>1. pc = "cleanup" /\ pc \in Searching /\ Conclude(a, "cleanup_unconfirmed")
        /\ ckpt' = Snapshot("finished", mem)
    BY <1>6, PlaceFacts DEF CleanupUnconfirmed, Save
  <2>2. a \in Acceptances /\ "cleanup_unconfirmed" \in StopReasons
        /\ (a \in Kept => mem.best # None)
    BY DEF Acceptances, Kept, StopReasons
  <2>3. mem.best # None => accepted \in Bundle /\ accepted.sched = mem.rec
    BY <1>1, <2>1 DEF AcceptedCurrent
  <2>4. ckpt' \in Checkpoint /\ ckpt'.life <= life
    BY <1>3, <2>1
  <2>5. Ready(a, "cleanup_unconfirmed")
    BY <1>3, <2>1, <2>2, <2>3
  <2> HIDE DEF a
  <2> QED
    BY <2>1, <2>2, <2>4, <2>5, Concluding
<1>7. CASE FinishCalibration
  <2>1. PICK a \in {"not_required", "not_evaluated"} : Conclude(a, "calibration_finished")
    BY <1>7 DEF FinishCalibration
  <2>2. pc \in Searching /\ ckpt' = Snapshot("finished", mem)
    BY <1>7, PlaceFacts DEF FinishCalibration, Save
  <2>3. a \in Acceptances \ Kept /\ "calibration_finished" \in StopReasons
    BY DEF Acceptances, Kept, StopReasons
  <2>4. ckpt' \in Checkpoint /\ ckpt'.life <= life /\ Ready(a, "calibration_finished")
    BY <1>3, <2>2, <2>3
  <2> QED
    BY <2>1, <2>2, <2>3, <2>4, Concluding
<1>8. CASE Decide
  <2> DEFINE a == CASE ~Qualified -> "not_evaluated"
                    [] Qualified /\ stop \in ErrorReasons -> "best_retained"
                    [] OTHER -> "accepted"
  <2>1. pc = "finished" /\ pc \in Searching /\ Conclude(a, stop) /\ ckpt' = ckpt
    BY <1>8, PlaceFacts DEF Decide
  <2>2. a \in {"not_evaluated", "best_retained", "accepted"}
        /\ (a # "not_evaluated" => Qualified)
    BY Zenon
  <2> HIDE DEF a
  <2>3. stop \in StopReasons /\ stop \notin {"exception", "no_baseline"}
    BY <1>1, <2>1 DEF AtHand, SearchStops, StopReasons, LimitReasons, ErrorReasons
  <2>4. ckpt \in Checkpoint /\ ckpt.phase = "finished" /\ ckpt.life = life
    BY <1>1, <2>1 DEF FinishSaved
  <2>5. Qualified => accepted \in Bundle /\ accepted.sched = mem.rec
    BY <1>1, <2>1 DEF AcceptedCurrent, Qualified
  <2>6. Qualified => ckpt.best = mem.rec
    <3>1. CASE ckpt # None
      BY <1>1, <2>1, <3>1 DEF CheckpointCurrent
    <3>2. CASE ckpt = None
      BY <2>4, <3>2, NoneAssumption
    <3> QED
      BY <3>1, <3>2
  <2>7. a \in Acceptances /\ (a \in Kept => Qualified)
    BY <2>2 DEF Acceptances, Kept
  <2>8. Ready(a, stop)
    BY <2>1, <2>4, <2>5, <2>6, <2>7
  <2> QED
    BY <1>2, <2>1, <2>3, <2>7, <2>8, Concluding
<1>9. CASE Aborted
  <2>1. pc \in Searching /\ Conclude("not_evaluated", "exception")
    BY <1>9 DEF Aborted, Conclude
  <2>2. "not_evaluated" \in Acceptances \ Kept /\ "exception" \in StopReasons
    BY DEF Acceptances, Kept, StopReasons
  <2>3. ckpt' = ckpt \/ ckpt' = Snapshot("running", mem)
    BY <1>9 DEF Aborted, Unwind, Save
  <2>4. ckpt' \in Checkpoint \cup {None} /\ (ckpt' # None => ckpt'.life <= life)
    BY <1>2, <1>3, <2>3
  <2>5. Ready("not_evaluated", "exception")
    BY <1>4
  <2> QED
    BY <2>1, <2>2, <2>4, <2>5, Concluding
<1> QED
  BY <1>5, <1>6, <1>7, <1>8, <1>9
-----------------------------------------------------------------------------
(* The writes of finalize_run. *)
LEMMA MetaEffect ==
    ASSUME Types, NEW c \in BOOLEAN, meta' = [meta EXCEPT !.complete = c]
    PROVE  /\ meta' \in MetaType /\ meta'.complete = c /\ meta'.result = meta.result
           /\ meta'.best = meta.best
  BY DEF Types, DurableTypes, MetaType

LEMMA BlankFacts == Blank \in MemType /\ Blank.best = None
  BY WorkflowAssumption DEF Blank, MemType, Versions

LEMMA FilesEffect ==
    ASSUME Types, Export => accepted \in Bundle
    PROVE  /\ Exported \in Scheds \cup {None} /\ ModelSource \in Versions
           /\ Export => ModelSource = accepted.model
<1>1. Exported \in Scheds \cup {None}
  BY DEF Exported, Bundle
<1>2. Export => accepted.model \in Versions
  BY DEF Bundle
<1>3. ckpt # None => ckpt.model \in Versions
  BY DEF Types, DurableTypes, Checkpoint
<1>4. 0 \in Versions
  BY WorkflowAssumption DEF Versions
<1>5. Export => ModelSource = accepted.model
  BY Zenon DEF ModelSource
<1>6. ~Export /\ ckpt # None => ModelSource = ckpt.model
  BY Zenon DEF ModelSource
<1>7. ~Export /\ ckpt = None => ModelSource = 0
  BY Zenon DEF ModelSource
<1> QED
  BY <1>1, <1>2, <1>3, <1>4, <1>5, <1>6, <1>7

(* The result is kept by every write, and only Export and the two records  *)
(* decide what is written.                                                 *)
LEMMA PublishTypes == Types /\ ResultInv /\ Publish => Types'
<1> SUFFICES ASSUME Types, ResultInv, Publish PROVE Types'
  OBVIOUS
<1>1. /\ Exported \in Scheds \cup {None} /\ ModelSource \in Versions
  BY FilesEffect DEF Export, Types, DurableTypes
<1> USE PlaceFacts DEF Types, FixedTypes, DurableTypes, ProcessTypes
<1>2. CASE MarkIncomplete
  BY <1>2, MetaEffect DEF MarkIncomplete, Step, fixed, round, Finalizing
<1>3. CASE WriteSummary
  BY <1>3 DEF WriteSummary, Step, fixed, round, Finalizing
<1>4. CASE ExportXml
  BY <1>1, <1>4 DEF ExportXml, Exported, Step, fixed, round, Finalizing, FilesType
<1>5. CASE ExportSidecar
  BY <1>1, <1>5 DEF ExportSidecar, Exported, Step, fixed, round, Finalizing, FilesType
<1>6. CASE ExportModel
  BY <1>1, <1>6 DEF ExportModel, Step, fixed, round, Finalizing, FilesType
<1>7. CASE WriteMetadata
  BY <1>7 DEF WriteMetadata, Step, fixed, round, Finalizing, MetaType
<1>8. CASE MarkComplete
  <2>1. meta' \in MetaType
    BY <1>8, MetaEffect DEF MarkComplete
  <2>2. Blank \in MemType
    BY BlankFacts
  <2> QED
    BY <1>8, <2>1, <2>2 DEF MarkComplete, Gone, fixed
<1> QED
  BY <1>2, <1>3, <1>4, <1>5, <1>6, <1>7, <1>8 DEF Publish

LEMMA PublishResult == Types /\ ResultInv /\ PublishInv /\ Publish => ResultInv'
<1> SUFFICES ASSUME Types, ResultInv, PublishInv, Publish PROVE ResultInv'
  OBVIOUS
<1> USE PlaceFacts DEF Types, DurableTypes, ProcessTypes
<1>1. CASE MarkIncomplete
  <2>1. meta'.result = meta.result
    BY <1>1, MetaEffect DEF MarkIncomplete
  <2> QED
    BY <1>1, <2>1 DEF MarkIncomplete, Step, ResultInv, Ended, Final, Finalizing
<1>2. CASE WriteSummary
  <2>1. meta' = meta /\ summary' = result /\ result' = result /\ ckpt' = ckpt
        /\ accepted' = accepted /\ pc \in Finalizing /\ pc' \in Finalizing
    BY <1>2 DEF WriteSummary, Step, Finalizing
  <2>2. Ended(meta.result) => result = meta.result
    BY <2>1 DEF ResultInv
  <2>3. Ended(result) => Final(result)
    BY <2>1 DEF ResultInv
  <2> QED
    BY <2>1, <2>2, <2>3 DEF ResultInv, Ended, Final
<1>3. CASE ExportXml \/ ExportSidecar \/ ExportModel
  <2>1. /\ meta' = meta /\ summary' = summary /\ result' = result /\ ckpt' = ckpt
        /\ accepted' = accepted /\ pc \in Finalizing /\ pc' \in Finalizing
    BY <1>3 DEF ExportXml, ExportSidecar, ExportModel, Step, Finalizing
  <2> QED
    BY <2>1 DEF ResultInv, Ended, Final
<1>4. CASE WriteMetadata
  <2>1. /\ meta'.result = result /\ summary' = summary /\ result' = result /\ ckpt' = ckpt
        /\ accepted' = accepted /\ pc \in Finalizing /\ pc' \in Finalizing
    BY <1>4 DEF WriteMetadata, Step, Finalizing, MetaType
  <2>2. summary = result
    BY <1>4 DEF PublishInv, WriteMetadata, Step, Finalizing
  <2> QED
    BY <2>1, <2>2 DEF ResultInv, Ended, Final
<1>5. CASE MarkComplete
  <2>1. /\ meta'.result = meta.result /\ summary' = summary /\ result' = None
        /\ ckpt' = ckpt /\ accepted' = accepted /\ pc' = "down"
    BY <1>5, MetaEffect DEF MarkComplete, Gone
  <2> QED
    BY <2>1 DEF ResultInv, Ended, Final
<1> QED
  BY <1>1, <1>2, <1>3, <1>4, <1>5 DEF Publish

LEMMA PublishStays == Types /\ ResultInv /\ PublishInv /\ Publish => PublishInv'
<1> SUFFICES ASSUME Types, ResultInv, PublishInv, Publish PROVE PublishInv'
  OBVIOUS
<1>1. CASE MarkIncomplete
  <2>1. /\ pc' = "write_summary" /\ ~meta'.complete
    BY <1>1, MetaEffect DEF MarkIncomplete, Step
  <2> QED
    BY <2>1 DEF PublishInv, PublicationConsistent, Finalizing
<1>2. CASE WriteSummary
  <2>1. /\ pc' = "export_xml" /\ meta' = meta /\ summary' = result' /\ ~meta.complete
    BY <1>2 DEF WriteSummary, Step, PublishInv, Finalizing
  <2> QED
    BY <2>1 DEF PublishInv, PublicationConsistent, Finalizing
<1>3. CASE ExportXml
  <2>1. /\ pc' = "export_sidecar" /\ meta' = meta /\ ~meta.complete /\ result' = result
        /\ accepted' = accepted /\ summary' = summary /\ summary = result
    BY <1>3 DEF ExportXml, Step, PublishInv, Finalizing
  <2>2. files'.xml = Exported
    BY <1>3 DEF ExportXml, Exported, Types, DurableTypes, FilesType
  <2>3. Exported' = Exported
    BY <2>1 DEF Exported, Export
  <2> QED
    BY <2>1, <2>2, <2>3 DEF PublishInv, PublicationConsistent, Finalizing
<1>4. CASE ExportSidecar
  <2>1. /\ pc' = "export_model" /\ meta' = meta /\ ~meta.complete /\ result' = result
        /\ accepted' = accepted /\ summary' = summary /\ summary = result
        /\ files.xml = Exported
    BY <1>4 DEF ExportSidecar, Step, PublishInv, Finalizing
  <2>2. files'.sidecar = Exported /\ files'.xml = files.xml
    BY <1>4 DEF ExportSidecar, Exported, Types, DurableTypes, FilesType
  <2>3. Exported' = Exported
    BY <2>1 DEF Exported, Export
  <2> QED
    BY <2>1, <2>2, <2>3 DEF PublishInv, PublicationConsistent, Finalizing
<1>5. CASE ExportModel
  <2>1. /\ pc' = "write_metadata" /\ meta' = meta /\ ~meta.complete /\ result' = result
        /\ accepted' = accepted /\ summary' = summary /\ summary = result
        /\ files.xml = Exported /\ files.sidecar = Exported
    BY <1>5 DEF ExportModel, Step, PublishInv, Finalizing
  <2>2. files'.model = ModelSource /\ files'.xml = files.xml /\ files'.sidecar = files.sidecar
    BY <1>5 DEF ExportModel, Types, DurableTypes, FilesType
  <2>3. Exported' = Exported /\ Export' = Export
    BY <2>1 DEF Exported, Export
  <2>4. Export => ModelSource = accepted.model
    BY FilesEffect DEF Export, Types, DurableTypes
  <2> QED
    BY <2>1, <2>2, <2>3, <2>4 DEF PublishInv, PublicationConsistent, Finalizing
<1>6. CASE WriteMetadata
  <2>1. /\ pc' = "mark_complete" /\ files' = files /\ ~meta.complete /\ result' = result
        /\ accepted' = accepted /\ summary' = summary /\ summary = result
        /\ files.xml = Exported /\ files.sidecar = Exported
        /\ Export => files.model = accepted.model
    BY <1>6 DEF WriteMetadata, Step, PublishInv, Finalizing
  <2>2. meta'.complete = meta.complete /\ meta'.result = result /\ meta'.best = accepted
    BY <1>6 DEF WriteMetadata, Types, DurableTypes, MetaType
  <2>3. Exported' = Exported /\ Export' = Export
    BY <2>1 DEF Exported, Export
  <2> QED
    BY <2>1, <2>2, <2>3 DEF PublishInv, PublicationConsistent, Finalizing
<1>7. CASE MarkComplete
  <2>1. /\ pc' = "down" /\ files' = files /\ accepted' = accepted
        /\ meta'.result = meta.result /\ meta'.best = meta.best
    BY <1>7, MetaEffect DEF MarkComplete, Gone
  <2>2. /\ meta.result = result /\ meta.best = accepted /\ result \in Result
        /\ files.xml = Exported /\ files.sidecar = Exported
        /\ Export => files.model = accepted.model
    BY <1>7 DEF MarkComplete, PublishInv, ResultInv, Finalizing
  <2>3. /\ Exported # None <=> Export
        /\ Export => Exported = accepted.sched
    BY WorkflowAssumption DEF Exported, Export, Types, DurableTypes, Bundle
  <2>4. PublicationConsistent'
    BY <2>1, <2>2, <2>3 DEF PublicationConsistent, Export
  <2> QED
    BY <2>1, <2>2, <2>4, PlaceFacts DEF PublishInv
<1> QED
  BY <1>1, <1>2, <1>3, <1>4, <1>5, <1>6, <1>7 DEF Publish

LEMMA PublishSteps == WorkflowInv /\ Publish => WorkflowInv'
<1> SUFFICES ASSUME WorkflowInv, Publish PROVE WorkflowInv'
  OBVIOUS
<1>1. /\ pc' \in Finalizing \cup {"down"} /\ accepted' = accepted /\ cost' = cost
      /\ mem' = mem \/ mem' = Blank
  BY DEF Publish, MarkIncomplete, WriteSummary, ExportXml, ExportSidecar, ExportModel,
         WriteMetadata, MarkComplete, Step, Gone, fixed, Finalizing
<1>2. SearchInv'
  BY <1>1, OutOfSearch, BlankFacts DEF WorkflowInv
<1> QED
  BY <1>2, PublishTypes, PublishResult, PublishStays DEF WorkflowInv

LEMMA CrashStep == WorkflowInv /\ Crash => WorkflowInv'
<1> SUFFICES ASSUME WorkflowInv, Crash PROVE WorkflowInv'
  OBVIOUS
<1>1. /\ pc' = "down" /\ mem' = Blank /\ result' = None /\ stop' = None
      /\ todo' = {} /\ props' = {} /\ prop' = None /\ cost' = cost /\ req' = req
      /\ life' = life /\ ckpt' = ckpt /\ accepted' = accepted
      /\ summary' = summary /\ meta' = meta /\ files' = files
  BY DEF Crash, Gone, published
<1>t. lost' \in 0 .. life
  <2>1. lost' = life \/ lost' = lost
    BY DEF Crash
  <2>2. life \in 1 .. MaxLives /\ lost \in 0 .. life /\ MaxLives \in Nat
    BY WorkflowAssumption DEF WorkflowInv, Types, ProcessTypes
  <2> QED
    BY <2>1, <2>2
<1>2. Types'
  BY <1>1, <1>t, BlankFacts, PlaceFacts
     DEF WorkflowInv, Types, FixedTypes, DurableTypes, ProcessTypes
<1>3. SearchInv'
  BY <1>1, OutOfSearch, BlankFacts DEF WorkflowInv
<1>4. ResultInv'
  BY <1>1, PlaceFacts DEF WorkflowInv, ResultInv, Ended, Final
<1>5. PublishInv'
  BY <1>1, PlaceFacts DEF WorkflowInv, PublishInv, PublicationConsistent, Ended
<1> QED
  BY <1>2, <1>3, <1>4, <1>5 DEF WorkflowInv

(* resume_run starts the search again, or publishes the summary again. *)
LEMMA EntryFacts ==
    \A m, C : /\ m.rec # None => Entry(m, C) = "revalidate"
              /\ m.rec = None =>
                     Entry(m, C) \in {"reload", "synthesize", "calibrate", "input"}
<1> SUFFICES ASSUME NEW m, NEW C
             PROVE  /\ m.rec # None => Entry(m, C) = "revalidate"
                    /\ m.rec = None =>
                           Entry(m, C) \in {"reload", "synthesize", "calibrate", "input"}
  OBVIOUS
<1> DEFINE Fresh == CASE req = "solve" -> "synthesize"
                      [] req = "calibrate" -> "calibrate"
                      [] OTHER -> "input"
<1>1. Fresh \in {"synthesize", "calibrate", "input"}
  BY Zenon
<1>2. Entry(m, C) = CASE m.rec # None -> "revalidate"
                      [] m.rec = None /\ C # {} -> "reload"
                      [] OTHER -> Fresh
  BY DEF Entry
<1> HIDE DEF Fresh
<1>3. m.rec # None => Entry(m, C) = "revalidate"
  BY <1>2, Zenon
<1>4. m.rec = None /\ C # {} => Entry(m, C) = "reload"
  BY <1>2, Zenon
<1>5. m.rec = None /\ C = {} => Entry(m, C) = Fresh
  BY <1>2, Zenon
<1> QED
  BY <1>1, <1>3, <1>4, <1>5

LEMMA RestartStep ==
    ASSUME WorkflowInv, Resume, ~AlreadyFinished, Restart
    PROVE  WorkflowInv'
<1> DEFINE m == [Blank EXCEPT !.rec = ckpt.best, !.model = ckpt.model,
                              !.rounds = ckpt.rounds, !.calibrated = ckpt.calibrated]
<1>1. /\ pc = "down" /\ ckpt # None /\ life < MaxLives /\ life' = life + 1
      /\ cost' = cost /\ req' = req /\ summary' = summary /\ meta' = meta
      /\ files' = files /\ ckpt' = ckpt /\ accepted' = accepted
      /\ props' = props /\ prop' = prop /\ stop' = stop /\ lost' = lost
  BY DEF Resume, fixed, published
<1>2. /\ mem' = m /\ pc' = Entry(m, ckpt.cands) /\ result' = result
      /\ todo' = ckpt.cands \/ todo' = {}
  BY Zenon DEF Restart
<1>3. ckpt \in Checkpoint /\ ckpt.life <= life /\ life \in 1 .. MaxLives
  BY <1>1 DEF WorkflowInv, Types, DurableTypes, ProcessTypes
<1>4. m \in MemType /\ m.best = None /\ m.rec = ckpt.best /\ m.model = ckpt.model
  BY <1>3 DEF Blank, MemType, Checkpoint
<1> HIDE DEF m
<1>5. /\ ckpt.best # None => pc' = "revalidate"
      /\ ckpt.best = None => pc' \in {"reload", "synthesize", "calibrate", "input"}
  BY <1>2, <1>4, EntryFacts
<1>6. pc' \in {"revalidate", "reload", "synthesize", "calibrate", "input"}
  BY <1>5
<1>7. pc' \in Searching
  BY <1>6, StageDoors DEF Searching, Doors
<1>8. Types'
  <2>1. life' \in 1 .. MaxLives /\ ckpt.life <= life' /\ lost' \in 0 .. life'
    BY <1>1, <1>3, WorkflowAssumption DEF Checkpoint, WorkflowInv, Types, ProcessTypes
  <2>2. todo' \subseteq Scheds
    BY <1>2, <1>3 DEF Checkpoint
  <2> QED
    BY <1>1, <1>2, <1>4, <1>7, <2>1, <2>2, PlaceFacts
       DEF WorkflowInv, Types, FixedTypes, DurableTypes, ProcessTypes
<1>9. SearchInv'
  <2>1. AtHand'
    BY <1>2, <1>3, <1>4, <1>5, <1>6
       DEF AtHand, PreBaseline, WithIncumbent, WithProposal, InRound, Comparing, Checkpoint
  <2>2. UpToDate' /\ FinishSaved'
    BY <1>6 DEF UpToDate, FinishSaved
  <2>3. CheckpointCurrent'
    BY <1>1, <1>2, <1>4, <1>6 DEF CheckpointCurrent
  <2>4. AcceptedCurrent'
    BY <1>1, <1>2, <1>4, <1>6
       DEF WorkflowInv, SearchInv, AcceptedCurrent, AcceptedExecutes, CanExecute, Time
  <2> QED
    BY <2>1, <2>2, <2>3, <2>4 DEF SearchInv
<1>10. ~Ended(summary) /\ ~Ended(meta.result)
  <2>1. Ended(summary) => ckpt.phase = "finished" /\ summary # None
    BY NoneAssumption DEF WorkflowInv, ResultInv, Final, Ended
  <2> QED
    BY <2>1 DEF AlreadyFinished, WorkflowInv, ResultInv
<1>11. ResultInv'
  BY <1>1, <1>2, <1>7, <1>10, PlaceFacts DEF WorkflowInv, ResultInv, Ended
<1>12. PublishInv'
  BY <1>1, <1>6, <1>10 DEF WorkflowInv, PublishInv, PublicationConsistent, Ended, Finalizing
<1> QED
  BY <1>8, <1>9, <1>11, <1>12 DEF WorkflowInv

LEMMA RepublishStep ==
    ASSUME WorkflowInv, Resume, AlreadyFinished, ~meta.complete, result' = summary,
           pc' = "finalize", UNCHANGED <<mem, todo>>
    PROVE  WorkflowInv'
<1>1. /\ pc = "down" /\ life < MaxLives /\ life' = life + 1
      /\ cost' = cost /\ req' = req /\ summary' = summary /\ meta' = meta
      /\ files' = files /\ ckpt' = ckpt /\ accepted' = accepted
      /\ props' = props /\ prop' = prop /\ stop' = stop /\ mem' = mem /\ todo' = todo
      /\ lost' = lost
  BY DEF Resume, fixed, published
<1>2. summary \in Result /\ life \in 1 .. MaxLives
  BY DEF AlreadyFinished, WorkflowInv, Types, DurableTypes, ProcessTypes
<1>3. Types'
  <2>1. ckpt # None => ckpt.life <= life /\ ckpt.life \in 1 .. MaxLives
    BY DEF WorkflowInv, Types, DurableTypes, Checkpoint
  <2>2. /\ life' \in 1 .. MaxLives /\ (ckpt # None => ckpt.life <= life')
        /\ lost' \in 0 .. life'
    BY <1>1, <1>2, <2>1, WorkflowAssumption DEF WorkflowInv, Types, ProcessTypes
  <2> QED
    BY <1>1, <1>2, <2>2, PlaceFacts
       DEF WorkflowInv, Types, FixedTypes, DurableTypes, ProcessTypes
<1>4. SearchInv'
  BY <1>1, OutOfSearch, PlaceFacts DEF WorkflowInv
<1>5. ResultInv'
  BY <1>1, <1>2, PlaceFacts DEF WorkflowInv, ResultInv, Ended, Final
<1>6. PublishInv'
  BY <1>1 DEF WorkflowInv, PublishInv, PublicationConsistent, Ended, Finalizing
<1> QED
  BY <1>3, <1>4, <1>5, <1>6 DEF WorkflowInv
-----------------------------------------------------------------------------
LEMMA SearchSteps == WorkflowInv /\ SearchStep => WorkflowInv'
<1> SUFFICES ASSUME WorkflowInv, SearchStep PROVE WorkflowInv'
  OBVIOUS
<1>1. Types /\ AtHand /\ UpToDate /\ CheckpointCurrent /\ FinishSaved /\ AcceptedCurrent
  BY DEF WorkflowInv, SearchInv
<1>2. Types' /\ Frame /\ AtHand' /\ UpToDate'
  BY <1>1, SearchTypes, SearchFrame, SearchAtHand, SearchUpToDate
<1>3. CheckpointCurrent' /\ FinishSaved' /\ AcceptedCurrent'
  BY <1>1, SearchCheckpoint, SearchAccepted
<1>4. ResultInv' /\ PublishInv'
  BY <1>1, <1>2, SearchPublishes DEF WorkflowInv
<1> QED
  BY <1>2, <1>3, <1>4 DEF WorkflowInv, SearchInv

(* Every step of the specification is one of these. *)
LEMMA Steps ==
    Next => \/ SearchStep \/ Unqualified \/ CleanupUnconfirmed \/ FinishCalibration
            \/ Decide \/ Aborted \/ Publish \/ Crash \/ Resume
  BY DEF Next, Search, Fail, SearchStep

LEMMA InitHolds == Init => WorkflowInv
<1> SUFFICES ASSUME Init PROVE WorkflowInv
  OBVIOUS
<1>1. /\ cost \in Tables /\ req \in Requests /\ ckpt = None /\ accepted = None
      /\ summary = None /\ meta = [complete |-> FALSE, result |-> None, best |-> None]
      /\ files = [xml |-> None, sidecar |-> None, model |-> None]
      /\ life = 1 /\ mem = Blank /\ pc = Entry(Blank, {})
      /\ todo = {} /\ props = {} /\ prop = None /\ stop = None /\ result = None
      /\ lost = 0
  BY DEF Init
<1>2. Blank \in MemType /\ Blank.best = None /\ Blank.rec = None
  BY BlankFacts DEF Blank
<1>3. pc \in {"reload", "synthesize", "calibrate", "input"}
  BY <1>1, <1>2, EntryFacts
<1>4. pc \in Searching
  BY <1>3, StageDoors DEF Searching, Doors
<1>5. Types
  BY <1>1, <1>2, <1>4, PlaceFacts, WorkflowAssumption
     DEF Types, FixedTypes, DurableTypes, ProcessTypes, MetaType, FilesType
<1>6. SearchInv
  BY <1>1, <1>2, <1>3
     DEF SearchInv, AtHand, PreBaseline, WithIncumbent, WithProposal, InRound, Comparing,
         UpToDate, CheckpointCurrent, FinishSaved, AcceptedCurrent, AcceptedExecutes
<1>7. ResultInv
  BY <1>1, <1>4, PlaceFacts, NoneAssumption DEF ResultInv, Ended
<1>8. PublishInv
  BY <1>1, <1>3 DEF PublishInv, PublicationConsistent, Finalizing
<1> QED
  BY <1>5, <1>6, <1>7, <1>8 DEF WorkflowInv

LEMMA InvariantStep == WorkflowInv /\ [Next]_vars => WorkflowInv'
<1> SUFFICES ASSUME WorkflowInv, [Next]_vars PROVE WorkflowInv'
  OBVIOUS
<1>1. CASE UNCHANGED vars
  BY <1>1 DEF vars, WorkflowInv, Types, FixedTypes, DurableTypes, ProcessTypes, SearchInv,
              AtHand, UpToDate, CheckpointCurrent, FinishSaved, AcceptedCurrent,
              AcceptedExecutes, CanExecute, Time, Stale, ResultInv, Ended, Final, PublishInv,
              Exported, Export, PublicationConsistent
<1>2. CASE Resume
  <2>1. CASE ~AlreadyFinished /\ Restart
    BY <1>2, <2>1, RestartStep
  <2>2. CASE /\ AlreadyFinished /\ ~meta.complete
             /\ result' = summary /\ pc' = "finalize" /\ UNCHANGED <<mem, todo>>
    BY <1>2, <2>2, RepublishStep
  <2> QED
    BY <1>2, <2>1, <2>2 DEF Resume
<1> QED
  BY <1>1, <1>2, Steps, SearchSteps, ConcludeSteps, PublishSteps, CrashStep

(* Checkpoint, best/accepted.json, summary and publication stay related as  *)
(* WorkflowInv says, through searches, deaths at any write, resumptions and *)
(* second publications.                                                     *)
THEOREM WorkflowInvariant == Spec => []WorkflowInv
  BY InitHolds, InvariantStep, PTL DEF Spec

(* A finished search is summarised by its own process, or that process died *)
(* between its last checkpoint and its summary.                             *)
LEMMA ReportStep == WorkflowInv /\ ReportInv /\ [Next]_vars => ReportInv'
<1> SUFFICES ASSUME WorkflowInv, ReportInv, [Next]_vars PROVE ReportInv'
  OBVIOUS
<1>1. /\ life \in Nat /\ summary \in Result \cup {None} /\ ckpt \in Checkpoint \cup {None}
      /\ ckpt # None => ckpt.life \in Nat /\ ckpt.life <= life
      /\ summary # None => summary.life \in Nat
  BY WorkflowAssumption DEF WorkflowInv, Types, ProcessTypes, DurableTypes, Checkpoint, Result
<1>2. /\ Unreported \cap Searching = {"finished"} /\ "down" \notin Unreported
      /\ "finalize" \in Unreported /\ "write_summary" \in Unreported
      /\ "finalize" \notin Searching /\ "write_summary" \notin Searching
  BY PlaceFacts DEF Unreported, Finalizing
<1>3. CASE UNCHANGED vars
  BY <1>3 DEF vars, ReportInv
<1>4. CASE SearchStep
  <2>1. /\ Frame /\ pc \in Searching \ {"finished"}
        /\ \/ ckpt' = ckpt
           \/ ckpt'.phase = "finished" => pc' = "finished" /\ ckpt'.life = life
    BY <1>4, SearchFrame, SearchSaves DEF WorkflowInv, SearchInv
  <2> QED
    BY <1>2, <2>1 DEF Frame, ReportInv
<1>5. CASE Unqualified \/ CleanupUnconfirmed \/ FinishCalibration \/ Decide \/ Aborted
  <2>1. /\ pc \in Searching /\ pc' = "finalize" /\ result'.life = life /\ life' = life
        /\ lost' = lost /\ summary' = summary /\ meta' = meta
    BY <1>5, PlaceFacts DEF Unqualified, CleanupUnconfirmed, FinishCalibration, Decide, Aborted,
                Conclude, fixed, published
  <2>2. \A phase \in {"running", "finished"} : /\ Snapshot(phase, mem).life = life
                                              /\ Snapshot(phase, mem).phase = phase
    BY DEF Snapshot
  <2>3. \/ ckpt' = ckpt
        \/ ckpt'.life = life
    BY <1>5, <2>2 DEF Unqualified, CleanupUnconfirmed, FinishCalibration, Decide, Aborted,
                Unwind, Save
  <2> QED
    BY <1>2, <2>1, <2>3 DEF ReportInv
<1>6. CASE MarkIncomplete
  <2>1. /\ pc = "finalize" /\ pc' = "write_summary" /\ ~meta'.complete
        /\ UNCHANGED <<life, ckpt, result, lost, summary>>
    BY <1>6, MetaEffect DEF MarkIncomplete, Step, fixed, WorkflowInv
  <2> QED
    BY <1>2, <2>1 DEF ReportInv
<1>7. CASE WriteSummary
  <2>1. /\ pc = "write_summary" /\ pc' = "export_xml" /\ summary' = result /\ ~meta.complete
        /\ UNCHANGED <<life, ckpt, lost, meta>>
    BY <1>7 DEF WriteSummary, Step, fixed, WorkflowInv, PublishInv, Finalizing
  <2>2. CASE result.life = life
    BY <1>1, <2>1, <2>2 DEF ReportInv
  <2>3. CASE result = summary /\ ckpt # None /\ ckpt.life < life
    BY <1>1, <2>1, <2>3 DEF ReportInv
  <2> QED
    BY <2>1, <2>2, <2>3 DEF ReportInv
<1>8. CASE ExportXml \/ ExportSidecar \/ ExportModel \/ WriteMetadata \/ MarkComplete
  <2>1. /\ pc \in Finalizing \ {"finalize", "write_summary"}
        /\ pc' \notin {"finalize", "write_summary"}
        /\ UNCHANGED <<life, ckpt, lost, summary>>
    BY <1>8 DEF ExportXml, ExportSidecar, ExportModel, WriteMetadata, MarkComplete, Gone, Step,
                fixed, Finalizing
  <2>2. ~meta.complete /\ summary = result
    BY <2>1 DEF WorkflowInv, PublishInv
  <2>3. meta'.complete => summary' = meta'.result
    <3>1. CASE ExportXml \/ ExportSidecar \/ ExportModel
      BY <2>2, <3>1 DEF ExportXml, ExportSidecar, ExportModel
    <3>2. CASE WriteMetadata
      BY <2>2, <3>2 DEF WriteMetadata, WorkflowInv, Types, DurableTypes, MetaType
    <3>3. CASE MarkComplete
      <4>1. meta.result = result /\ meta'.result = meta.result
        BY <3>3, MetaEffect DEF MarkComplete, WorkflowInv, PublishInv
      <4> QED
        BY <2>1, <2>2, <4>1
    <3> QED
      BY <1>8, <3>1, <3>2, <3>3
  <2>4. pc \notin Unreported
    BY <2>1 DEF Unreported, Finalizing
  <2> QED
    BY <2>1, <2>3, <2>4 DEF ReportInv
<1>9. CASE Crash
  <2>1. /\ pc' = "down" /\ UNCHANGED <<life, ckpt, summary, meta>>
        /\ \/ /\ pc \in Unreported /\ ckpt # None /\ ckpt.phase = "finished" /\ ckpt.life = life
              /\ lost' = life
           \/ /\ ~(pc \in Unreported /\ ckpt # None /\ ckpt.phase = "finished" /\ ckpt.life = life)
              /\ lost' = lost
    BY <1>9 DEF Crash, Gone, published
  <2> QED
    BY <2>1 DEF ReportInv
<1>10. CASE Resume
  <2>1. /\ pc = "down" /\ ckpt # None /\ life' = life + 1
        /\ UNCHANGED <<ckpt, summary, meta, lost>>
    BY <1>10 DEF Resume, fixed, published
  <2>2. CASE ~AlreadyFinished /\ Restart
    <3>1. pc' \in Searching
      BY <1>10, <2>2, StageDoors, EntryFacts DEF Restart, Searching, Doors
    <3> QED
      BY <1>2, <2>1, <2>2, <3>1 DEF ReportInv, AlreadyFinished
  <2>3. CASE AlreadyFinished /\ result' = summary /\ pc' = "finalize"
    BY <1>1, <1>2, <2>1, <2>3 DEF ReportInv, AlreadyFinished
  <2> QED
    BY <1>10, <2>2, <2>3 DEF Resume
<1> QED
  BY <1>3, <1>4, <1>5, <1>6, <1>7, <1>8, <1>9, <1>10, Steps DEF Publish

LEMMA ReportAlways == Spec => []ReportInv
<1>1. Init => ReportInv
  <2> SUFFICES ASSUME Init PROVE ReportInv
    OBVIOUS
  <2>1. /\ ckpt = None /\ meta = [complete |-> FALSE, result |-> None, best |-> None]
        /\ pc = Entry(Blank, {})
    BY DEF Init
  <2>2. pc \notin {"finalize", "write_summary"}
    BY <2>1, EntryFacts DEF Blank
  <2> QED
    BY <2>1, <2>2 DEF ReportInv
<1> QED
  BY <1>1, ReportStep, WorkflowInvariant, PTL DEF Spec

(* What best/accepted.json names can execute under the model it names: a    *)
(* recalibration never leaves an infeasible incumbent published there       *)
(* (publish_best).                                                          *)
THEOREM AcceptedAlwaysExecutes == Spec => []AcceptedExecutes
<1>1. WorkflowInv => AcceptedExecutes
  BY DEF WorkflowInv, SearchInv, AcceptedCurrent
<1> QED
  BY <1>1, WorkflowInvariant, PTL

(* A publication that run.json calls complete is one consistent result, of  *)
(* the incumbent the search ended with (finalize_run, publish_results).  An *)
(* earlier result stands in the place of a finished search's only where the *)
(* process that finished it died between its last checkpoint and its        *)
(* summary, after an aborted or unqualified one had published (resume_run). *)
THEOREM PublicationIsSound == Spec => []PublicationSound
<1>1. WorkflowInv /\ ReportInv => PublicationSound
  <2> SUFFICES ASSUME WorkflowInv, ReportInv PROVE PublicationSound
    OBVIOUS
  <2>1. Types /\ ResultInv /\ PublishInv
    BY DEF WorkflowInv
  <2>2. WTypeOK
    <3>1. /\ files.xml \in Scheds \cup {None} /\ files.sidecar \in Scheds \cup {None}
          /\ files.model \in Versions \cup {None}
      BY <2>1 DEF Types, DurableTypes, FilesType
    <3>2. {files.xml, files.sidecar} \subseteq Scheds \cup {None}
      BY <3>1
    <3>3. stop \in StopReasons \cup {None}
      BY <2>1 DEF Types, ProcessTypes, SearchStops, StopReasons
    <3>4. /\ meta.complete \in BOOLEAN /\ meta.result \in Result \cup {None}
          /\ meta.best \in Bundle \cup {None}
      BY <2>1 DEF Types, DurableTypes, MetaType
    <3>5. /\ mem.best \in Bundle \cup {None} /\ mem.rec \in Scheds \cup {None}
          /\ mem.model \in Versions /\ mem.cands \subseteq Bundle
          /\ mem.rounds \in 0 .. MaxRounds /\ mem.calibrated \in BOOLEAN
      BY <2>1 DEF Types, ProcessTypes, MemType
    <3> QED
      BY <2>1, <3>1, <3>2, <3>3, <3>4, <3>5
         DEF WTypeOK, Types, FixedTypes, DurableTypes, ProcessTypes
  <2>3. PublicationConsistent
    BY <2>1 DEF PublishInv
  <2>4. ASSUME meta.complete, meta.result.acceptance \in Kept
        PROVE  files.xml = ckpt.best
    <3>1. meta.result \in Result /\ Ended(meta.result)
      BY <2>1, <2>4, NoneAssumption DEF PublishInv, ResultInv
    <3>2. meta.best = accepted /\ summary = meta.result /\ Final(summary)
      BY <2>1, <2>4, <3>1 DEF PublishInv, ResultInv
    <3>3. accepted \in Bundle /\ accepted.sched = ckpt.best
      BY <2>4, <3>2 DEF Final
    <3>4. files.xml = meta.best.sched
      BY <2>3, <2>4, <3>2, <3>3, NoneAssumption DEF PublicationConsistent
    <3> QED
      BY <3>2, <3>3, <3>4
  <2>5. ASSUME pc = "down", ckpt # None, AlreadyFinished, meta.complete,
               meta.result.life < ckpt.life
        PROVE  lost = ckpt.life /\ meta.result.stop \in {"exception", "no_baseline"}
    <3>1. meta.result \in Result /\ summary = meta.result
      BY <2>1, <2>5 DEF PublishInv, ReportInv
    <3>2. lost = ckpt.life
      BY <2>5, <3>1, NoneAssumption DEF ReportInv, AlreadyFinished, Unreported
    <3>3. meta.result.life \in Nat /\ ckpt.life \in Nat
      BY <2>1, <2>5, <3>1 DEF Types, DurableTypes, Checkpoint, Result
    <3>4. ~Ended(meta.result)
      BY <2>1, <2>5, <3>1, <3>3 DEF ResultInv, Final
    <3> QED
      BY <3>1, <3>2, <3>4 DEF Ended
  <2> QED
    BY <2>2, <2>3, <2>4, <2>5
       DEF PublicationSound, ExportsCheckpointedIncumbent, FinishedResultNotShadowed
<1> QED
  BY <1>1, WorkflowInvariant, ReportAlways, PTL

(* Where a checkpoint comes from: every step keeps it or saves the record of *)
(* the process's incumbent.                                                  *)
LEMMA Saves ==
    WorkflowInv /\ Next => ckpt' = ckpt \/ (pc \in Searching /\ ckpt'.best = mem.rec)
<1> SUFFICES ASSUME WorkflowInv, Next
             PROVE  ckpt' = ckpt \/ (pc \in Searching /\ ckpt'.best = mem.rec)
  OBVIOUS
<1>1. Types /\ AtHand
  BY DEF WorkflowInv, SearchInv
<1>2. \A phase \in {"running", "finished"} : Snapshot(phase, mem).best = mem.rec
  BY <1>1, SnapshotFacts DEF Types, ProcessTypes
<1>3. CASE SearchStep
  BY <1>1, <1>3, SearchSaves
<1>4. CASE Unqualified \/ CleanupUnconfirmed \/ FinishCalibration \/ Decide \/ Aborted
  BY <1>2, <1>4, PlaceFacts
     DEF Unqualified, CleanupUnconfirmed, FinishCalibration, Decide, Aborted, Unwind, Save
<1>5. CASE Publish
  BY <1>5 DEF Publish, MarkIncomplete, WriteSummary, ExportXml, ExportSidecar, ExportModel,
              WriteMetadata, MarkComplete, Step, Gone
<1>6. CASE Crash \/ Resume
  BY <1>6 DEF Crash, Gone, Resume
<1> QED
  BY <1>3, <1>4, <1>5, <1>6, Steps

(* From one checkpoint to the next, through deaths and resumptions, the      *)
(* incumbent is neither lost nor, under one model, replaced by one that is   *)
(* not executable and strictly faster (accept_candidate, adopt, checkpoint). *)
THEOREM IncumbentIsMonotone == Spec => IncumbentMonotone
<1>1. WorkflowInv /\ [Next]_vars => [IncumbentKept /\ IncumbentImproves]_vars
  <2> SUFFICES ASSUME WorkflowInv, Next PROVE IncumbentKept /\ IncumbentImproves
    OBVIOUS
  <2>1. CASE ckpt' = ckpt
    BY <2>1 DEF IncumbentKept, IncumbentImproves
  <2>2. CASE pc \in Searching /\ ckpt'.best = mem.rec
    <3> SUFFICES ASSUME ckpt # None, ckpt.best # None
                 PROVE  IncumbentKept /\ IncumbentImproves
      BY DEF IncumbentKept, IncumbentImproves
    <3>1. pc # "adopted" /\ ckpt.model = mem.model
      BY <2>2 DEF WorkflowInv, SearchInv, CheckpointCurrent
    <3>2. CASE pc # "improved"
      <4>1. ckpt'.best = ckpt.best
        BY <2>2, <3>1, <3>2 DEF WorkflowInv, SearchInv, CheckpointCurrent
      <4> QED
        BY <4>1 DEF IncumbentKept, IncumbentImproves
    <3>3. CASE pc = "improved"
      <4>1. mem.rec \in Scheds
        BY <3>3, NoneAssumption DEF WorkflowInv, SearchInv, AtHand, WithIncumbent, Bundle
      <4>2. /\ cost[mem.rec][mem.model] > 0
            /\ cost[mem.rec][mem.model] < cost[ckpt.best][mem.model]
        BY <2>2, <3>3 DEF WorkflowInv, SearchInv, CheckpointCurrent
      <4> QED
        BY <2>2, <3>1, <4>1, <4>2, WorkflowAssumption DEF IncumbentKept, IncumbentImproves
    <3> QED
      BY <3>2, <3>3
  <2> QED
    BY <2>1, <2>2, Saves
<1> QED
  BY <1>1, WorkflowInvariant, PTL DEF Spec, IncumbentMonotone
=============================================================================
