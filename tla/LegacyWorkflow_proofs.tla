----------------------- MODULE LegacyWorkflow_proofs -----------------------
(***************************************************************************)
(* What a legacy run exports and what its tuner may do, for every command, *)
(* deadline, number of candidates, verdict and measurement.                *)
(*                                                                         *)
(* The inductive invariant has a part per piece of state: the candidates   *)
(* and their ids, the online validation under way, the result it left, the *)
(* tuner's history, and the records and files the run ends with.           *)
(***************************************************************************)
EXTENDS LegacyWorkflow, FiniteSums, SequenceTheorems, TLAPS

Cands == [id : Ids, rep : Reports]
Rows == [id : Ids, topology : {0, 1}, rep : Reports,
         kind : {"initial_solve", "calibrated_resolve", "verify_existing", "tuned"},
         accepted : BOOLEAN]
Calls == [id : Ids, rep : Reports, calibrate : BOOLEAN, tune : BOOLEAN,
          return : {"first", "operator", "verify", "tuned"}, until : Nat,
          stage : {"enter", "preflight", "calibrate", "measure", "trace"}, blocked : BOOLEAN,
          rounds : Nat, stable : BOOLEAN, res : Results(Perfs) \cup {None}]
Tunings == [online : BOOLEAN, asked : Nat, budget : Int, started : Int,
            best : Entries \cup {None}, iteration : Nat,
            queue : Seq([sched : TunedScheds, fits : BOOLEAN]), late : BOOLEAN,
            signatures : SUBSET (Ids \cup TunedScheds), history : Seq(Entries),
            sim : Nat]

(* A report is of a lowered schedule exactly when the checks accept it. *)
Sensible(rep) == rep.artifact = rep.core

TypeOK ==
    /\ conf \in Confs /\ clock \in Nat /\ topology \in {0, 1} /\ key \in {0, 1}
    /\ cands \in Seq(Cands) /\ lineage \in Seq(Rows) /\ records \in Seq(Rows)
    /\ final \in Ids \cup {None}
    /\ online \in Results(Perfs) \cup {None}
    /\ call \in Calls \cup {None}
    /\ tuning \in Tunings

(* The validation of a repair, from the call to its assessment. *)
TunedCall == \/ pc = "judge"
             \/ pc \in {"online", "return"} /\ call.return = "tuned"
InTuner == pc \in {"iterate", "propose", "tuned"} \/ TunedCall

(* Ids are distinct within a solve and name the key of its topology. *)
SearchInv ==
    /\ \A i \in DOMAIN cands : Sensible(cands[i].rep)
    /\ topology = 0 <=> lineage = <<>>
    /\ topology = 0 => key = 0
    /\ conf.mode = "verify" => topology = 0
    /\ \A i \in DOMAIN lineage : lineage[i].id = <<"solve", 0, i>>
    /\ pc \notin {"solve", "failed"} =>
         \A i \in DOMAIN cands :
           IF conf.mode = "solve" THEN cands[i].id = <<"solve", key, i>>
           ELSE cands[i].id \in SidecarIds
    /\ conf.mode = "verify" => Len(cands) <= 1

Selectable(i) == cands[i].id = final /\ OfflineValid(cands[i].rep)

(* The selected candidate is a valid one of the latest solve, until the     *)
(* tuner replaces it.                                                       *)
FinalInv ==
    /\ pc \notin {"solve", "failed", "write", "finalize", "done"} /\ final # None =>
         \E i \in DOMAIN cands : Selectable(i)
    /\ pc \in {"online", "return", "tune", "tune_initial"} \/ InTuner => final # None

(* The online validation under way: whose it is, and what it has seen. *)
CallInv ==
    /\ pc \in {"online", "return"} =>
         /\ call \in Calls
         /\ call.return # "tuned" =>
              /\ call.id = final /\ OfflineValid(call.rep) /\ Sensible(call.rep)
              /\ \A i \in DOMAIN cands :
                   cands[i].id = final => cands[i].rep.runtime = call.rep.runtime
         /\ call.return = "first" => call.calibrate /\ lineage = <<>>
         /\ call.return = "operator" => lineage # <<>>
         /\ call.return = "verify" => conf.mode = "verify"
    /\ pc = "online" =>
         /\ call.res # None /\ ~call.res.allowed
         /\ call.stage # "trace" => ~call.stable
         /\ call.stage \in {"measure", "trace"} /\ call.calibrate /\ conf.plan =>
              call.blocked
         /\ call.stage = "trace" /\ call.stable => call.res.release = "passed"
    /\ pc = "return" =>
         IF call.res = None THEN ~call.rep.runtime
         ELSE call.res.allowed => /\ AttachEligible(call.res)
                                  /\ ~(call.calibrate /\ conf.plan)

(* A result that allows tuning can be handed to the tuner, and measured     *)
(* under the calibrated topology when there was one to measure.             *)
OnlineInv ==
    /\ online # None /\ online.allowed =>
         AttachEligible(online) /\ (conf.plan => topology = 1)
    /\ pc \in {"tune", "tune_initial"} \/ InTuner => (online # None => online.allowed)
    /\ pc \in {"records", "tune", "tune_initial"} /\ conf.online /\ online = None
         /\ final # None =>
         \A i \in DOMAIN cands : cands[i].id = final => ~cands[i].rep.runtime

(* The ids of the history are those of proposals already concluded. *)
Concluded(id) ==
    /\ id[1] = "tune"
    /\ id[2] < tuning.iteration \/ (id[2] = tuning.iteration /\ id[3] > Len(tuning.queue))

HistoryInv ==
    LET h == tuning.history IN
    /\ pc \in {"tune_initial", "iterate"} => tuning.queue = <<>>
    /\ pc \notin {"failed", "write", "finalize", "done"} /\ ~InTuner => h = <<>>
    /\ InTuner =>
         /\ h # <<>> /\ h[1].id = final /\ h[1].rep # None
         /\ \A i \in 2 .. Len(h) : h[i].id # h[1].id
         /\ \A i \in 2 .. Len(h) : Concluded(h[i].id) /\ h[i].sig \in TunedScheds
         /\ \A i, j \in 2 .. Len(h) : i # j => h[i].id # h[j].id
         /\ truth \in [TunedScheds -> Verdict]

(* What tuning has reached, next to what it started from. *)
Reached(best, first) ==
    /\ best.rep # None /\ Sensible(best.rep) /\ best.accepted
    /\ Rejection(best.rep, best.perf, tuning.online) = None
    /\ tuning.online => best.perf # None /\ first.perf # None
    /\ tuning.online => best.perf.median <= first.perf.median
    /\ conf.online => tuning.online

BestInv ==
    LET h == tuning.history IN
    /\ InTuner \/ pc = "tune_initial" => (tuning.online <=> online # None)
    /\ InTuner /\ tuning.best # None =>
         /\ Reached(tuning.best, h[1])
         /\ \E i \in DOMAIN h :
              h[i] = tuning.best /\ (i # 1 => tuning.best.rep.sim < h[1].rep.sim)
    /\ pc = "propose" \/ TunedCall => tuning.best # None
    /\ TunedCall => /\ call \in Calls /\ tuning.queue # <<>> /\ Sensible(call.rep)
                    /\ call.rep.sim < tuning.best.rep.sim
                    /\ h[1].id # ProposalId

(* The record of the selected candidate is the only one with its id, unless *)
(* two solves had the same key.                                             *)
Chosen(i) ==
    /\ records[i].id = final /\ records[i].topology = topology
    /\ OfflineValid(records[i].rep) /\ records[i].rep.artifact
    /\ ~SameName => \A j \in DOMAIN records : records[j].id = final => j = i
    /\ Tuned =>
         /\ final[1] = "tune"
         /\ tuning.best # None /\ Reached(tuning.best, tuning.history[1])
         /\ records[i].rep = tuning.best.rep
         /\ tuning.best.rep.sim < tuning.history[1].rep.sim

RecordsInv ==
    /\ pc \in {"tune", "tune_initial"} \/ InTuner =>
         \A i \in DOMAIN records : records[i].id[1] = "tune" => records[i].id = final
    /\ (pc \in {"tune", "tune_initial", "write", "finalize", "done"} \/ InTuner)
         /\ final # None => \E i \in DOMAIN records : Chosen(i)

Excused(kind) ==
    /\ kind # "attach"
    /\ kind = "no_xml" => SameName
    /\ kind = "duplicate" => conf.mode = "verify" /\ final[1] = "tune"

FilesInv ==
    /\ pc \in {"finalize", "done"} =>
         files = [i \in DOMAIN records |-> Artifact(records[i])]
    /\ pc = "done" /\ final # None => /\ alias = files[IndexOf(files, final)]
                                       /\ alias.xml
    /\ error \in {"attach", "no_xml", "duplicate"} =>
         pc = "failed" /\ Excused(error)

LegacyInv ==
    /\ TypeOK /\ SearchInv /\ FinalInv /\ CallInv /\ OnlineInv
    /\ HistoryInv /\ BestInv /\ RecordsInv /\ FilesInv

-----------------------------------------------------------------------------
(* The operators of the model. *)

LEMMA ReportFacts ==
    ASSUME NEW v \in Verdict
    PROVE  /\ Report(v) \in Reports /\ Sensible(Report(v))
           /\ Report(v).sim <= v.sim /\ v.sim \in Nat
<1>1. v \in Verdicts(Nat)
  BY LegacyAssumption
<1>2. v.sim \in Nat /\ v.runtime \in BOOLEAN
  BY <1>1 DEF Verdicts
<1> DEFINE c == v.fault = "none"
           r == c /\ v.runtime
           b == IF ~c THEN "not_run" ELSE IF v.bdd THEN "valid" ELSE "analysis_error"
           n == IF c THEN v.sim ELSE 0
<1>3. c \in BOOLEAN /\ r \in BOOLEAN /\ b \in {"not_run", "valid", "analysis_error"}
  OBVIOUS
<1>4. n \in Nat /\ n <= v.sim
  BY <1>2
<1>5. Report(v) = [core |-> c, artifact |-> c, runtime |-> r, bdd |-> b, sim |-> n,
                   online |-> "not_run"]
  BY DEF Report
<1> HIDE DEF c, r, b, n
<1>6. Report(v) \in Reports
  BY <1>3, <1>4, <1>5 DEF Reports
<1> QED
  BY <1>2, <1>4, <1>5, <1>6 DEF Sensible

LEMMA IndexIs ==
    ASSUME NEW S, NEW s \in Seq(S), NEW id, NEW i \in DOMAIN s, s[i].id = id,
           \A j \in DOMAIN s : s[j].id = id => j = i
    PROVE  IndexOf(s, id) = i
<1>1. DOMAIN s = 1 .. Len(s) /\ Len(s) \in Nat
  OBVIOUS
<1>2. i \in 1 .. Len(s) /\ s[i].id = id /\ \A j \in 1 .. i - 1 : s[j].id # id
  BY <1>1
<1>3. \A k \in 1 .. Len(s) : s[k].id = id => k = i
  BY <1>1
<1> QED
  BY <1>2, <1>3 DEF IndexOf

LEMMA OnlineReportFacts ==
    ASSUME NEW rep \in Reports, NEW r
    PROVE  LET w == WithOnlineResult(rep, r) IN
           /\ w \in Reports /\ w.core = rep.core /\ w.artifact = rep.artifact
           /\ w.runtime = rep.runtime /\ w.bdd = rep.bdd /\ w.sim = rep.sim
<1> DEFINE o == WithOnlineResult(rep, r).online
           ran == r.operator = "passed" /\ ~r.failed
           c == CASE ran /\ r.release = "passed"   -> "valid"
                  [] ran /\ r.release = "unstable" -> "warning"
                  [] OTHER                         -> "failed"
<1>1. c \in {"valid", "warning", "failed"}
  <2>1. CASE ran /\ r.release = "passed"
    BY <2>1, SMT
  <2>2. CASE ran /\ r.release = "unstable"
    BY <2>2, SMT
  <2>3. CASE ~(ran /\ r.release = "passed") /\ ~(ran /\ r.release = "unstable")
    BY <2>3, SMT
  <2> QED
    BY <2>1, <2>2, <2>3
<1>2. WithOnlineResult(rep, r) = [rep EXCEPT !.online = c]
  BY DEF WithOnlineResult
<1> HIDE DEF c
<1> QED
  BY <1>1, <1>2 DEF Reports

LEMMA ResultTypes ==
    /\ NoResult \in Results(Perfs) /\ RequiresResolve \in Results(Perfs)
    /\ ~NoResult.allowed /\ ~RequiresResolve.allowed
    /\ \A r \in Results(Perfs) : Failed(r) \in Results(Perfs) /\ Failed(r).allowed = r.allowed
    /\ None \notin Results(Perfs) /\ None \notin Perfs /\ None \notin Reports
    /\ None \notin Entries
<1>1. NoResult \in Results(Perfs) /\ ~NoResult.allowed
  BY DEF Results, NoResult
<1>2. RequiresResolve \in Results(Perfs) /\ ~RequiresResolve.allowed
  BY DEF Results, NoResult, RequiresResolve
<1>3. ASSUME NEW r \in Results(Perfs)
      PROVE  Failed(r) \in Results(Perfs) /\ Failed(r).allowed = r.allowed
  BY DEF Results, Failed
<1> QED
  BY <1>1, <1>2, <1>3, NoneAssumption

(* The selected candidate has one place among the candidates. *)
LEMMA SelectedPlace ==
    ASSUME TypeOK, SearchInv, FinalInv, final # None,
           pc \notin {"solve", "failed", "write", "finalize", "done"}
    PROVE  LET k == IndexOf(cands, final) IN
           /\ k \in DOMAIN cands /\ cands[k] \in Cands
           /\ Selectable(k) /\ Sensible(cands[k].rep)
           /\ \A j \in DOMAIN cands : cands[j].id = final => j = k
<1>1. PICK k \in DOMAIN cands : Selectable(k)
  BY DEF FinalInv
<1>2. DOMAIN cands = 1 .. Len(cands) /\ Len(cands) \in Nat /\ cands \in Seq(Cands)
  BY DEF TypeOK
<1>3. ASSUME NEW j \in DOMAIN cands, cands[j].id = cands[k].id PROVE j = k
  <2>1. conf.mode \in {"solve", "verify"}
    BY LegacyAssumption DEF TypeOK
  <2>2. CASE conf.mode = "solve"
    <3>1. cands[j].id = <<"solve", key, j>> /\ cands[k].id = <<"solve", key, k>>
      BY <2>2 DEF SearchInv
    <3>2. cands[j].id[3] = j /\ cands[k].id[3] = k
      BY <3>1
    <3> QED
      BY <1>3, <3>2
  <2>3. CASE conf.mode = "verify"
    BY <1>2, <2>3 DEF SearchInv
  <2> QED
    BY <2>1, <2>2, <2>3
<1>4. IndexOf(cands, final) = k
  BY <1>1, <1>2, <1>3, IndexIs DEF Selectable
<1> QED
  BY <1>1, <1>2, <1>3, <1>4 DEF Selectable, SearchInv
-----------------------------------------------------------------------------
(* Steps that change little. *)

LEMMA TickStep == LegacyInv /\ Tick => LegacyInv'
<1> SUFFICES ASSUME LegacyInv, Tick PROVE LegacyInv'
  OBVIOUS
<1> USE DEF LegacyInv, Tick
<1>1. TypeOK'
  BY DEF TypeOK
<1>2. TunedCall' = TunedCall /\ InTuner' = InTuner
  BY DEF TunedCall, InTuner
<1>3. SearchInv' /\ FinalInv' /\ CallInv' /\ OnlineInv'
  BY <1>2 DEF SearchInv, FinalInv, Selectable, CallInv, OnlineInv
<1>4. HistoryInv' /\ BestInv'
  BY <1>2 DEF HistoryInv, Concluded, BestInv, Reached, ProposalId
<1>5. RecordsInv' /\ FilesInv'
  BY <1>2 DEF RecordsInv, Chosen, Reached, SameName, Tuned, FilesInv, Artifact, Excused
<1> QED
  BY <1>1, <1>3, <1>4, <1>5

LEMMA FailStep ==
    ASSUME LegacyInv, NEW kind, Excused(kind), Fail(kind),
           UNCHANGED <<clock, sources>>
    PROVE  LegacyInv'
<1> USE DEF LegacyInv, Fail, sources
<1>1. TypeOK'
  BY DEF TypeOK
<1>2. ~TunedCall' /\ ~InTuner'
  BY DEF TunedCall, InTuner
<1>3. SearchInv' /\ FinalInv' /\ CallInv' /\ OnlineInv'
  BY <1>2 DEF SearchInv, FinalInv, Selectable, CallInv, OnlineInv
<1>4. HistoryInv' /\ BestInv' /\ RecordsInv' /\ FilesInv'
  BY <1>2 DEF HistoryInv, BestInv, RecordsInv, FilesInv, Excused, SameName
<1> QED
  BY <1>1, <1>3, <1>4

LEMMA TimeoutExcused == Excused("timeout") /\ Excused("input")
  BY DEF Excused

LEMMA StutterStep == LegacyInv /\ UNCHANGED vars => LegacyInv'
<1> SUFFICES ASSUME LegacyInv, UNCHANGED vars PROVE LegacyInv'
  OBVIOUS
<1> USE DEF LegacyInv, vars
<1>1. TypeOK'
  BY DEF TypeOK
<1>2. TunedCall' = TunedCall /\ InTuner' = InTuner
  BY DEF TunedCall, InTuner
<1>3. SearchInv' /\ FinalInv' /\ CallInv' /\ OnlineInv'
  BY <1>2 DEF SearchInv, FinalInv, Selectable, CallInv, OnlineInv
<1>4. HistoryInv' /\ BestInv'
  BY <1>2 DEF HistoryInv, Concluded, BestInv, Reached, ProposalId
<1>5. RecordsInv' /\ FilesInv'
  BY <1>2 DEF RecordsInv, Chosen, Reached, SameName, Tuned, FilesInv, Artifact, Excused
<1> QED
  BY <1>1, <1>3, <1>4, <1>5

(* Before the tuner there is neither history nor record to disturb. *)
LEMMA QuietStep ==
    ASSUME LegacyInv, ~InTuner, ~InTuner', ~TunedCall', UNCHANGED <<tuning, error>>,
           pc \notin {"failed", "write", "finalize", "done"},
           pc' \in {"solve", "select", "online", "return", "records"}
    PROVE  HistoryInv' /\ BestInv' /\ RecordsInv' /\ FilesInv'
<1> USE DEF LegacyInv
<1>1. HistoryInv' /\ BestInv'
  BY DEF HistoryInv, BestInv
<1>2. RecordsInv' /\ FilesInv'
  BY DEF RecordsInv, FilesInv
<1> QED
  BY <1>1, <1>2

-----------------------------------------------------------------------------
(* Solving and offline validation. *)

(* A new list of candidates with their ids, and one of the valid selected. *)
LEMMA NewCandidates ==
    ASSUME LegacyInv, pc = "solve", pc' = "select",
           UNCHANGED <<error, topology, key, lineage, online, call, records, tuning,
                       files, alias, clock, sources>>,
           cands' \in Seq(Cands), NEW selected, final' = SelectFinal(cands', selected),
           \A i \in DOMAIN cands' :
             /\ Sensible(cands'[i].rep)
             /\ IF conf.mode = "solve" THEN cands'[i].id = <<"solve", key, i>>
                ELSE cands'[i].id \in SidecarIds,
           conf.mode = "verify" => Len(cands') <= 1
    PROVE  LegacyInv'
<1> USE DEF LegacyInv, sources
<1>1. DOMAIN cands' = 1 .. Len(cands') /\ Len(cands') \in Nat
  OBVIOUS
<1> DEFINE ok == {i \in 1 .. Len(cands') : OfflineValid(cands'[i].rep)}
<1>2. final' = None \/ \E i \in ok : final' = cands'[i].id
  <2>1. CASE selected \in ok
    BY <2>1 DEF SelectFinal
  <2>2. CASE ok = {}
    BY <2>2 DEF SelectFinal
  <2>3. CASE selected \notin ok /\ ok # {}
    <3>1. PICK m \in ok : \A j \in ok : m <= j
      <4>1. ok \in SUBSET Nat /\ ok # {}
        BY <1>1, <2>3
      <4> QED
        BY <4>1, LeastNatural
    <3> DEFINE m1 == CHOOSE i \in ok : \A j \in ok : i <= j
    <3>2. m1 \in ok
      BY <3>1
    <3>3. final' = cands'[m1].id
      BY <2>3 DEF SelectFinal
    <3> HIDE DEF m1, ok
    <3> QED
      BY <3>2, <3>3
  <2> QED
    BY <2>1, <2>2, <2>3
<1>3. final' # None => \E i \in DOMAIN cands' : Selectable(i)'
  BY <1>1, <1>2 DEF Selectable
<1>4. final' \in Ids \cup {None}
  <2>1. \A i \in DOMAIN cands' : cands'[i] \in Cands
    OBVIOUS
  <2> QED
    BY <1>1, <1>2, <2>1 DEF Cands
<1>5. TypeOK'
  BY <1>4 DEF TypeOK
<1>6. ~TunedCall' /\ ~InTuner'
  BY DEF TunedCall, InTuner
<1>7. SearchInv' /\ FinalInv'
  BY <1>3, <1>6 DEF SearchInv, FinalInv
<1>8. CallInv' /\ OnlineInv'
  BY <1>6 DEF CallInv, OnlineInv
<1>9. HistoryInv' /\ BestInv' /\ RecordsInv' /\ FilesInv'
  BY <1>6, QuietStep DEF InTuner, TunedCall
<1> QED
  BY <1>5, <1>7, <1>8, <1>9

LEMMA CandidateFacts ==
    ASSUME NEW id \in Ids, NEW v \in Verdict
    PROVE  /\ Candidate(id, v) \in Cands /\ Candidate(id, v).id = id
           /\ Sensible(Candidate(id, v).rep)
<1>1. Report(v) \in Reports /\ Sensible(Report(v))
  BY ReportFacts
<1> QED
  BY <1>1 DEF Candidate, Cands

LEMMA SolveStep == LegacyInv /\ Solve => LegacyInv'
<1> SUFFICES ASSUME LegacyInv, Solve PROVE LegacyInv'
  OBVIOUS
<1>1. CASE Late
  <2>1. Fail("timeout") /\ UNCHANGED <<clock, sources>>
    BY <1>1 DEF Solve
  <2> QED
    BY <2>1, FailStep, TimeoutExcused
<1>2. CASE ~Late
  <2>1. PICK n \in 0 .. conf.width : \E vs \in [1 .. n -> Verdict] :
            \E selected \in 0 .. n :
              /\ cands' = [i \in 1 .. n |-> Candidate(SolverId(key, i), vs[i])]
              /\ final' = SelectFinal(cands', selected)
              /\ pc' = "select"
              /\ UNCHANGED <<error, topology, key, lineage, online, call, records,
                             tuning, files, alias>>
    BY <1>2 DEF Solve
  <2>2. PICK vs \in [1 .. n -> Verdict], selected \in 0 .. n :
              /\ cands' = [i \in 1 .. n |-> Candidate(SolverId(key, i), vs[i])]
              /\ final' = SelectFinal(cands', selected)
              /\ pc' = "select"
              /\ UNCHANGED <<error, topology, key, lineage, online, call, records,
                             tuning, files, alias>>
    BY <2>1
  <2>3. conf.width \in Nat /\ key \in {0, 1} /\ n \in Nat
    BY LegacyAssumption DEF LegacyInv, TypeOK
  <2>4. ASSUME NEW i \in 1 .. n
        PROVE  /\ cands'[i] \in Cands /\ Sensible(cands'[i].rep)
               /\ cands'[i].id = <<"solve", key, i>>
    <3>1. SolverId(key, i) = <<"solve", key, i>> /\ SolverId(key, i) \in Ids
      BY <2>3 DEF SolverId, Ids
    <3>2. cands'[i] = Candidate(SolverId(key, i), vs[i])
      BY <2>2
    <3> QED
      BY <3>1, <3>2, CandidateFacts
  <2>5. cands' \in Seq(Cands) /\ DOMAIN cands' = 1 .. n
    BY <2>2, <2>3, <2>4
  <2>6. conf.mode = "solve" /\ pc = "solve" /\ UNCHANGED <<clock, sources>>
    BY DEF Solve
  <2> QED
    BY <2>2, <2>4, <2>5, <2>6, NewCandidates
<1> QED
  BY <1>1, <1>2

LEMMA SidecarFacts ==
    \A id \in SidecarIds : id \in Ids /\ id[1] # "solve"
<1> SUFFICES ASSUME NEW id \in SidecarIds PROVE id \in Ids /\ id[1] # "solve"
  OBVIOUS
<1>1. CASE id = <<"sidecar">>
  <2>1. id[1] = "sidecar"
    BY <1>1
  <2> QED
    BY <1>1, <2>1 DEF Ids
<1>2. CASE id \in {"tune"} \X (1 .. MaxIterations) \X (1 .. MaxProposals)
  <2>1. id \in {"tune"} \X Nat \X Nat
    BY <1>2, LegacyAssumption
  <2> QED
    BY <2>1 DEF Ids
<1> QED
  BY <1>1, <1>2 DEF SidecarIds

LEMMA VerifyStep == LegacyInv /\ Verify => LegacyInv'
<1> SUFFICES ASSUME LegacyInv, Verify PROVE LegacyInv'
  OBVIOUS
<1>1. CASE Fail("input") \/ Fail("timeout")
  <2>1. UNCHANGED <<clock, sources>>
    BY DEF Verify
  <2> QED
    BY <1>1, <2>1, FailStep, TimeoutExcused
<1>2. CASE ~(Fail("input") \/ Fail("timeout"))
  <2>1. PICK id \in SidecarIds, v \in Verdict :
          /\ cands' = <<Candidate(id, v)>>
          /\ final' = SelectFinal(cands', 1)
    BY <1>2 DEF Verify
  <2>2. /\ pc = "solve" /\ conf.mode = "verify" /\ pc' = "select"
        /\ UNCHANGED <<error, topology, key, lineage, online, call, records,
                       tuning, files, alias, clock, sources>>
    BY <1>2 DEF Verify
  <2>3. /\ Candidate(id, v) \in Cands /\ Candidate(id, v).id = id
        /\ Sensible(Candidate(id, v).rep)
    BY SidecarFacts, CandidateFacts
  <2> DEFINE c == Candidate(id, v)
  <2> HIDE DEF c
  <2>4. cands' = <<c>> /\ c \in Cands /\ c.id \in SidecarIds /\ Sensible(c.rep)
    BY <2>1, <2>3 DEF c
  <2>5. /\ cands' \in Seq(Cands) /\ Len(cands') = 1 /\ DOMAIN cands' = 1 .. 1
        /\ cands'[1] = c
    BY <2>4
  <2>6. \A i \in DOMAIN cands' : i = 1
    BY <2>5
  <2> QED
    BY <2>1, <2>2, <2>4, <2>5, <2>6, NewCandidates
<1> QED
  BY <1>1, <1>2

-----------------------------------------------------------------------------
(* Online validation. *)

LEMMA CallFacts ==
    ASSUME NEW id \in Ids, NEW rep \in Reports, NEW cal \in BOOLEAN,
           NEW tune \in BOOLEAN, NEW ret \in {"first", "operator", "verify", "tuned"}
    PROVE  LET c == Call(id, rep, cal, tune, ret) IN
           /\ c \in Calls
           /\ c.id = id /\ c.rep = rep /\ c.calibrate = cal /\ c.return = ret
           /\ c.stage = "enter" /\ ~c.stable /\ c.res = NoResult
<1>1. Call(id, rep, cal, tune, ret) \in Calls
  BY ResultTypes DEF Call, Calls
<1> QED
  BY <1>1 DEF Call

LEMMA SelectedStep == LegacyInv /\ Selected => LegacyInv'
<1> SUFFICES ASSUME LegacyInv, Selected PROVE LegacyInv'
  OBVIOUS
<1> USE DEF LegacyInv
<1>1. CASE Late
  <2>1. Fail("timeout") /\ UNCHANGED <<clock, sources>>
    BY <1>1 DEF Selected
  <2> QED
    BY <2>1, FailStep, TimeoutExcused
<1>2. CASE ~Late
  <2>1. /\ pc = "select"
        /\ UNCHANGED <<error, topology, key, cands, final, lineage, online, records,
                       tuning, files, alias, clock, conf, truth>>
    BY <1>2 DEF Selected, search, sources
  <2>2. CASE conf.online /\ final # None
    <3> DEFINE k == IndexOf(cands, final)
               first == lineage = <<>>
               ret == IF first THEN "first" ELSE "operator"
    <3>1. pc' = "online" /\ call' = Call(final, cands[k].rep, first, conf.tune, ret)
      BY <1>2, <2>2 DEF Selected
    <3>2. /\ k \in DOMAIN cands /\ cands[k] \in Cands /\ Selectable(k)
          /\ Sensible(cands[k].rep)
          /\ \A j \in DOMAIN cands : cands[j].id = final => j = k
      BY <2>1, <2>2, SelectedPlace
    <3>3. /\ cands[k].rep \in Reports /\ final \in Ids /\ conf.tune \in BOOLEAN
          /\ first \in BOOLEAN /\ ret \in {"first", "operator", "verify", "tuned"}
      <4>1. cands[k].rep \in Reports
        BY <3>2 DEF Cands
      <4>2. final \in Ids
        BY <2>2 DEF TypeOK
      <4>3. conf.tune \in BOOLEAN
        BY LegacyAssumption DEF TypeOK
      <4> QED
        BY <4>1, <4>2, <4>3
    <3>4. /\ call' \in Calls /\ call'.id = final
          /\ call'.rep = cands[k].rep /\ call'.calibrate = first /\ call'.return = ret
          /\ call'.stage = "enter" /\ ~call'.stable /\ call'.res = NoResult
      <4> HIDE DEF k, first, ret
      <4> QED
        BY <3>1, <3>3, CallFacts
    <3>5. TypeOK'
      BY <2>1, <3>4 DEF TypeOK
    <3>6. call'.return # "tuned" /\ ~TunedCall' /\ ~InTuner'
      BY <3>1, <3>4 DEF TunedCall, InTuner
    <3>7. SearchInv' /\ FinalInv'
      BY <2>1, <2>2, <3>1, <3>6 DEF SearchInv, FinalInv, Selectable
    <3>8. CallInv'
      <4>1. /\ call'.return = "first" => call'.calibrate /\ lineage = <<>>
            /\ call'.return = "operator" => lineage # <<>>
            /\ call'.return # "verify"
        BY <3>4
      <4>2. call'.res # None /\ ~call'.res.allowed
        BY <3>4, ResultTypes
      <4>3. \A i \in DOMAIN cands :
              cands[i].id = final => cands[i].rep.runtime = call'.rep.runtime
        BY <3>2, <3>4
      <4>4. OfflineValid(call'.rep) /\ Sensible(call'.rep)
        BY <3>2, <3>4 DEF Selectable
      <4> HIDE DEF k, first, ret
      <4> QED
        BY <2>1, <3>1, <3>4, <4>1, <4>2, <4>3, <4>4 DEF CallInv
    <3>9. OnlineInv'
      BY <2>1, <3>1, <3>6 DEF OnlineInv
    <3>10. HistoryInv' /\ BestInv' /\ RecordsInv' /\ FilesInv'
      BY <2>1, <3>1, <3>6, QuietStep DEF InTuner, TunedCall
    <3> QED
      BY <3>5, <3>7, <3>8, <3>9, <3>10
  <2>3. CASE ~(conf.online /\ final # None)
    <3>1. pc' = "records" /\ UNCHANGED call
      BY <1>2, <2>3 DEF Selected
    <3>2. TypeOK'
      BY <2>1, <3>1 DEF TypeOK
    <3>3. ~TunedCall' /\ ~InTuner'
      BY <3>1 DEF TunedCall, InTuner
    <3>4. SearchInv' /\ FinalInv'
      BY <2>1, <3>1, <3>3 DEF SearchInv, FinalInv, Selectable
    <3>5. CallInv'
      BY <3>1 DEF CallInv
    <3>6. OnlineInv'
      BY <2>1, <2>3, <3>1, <3>3 DEF OnlineInv
    <3>7. HistoryInv' /\ BestInv' /\ RecordsInv' /\ FilesInv'
      BY <2>1, <3>1, <3>3, QuietStep DEF InTuner, TunedCall
    <3> QED
      BY <3>2, <3>4, <3>5, <3>6, <3>7
  <2> QED
    BY <2>2, <2>3
<1> QED
  BY <1>1, <1>2

(* A step of the validation under way that keeps what it is about. *)
LEMMA ValidationStep ==
    ASSUME LegacyInv, pc = "online", pc' \in {"online", "return"}, call' \in Calls,
           UNCHANGED <<clock, error, topology, key, cands, final, lineage, online,
                       records, tuning, conf, truth, files, alias>>,
           call'.id = call.id, call'.rep = call.rep,
           call'.calibrate = call.calibrate, call'.return = call.return,
           pc' = "online" =>
             /\ call'.res # None /\ ~call'.res.allowed
             /\ call'.stage # "trace" => ~call'.stable
             /\ call'.stage \in {"measure", "trace"} /\ call.calibrate /\ conf.plan =>
                  call'.blocked
             /\ call'.stage = "trace" /\ call'.stable => call'.res.release = "passed",
           pc' = "return" =>
             IF call'.res = None THEN ~call.rep.runtime
             ELSE call'.res.allowed => /\ AttachEligible(call'.res)
                                       /\ ~(call.calibrate /\ conf.plan)
    PROVE  LegacyInv'
<1> USE DEF LegacyInv
<1>1. call \in Calls
  BY DEF CallInv
<1>2. TypeOK'
  BY DEF TypeOK
<1>3. TunedCall' = TunedCall /\ InTuner' = InTuner
  BY DEF TunedCall, InTuner
<1>4. SearchInv' /\ FinalInv'
  BY <1>3 DEF SearchInv, FinalInv, Selectable
<1>5. CallInv'
  BY <1>1 DEF CallInv, OfflineValid, Sensible
<1>6. OnlineInv'
  BY <1>3 DEF OnlineInv
<1>7. HistoryInv'
  BY <1>3 DEF HistoryInv, Concluded
<1>8. BestInv'
  BY <1>1, <1>3 DEF BestInv, Reached, Sensible, ProposalId
<1>9. RecordsInv' /\ FilesInv'
  BY <1>3 DEF RecordsInv, Chosen, Reached, SameName, Tuned, FilesInv, Artifact, Excused
<1> QED
  BY <1>2, <1>4, <1>5, <1>6, <1>7, <1>8, <1>9

LEMMA EnterStep == LegacyInv /\ Enter => LegacyInv'
<1> SUFFICES ASSUME LegacyInv, Enter PROVE LegacyInv'
  OBVIOUS
<1>1. pc = "online" /\ call.stage = "enter" /\ UNCHANGED <<clock, sources>>
  BY DEF Enter
<1>2. call \in Calls /\ call.res # None /\ ~call.res.allowed /\ ~call.stable
  BY <1>1 DEF LegacyInv, CallInv
<1>3. CASE ~call.rep.runtime
  <2>1. /\ call' = [call EXCEPT !.res = None] /\ pc' = "return"
        /\ UNCHANGED <<error, search, online, records, tuning, files, alias>>
    BY <1>3 DEF Enter, Return
  <2>2. /\ call' \in Calls /\ call'.id = call.id /\ call'.rep = call.rep
        /\ call'.calibrate = call.calibrate /\ call'.return = call.return
        /\ call'.res = None
    BY <1>2, <2>1 DEF Calls
  <2> QED
    BY <1>1, <1>3, <2>1, <2>2, ValidationStep DEF search, sources
<1>4. CASE call.rep.runtime /\ Expired
  <2>1. Fail("timeout")
    BY <1>4 DEF Enter
  <2> QED
    BY <1>1, <2>1, FailStep, TimeoutExcused
<1>5. CASE call.rep.runtime /\ ~Expired
  <2>1. /\ call' = [call EXCEPT !.stage = "preflight", !.until = Limit]
        /\ UNCHANGED <<pc, error, search, online, records, tuning, files, alias>>
    BY <1>5 DEF Enter
  <2>2. /\ call' \in Calls /\ call'.id = call.id /\ call'.rep = call.rep
        /\ call'.calibrate = call.calibrate /\ call'.return = call.return
        /\ call'.res = call.res /\ call'.stage = "preflight"
        /\ call'.stable = call.stable
    BY <1>2, <2>1, LegacyAssumption DEF Calls
  <2> QED
    BY <1>1, <1>2, <2>1, <2>2, ValidationStep DEF search, sources
<1> QED
  BY <1>3, <1>4, <1>5

(* What a stage of the validation leaves alone. *)
LEMMA StageFacts ==
    ASSUME LegacyInv, NEW s, Stage(s)
    PROVE  /\ pc = "online" /\ call.stage = s /\ call \in Calls
           /\ call.res \in Results(Perfs) /\ ~call.res.allowed
           /\ UNCHANGED <<clock, error, topology, key, cands, final, lineage, online,
                          records, tuning, conf, truth, files, alias>>
<1>1. call \in Calls /\ call.res # None /\ ~call.res.allowed
  BY DEF LegacyInv, CallInv, Stage
<1>2. call.res \in Results(Perfs)
  BY <1>1 DEF Calls
<1> QED
  BY <1>1, <1>2 DEF Stage, search, sources

LEMMA ReturnStep ==
    ASSUME LegacyInv, NEW s, Stage(s), NEW r \in Results(Perfs), Return(r),
           r.allowed => AttachEligible(r) /\ ~(call.calibrate /\ conf.plan)
    PROVE  LegacyInv'
<1>1. /\ pc = "online" /\ call \in Calls
      /\ UNCHANGED <<clock, error, topology, key, cands, final, lineage, online,
                     records, tuning, conf, truth, files, alias>>
  BY StageFacts
<1>2. /\ call' \in Calls /\ call'.id = call.id /\ call'.rep = call.rep
      /\ call'.calibrate = call.calibrate /\ call'.return = call.return
      /\ call'.res = r /\ pc' = "return"
  BY <1>1 DEF Calls, Return
<1>3. r # None
  BY ResultTypes
<1> QED
  BY <1>1, <1>2, <1>3, ValidationStep

LEMMA PreflightStep == LegacyInv /\ Preflight => LegacyInv'
<1> SUFFICES ASSUME LegacyInv, Preflight PROVE LegacyInv'
  OBVIOUS
<1>1. Stage("preflight")
  BY DEF Preflight
<1>2. CASE Return(Failed(NoResult))
  <2>1. Failed(NoResult) \in Results(Perfs) /\ ~Failed(NoResult).allowed
    BY ResultTypes
  <2> QED
    BY <1>1, <1>2, <2>1, ReturnStep
<1>3. CASE Go(IF call.calibrate /\ conf.plan THEN "calibrate" ELSE "measure", NoResult)
  <2> DEFINE s == IF call.calibrate /\ conf.plan THEN "calibrate" ELSE "measure"
  <2>1. /\ pc = "online" /\ call.stage = "preflight" /\ call \in Calls /\ ~call.stable
        /\ UNCHANGED <<clock, error, topology, key, cands, final, lineage, online,
                       records, tuning, conf, truth, files, alias>>
    BY <1>1, StageFacts DEF LegacyInv, CallInv
  <2>2. /\ s \in {"calibrate", "measure"}
        /\ s = "measure" => ~(call.calibrate /\ conf.plan)
        /\ call' = [call EXCEPT !.stage = s, !.res = NoResult] /\ pc' = pc
    BY <1>3 DEF Go
  <2> HIDE DEF s
  <2>3. /\ call' \in Calls /\ call'.id = call.id /\ call'.rep = call.rep
        /\ call'.calibrate = call.calibrate /\ call'.return = call.return
        /\ call'.res = NoResult /\ call'.stage = s /\ call'.stable = call.stable
    BY <2>1, <2>2, ResultTypes DEF Calls
  <2>4. NoResult # None /\ ~NoResult.allowed
    BY ResultTypes
  <2> QED
    BY <2>1, <2>2, <2>3, <2>4, ValidationStep
<1> QED
  BY <1>2, <1>3 DEF Preflight

(* A calibration that was not applied blocks tuning. *)
LEMMA BlockedStep ==
    ASSUME LegacyInv, Stage("calibrate"), NEW status \in {"failed", "not_run", "unstable"},
           call' = [call EXCEPT !.stage = "measure", !.blocked = TRUE,
                      !.res.calibration = status],
           UNCHANGED pc
    PROVE  LegacyInv'
<1>1. /\ pc = "online" /\ call.stage = "calibrate" /\ call \in Calls /\ ~call.stable
      /\ call.res \in Results(Perfs) /\ ~call.res.allowed
      /\ UNCHANGED <<clock, error, topology, key, cands, final, lineage, online,
                     records, tuning, conf, truth, files, alias>>
  BY StageFacts DEF LegacyInv, CallInv
<1> DEFINE r == [call.res EXCEPT !.calibration = status]
<1>2. r \in Results(Perfs) /\ r.allowed = call.res.allowed
  BY <1>1 DEF Results
<1>3. call' = [call EXCEPT !.stage = "measure", !.blocked = TRUE, !.res = r]
  BY <1>1 DEF Calls
<1> HIDE DEF r
<1>4. /\ call' \in Calls /\ call'.id = call.id /\ call'.rep = call.rep
      /\ call'.calibrate = call.calibrate /\ call'.return = call.return
      /\ call'.res = r /\ call'.stage = "measure" /\ call'.stable = call.stable
      /\ call'.blocked
  BY <1>1, <1>2, <1>3 DEF Calls
<1>5. r # None
  BY <1>2, ResultTypes
<1> QED
  BY <1>1, <1>2, <1>4, <1>5, ValidationStep

LEMMA CalibrateStep == LegacyInv /\ Calibrate => LegacyInv'
<1> SUFFICES ASSUME LegacyInv, Calibrate PROVE LegacyInv'
  OBVIOUS
<1>1. Stage("calibrate")
  BY DEF Calibrate
<1>2. CASE Return(Failed([NoResult EXCEPT !.calibration = "failed", !.release = "failed"]))
  <2> DEFINE r == [NoResult EXCEPT !.calibration = "failed", !.release = "failed"]
  <2>1. r \in Results(Perfs) /\ r.allowed = NoResult.allowed
    BY ResultTypes DEF Results
  <2>2. Return(Failed(r))
    BY <1>2
  <2> HIDE DEF r
  <2>3. Failed(r) \in Results(Perfs) /\ ~Failed(r).allowed
    BY <2>1, ResultTypes
  <2> QED
    BY <1>1, <2>2, <2>3, ReturnStep
<1>3. CASE Return(RequiresResolve)
  BY <1>1, <1>3, ReturnStep, ResultTypes
<1>4. CASE /\ ~Return(Failed([NoResult EXCEPT !.calibration = "failed", !.release = "failed"]))
           /\ ~Return(RequiresResolve)
  <2>1. /\ UNCHANGED pc
        /\ \E status \in {"failed", "not_run", "unstable"} :
             call' = [call EXCEPT !.stage = "measure", !.blocked = TRUE,
                        !.res.calibration = status]
    BY <1>4 DEF Calibrate
  <2> QED
    BY <1>1, <2>1, BlockedStep
<1> QED
  BY <1>2, <1>3, <1>4

LEMMA MeasureStep == LegacyInv /\ MeasureRound => LegacyInv'
<1> SUFFICES ASSUME LegacyInv, MeasureRound PROVE LegacyInv'
  OBVIOUS
<1>1. Stage("measure")
  BY DEF MeasureRound
<1>2. /\ pc = "online" /\ call.stage = "measure" /\ call \in Calls /\ ~call.stable
      /\ call.res \in Results(Perfs) /\ ~call.res.allowed
      /\ (call.calibrate /\ conf.plan => call.blocked)
      /\ UNCHANGED <<clock, error, topology, key, cands, final, lineage, online,
                     records, tuning, conf, truth, files, alias>>
  BY <1>1, StageFacts DEF LegacyInv, CallInv
<1>3. CASE Return(Failed([call.res EXCEPT !.release = "failed"]))
  <2> DEFINE r == [call.res EXCEPT !.release = "failed"]
  <2>1. r \in Results(Perfs) /\ r.allowed = call.res.allowed
    BY <1>2 DEF Results
  <2>2. Return(Failed(r))
    BY <1>3
  <2> HIDE DEF r
  <2>3. Failed(r) \in Results(Perfs) /\ ~Failed(r).allowed
    BY <1>2, <2>1, ResultTypes
  <2> QED
    BY <1>1, <2>2, <2>3, ReturnStep
<1>4. CASE Go("trace", [call.res EXCEPT !.release = "passed"])
  <2> DEFINE r == [call.res EXCEPT !.release = "passed"]
  <2>1. r \in Results(Perfs) /\ r.allowed = call.res.allowed
    BY <1>2 DEF Results
  <2>2. call' = [call EXCEPT !.stage = "trace", !.res = r] /\ pc' = pc
    BY <1>4 DEF Go
  <2> HIDE DEF r
  <2>3. /\ call' \in Calls /\ call'.id = call.id /\ call'.rep = call.rep
        /\ call'.calibrate = call.calibrate /\ call'.return = call.return
        /\ call'.res = r /\ call'.stage = "trace" /\ call'.stable = call.stable
        /\ call'.blocked = call.blocked
    BY <1>2, <2>1, <2>2 DEF Calls
  <2>4. r # None
    BY <2>1, ResultTypes
  <2> QED
    BY <1>2, <2>1, <2>2, <2>3, <2>4, ValidationStep
<1>5. CASE /\ UNCHANGED pc
           /\ \E stable \in BOOLEAN : \E perf \in IF stable THEN Perfs ELSE {Noise} :
               call' = [call EXCEPT
                 !.rounds = @ + 1, !.stable = stable, !.res.perf = perf,
                 !.res.release = IF stable THEN "passed" ELSE "unstable",
                 !.stage = IF stable \/ call.rounds + 1 = MaxRounds
                           THEN "trace" ELSE "measure"]
  <2>1. PICK stable \in BOOLEAN, perf \in Perfs :
              call' = [call EXCEPT
                 !.rounds = @ + 1, !.stable = stable, !.res.perf = perf,
                 !.res.release = IF stable THEN "passed" ELSE "unstable",
                 !.stage = IF stable \/ call.rounds + 1 = MaxRounds
                           THEN "trace" ELSE "measure"]
    <3>1. Noise \in Perfs
      BY LegacyAssumption DEF Noise
    <3> QED
      BY <1>5, <3>1
  <2> DEFINE rel == IF stable THEN "passed" ELSE "unstable"
             s == IF stable \/ call.rounds + 1 = MaxRounds THEN "trace" ELSE "measure"
             r == [call.res EXCEPT !.perf = perf, !.release = rel]
  <2>2. /\ rel \in {"passed", "unstable"} /\ s \in {"trace", "measure"}
        /\ stable => rel = "passed" /\ s = "trace"
    OBVIOUS
  <2>3. call' = [call EXCEPT !.rounds = @ + 1, !.stable = stable, !.res = r, !.stage = s]
    BY <1>2, <2>1 DEF Calls
  <2> HIDE DEF rel, s
  <2>4. r \in Results(Perfs) /\ r.allowed = call.res.allowed /\ r.release = rel
    BY <1>2, <2>2 DEF Results
  <2> DEFINE n == call.rounds + 1
  <2>n. n \in Nat /\ call' = [call EXCEPT !.rounds = n, !.stable = stable, !.res = r, !.stage = s]
    BY <1>2, <2>3 DEF Calls
  <2> HIDE DEF r, n
  <2>5. /\ call' \in Calls /\ call'.id = call.id /\ call'.rep = call.rep
        /\ call'.calibrate = call.calibrate /\ call'.return = call.return
        /\ call'.res = r /\ call'.stage = s /\ call'.stable = stable
        /\ call'.blocked = call.blocked
    <3>1. s \in {"enter", "preflight", "calibrate", "measure", "trace"}
      BY <2>2
    <3> QED
      BY <1>2, <2>n, <2>4, <3>1 DEF Calls
  <2>6. r # None
    BY <2>4, ResultTypes
  <2> QED
    BY <1>2, <1>5, <2>2, <2>4, <2>5, <2>6, ValidationStep
<1> QED
  BY <1>3, <1>4, <1>5 DEF MeasureRound

LEMMA TraceStep == LegacyInv /\ TraceRun => LegacyInv'
<1> SUFFICES ASSUME LegacyInv, TraceRun PROVE LegacyInv'
  OBVIOUS
<1>1. Stage("trace")
  BY DEF TraceRun
<1>2. /\ pc = "online" /\ call.stage = "trace" /\ call \in Calls
      /\ call.res \in Results(Perfs) /\ ~call.res.allowed
      /\ (call.calibrate /\ conf.plan => call.blocked)
      /\ (call.stable => call.res.release = "passed")
  BY <1>1, StageFacts DEF LegacyInv, CallInv
<1>3. CASE Return(Failed([call.res EXCEPT !.operator = "failed"]))
  <2> DEFINE r == [call.res EXCEPT !.operator = "failed"]
  <2>1. r \in Results(Perfs) /\ r.allowed = call.res.allowed
    BY <1>2 DEF Results
  <2>2. Return(Failed(r))
    BY <1>3
  <2> HIDE DEF r
  <2>3. Failed(r) \in Results(Perfs) /\ ~Failed(r).allowed
    BY <1>2, <2>1, ResultTypes
  <2> QED
    BY <1>1, <2>2, <2>3, ReturnStep
<1>4. ASSUME NEW eligible \in BOOLEAN,
             Return([call.res EXCEPT
                 !.operator = "passed",
                 !.failed = call.res.calibration = "failed",
                 !.allowed = TuningAllowed(call.tune, call.blocked,
                               call.res.perf, call.stable, eligible)])
      PROVE  LegacyInv'
  <2> DEFINE f == call.res.calibration = "failed"
             a == TuningAllowed(call.tune, call.blocked, call.res.perf, call.stable, eligible)
             r == [call.res EXCEPT !.operator = "passed", !.failed = f, !.allowed = a]
  <2>1. f \in BOOLEAN
    OBVIOUS
  <2>2. a \in BOOLEAN
    BY Zenon DEF TuningAllowed
  <2>3. a => ~call.blocked /\ call.res.perf # None /\ call.stable
    BY DEF TuningAllowed
  <2>4. Return(r)
    BY <1>4
  <2> HIDE DEF f, a
  <2>5. /\ r \in Results(Perfs) /\ r.allowed = a /\ r.operator = "passed"
        /\ r.release = call.res.release /\ r.perf = call.res.perf
    BY <1>2, <2>1, <2>2 DEF Results
  <2> HIDE DEF r
  <2>6. r.allowed => AttachEligible(r) /\ ~(call.calibrate /\ conf.plan)
    BY <1>2, <2>3, <2>5 DEF AttachEligible
  <2> QED
    BY <1>1, <2>4, <2>5, <2>6, ReturnStep
<1> QED
  BY <1>3, <1>4 DEF TraceRun

-----------------------------------------------------------------------------
(* What the caller makes of the result. *)

LEMMA CallReportFacts ==
    ASSUME call \in Calls
    PROVE  /\ CallReport \in Reports /\ CallReport.core = call.rep.core
           /\ CallReport.artifact = call.rep.artifact
           /\ CallReport.runtime = call.rep.runtime
           /\ CallReport.bdd = call.rep.bdd /\ CallReport.sim = call.rep.sim
<1>1. call.rep \in Reports
  BY DEF Calls
<1>2. CASE call.res = None
  BY <1>1, <1>2 DEF CallReport, Reports
<1>3. CASE call.res # None
  <2>1. CallReport = WithOnlineResult(call.rep, call.res)
    BY <1>3 DEF CallReport
  <2> QED
    BY <1>1, <2>1, OnlineReportFacts
<1> QED
  BY <1>2, <1>3

(* The report of a validation replaces that of the selected candidate. *)
LEMMA ReportedFacts ==
    ASSUME LegacyInv, pc = "return", call.return # "tuned", NEW rep \in Reports,
           rep.core = call.rep.core, rep.artifact = call.rep.artifact,
           rep.runtime = call.rep.runtime, rep.bdd = call.rep.bdd,
           rep.sim = call.rep.sim
    PROVE  LET c == Reported(rep) IN
           /\ c \in Seq(Cands) /\ DOMAIN c = DOMAIN cands /\ Len(c) = Len(cands)
           /\ \A i \in DOMAIN c : /\ c[i].id = cands[i].id /\ Sensible(c[i].rep)
                                  /\ c[i].id = final => c[i].rep.runtime = call.rep.runtime
           /\ \E i \in DOMAIN c : c[i].id = final /\ OfflineValid(c[i].rep)
<1> USE DEF LegacyInv
<1> DEFINE k == IndexOf(cands, final)
           c == Reported(rep)
<1>1. call.id = final /\ final # None /\ OfflineValid(call.rep) /\ Sensible(call.rep)
  BY DEF CallInv, FinalInv
<1>2. /\ k \in DOMAIN cands /\ cands[k].id = final
      /\ \A j \in DOMAIN cands : cands[j].id = final => j = k
  BY <1>1, SelectedPlace DEF Selectable
<1>3. cands \in Seq(Cands) /\ \A i \in DOMAIN cands : Sensible(cands[i].rep)
  BY DEF TypeOK, SearchInv
<1>4. c = [cands EXCEPT ![k].rep = rep]
  BY <1>1 DEF Reported
<1> HIDE DEF k, c
<1>5. OfflineValid(rep) /\ Sensible(rep)
  BY <1>1 DEF OfflineValid, Sensible
<1>6. cands[k] \in Cands
  BY <1>2, <1>3
<1> DEFINE e == [cands[k] EXCEPT !.rep = rep]
<1>7. e \in Cands /\ e.id = final /\ e.rep = rep
  BY <1>2, <1>6 DEF Cands
<1>8. c = [cands EXCEPT ![k] = e]
  BY <1>4
<1> HIDE DEF e
<1>9. c \in Seq(Cands) /\ Len(c) = Len(cands) /\ DOMAIN c = DOMAIN cands
  BY <1>2, <1>3, <1>7, <1>8
<1>10. c[k] = e /\ \A i \in DOMAIN cands : i # k => c[i] = cands[i]
  BY <1>2, <1>3, <1>8
<1>11. ASSUME NEW i \in DOMAIN c
       PROVE  /\ c[i].id = cands[i].id /\ Sensible(c[i].rep)
              /\ c[i].id = final => c[i].rep.runtime = call.rep.runtime
  <2>1. CASE i = k
    BY <1>2, <1>5, <1>7, <1>10, <2>1
  <2>2. CASE i # k
    BY <1>2, <1>3, <1>9, <1>10, <2>2
  <2> QED
    BY <2>1, <2>2
<1>12. c[k].id = final /\ OfflineValid(c[k].rep) /\ k \in DOMAIN c
  BY <1>2, <1>5, <1>7, <1>9, <1>10
<1> QED
  BY <1>9, <1>11, <1>12 DEF c

LEMMA ReturnLateStep == LegacyInv /\ ReturnLate => LegacyInv'
<1> SUFFICES ASSUME LegacyInv, ReturnLate PROVE LegacyInv'
  OBVIOUS
<1>1. Fail("timeout") /\ UNCHANGED <<clock, sources>>
  BY DEF ReturnLate
<1> QED
  BY <1>1, FailStep, TimeoutExcused

(* The validation is over: its report and its result are kept. *)
LEMMA ValidatedStep ==
    ASSUME LegacyInv, pc = "return", call.return # "tuned", NEW rep \in Reports,
           rep.core = call.rep.core, rep.artifact = call.rep.artifact,
           rep.runtime = call.rep.runtime, rep.bdd = call.rep.bdd,
           rep.sim = call.rep.sim,
           cands' = Reported(rep), call' = None, pc' = "records",
           online' \in Results(Perfs) \cup {None},
           online' # None /\ online'.allowed =>
             AttachEligible(online') /\ (conf.plan => topology = 1),
           online' = None => ~call.rep.runtime,
           UNCHANGED <<topology, key, final, lineage, RestOnline>>
    PROVE  LegacyInv'
<1> USE DEF LegacyInv
<1>1. /\ cands' \in Seq(Cands) /\ DOMAIN cands' = DOMAIN cands /\ Len(cands') = Len(cands)
      /\ \A i \in DOMAIN cands' :
           /\ cands'[i].id = cands[i].id /\ Sensible(cands'[i].rep)
           /\ cands'[i].id = final => cands'[i].rep.runtime = call.rep.runtime
      /\ \E i \in DOMAIN cands' : cands'[i].id = final /\ OfflineValid(cands'[i].rep)
  BY ReportedFacts
<1>2. UNCHANGED <<topology, key, final, lineage, records, tuning, files, alias, error,
                  clock, conf, truth>>
  BY DEF RestOnline
<1>3. TypeOK'
  BY <1>1, <1>2 DEF TypeOK
<1>4. ~TunedCall' /\ ~InTuner'
  BY DEF TunedCall, InTuner
<1>5. SearchInv' /\ FinalInv'
  BY <1>1, <1>2, <1>4 DEF SearchInv, FinalInv, Selectable
<1>6. CallInv'
  BY DEF CallInv
<1>7. OnlineInv'
  BY <1>1, <1>2, <1>4 DEF OnlineInv
<1>8. HistoryInv' /\ BestInv' /\ RecordsInv' /\ FilesInv'
  BY <1>2, <1>4, QuietStep DEF InTuner, TunedCall
<1> QED
  BY <1>3, <1>5, <1>6, <1>7, <1>8

LEMMA ReturnFirstStep == LegacyInv /\ ReturnFirst => LegacyInv'
<1> SUFFICES ASSUME LegacyInv, ReturnFirst PROVE LegacyInv'
  OBVIOUS
<1>1. /\ pc = "return" /\ call.return = "first" /\ cands' = Reported(CallReport)
      /\ online' = call.res /\ pc' = "records" /\ call' = None
      /\ UNCHANGED <<topology, key, final, lineage, RestOnline>>
  BY DEF ReturnFirst, Returned
<1>2. call \in Calls /\ call.calibrate
  BY <1>1 DEF LegacyInv, CallInv
<1>3. call.res \in Results(Perfs) \cup {None}
  BY <1>2 DEF Calls
<1>4. /\ call.res = None => ~call.rep.runtime
      /\ call.res # None /\ call.res.allowed => AttachEligible(call.res) /\ ~conf.plan
  BY <1>1, <1>2 DEF LegacyInv, CallInv
<1> QED
  BY <1>1, <1>2, <1>3, <1>4, CallReportFacts, ValidatedStep

LEMMA ReturnOperatorStep == LegacyInv /\ ReturnOperator => LegacyInv'
<1> SUFFICES ASSUME LegacyInv, ReturnOperator PROVE LegacyInv'
  OBVIOUS
<1> DEFINE v == conf.mode = "verify"
           merged == MergeAppliedCalibration(call.res, v)
<1>1. /\ pc = "return" /\ call.return \in {"operator", "verify"}
      /\ pc' = "records" /\ call' = None
      /\ UNCHANGED <<topology, key, final, lineage, RestOnline>>
  BY DEF ReturnOperator, Returned
<1>2. /\ call \in Calls
      /\ call.return = "operator" => topology = 1
      /\ call.return = "verify" => v
  BY <1>1 DEF LegacyInv, CallInv, SearchInv, TypeOK
<1>3. CASE call.res = None
  <2>1. cands' = Reported(CallReport) /\ online' = RequiresResolve
    BY <1>3 DEF ReturnOperator
  <2>2. online' \in Results(Perfs) /\ ~online'.allowed /\ online' # None
    BY <2>1, ResultTypes
  <2> QED
    BY <1>1, <1>2, <2>1, <2>2, CallReportFacts, ValidatedStep
<1>4. CASE call.res # None
  <2>1. cands' = Reported(WithOnlineResult(CallReport, merged)) /\ online' = merged
    BY <1>4 DEF ReturnOperator
  <2>2. call.res \in Results(Perfs) /\ call.res.allowed \in BOOLEAN
    BY <1>2, <1>4 DEF Calls, Results
  <2> DEFINE a == IF v THEN FALSE ELSE call.res.allowed
  <2>3. a \in BOOLEAN /\ v \in BOOLEAN /\ (a => ~v /\ call.res.allowed)
    BY <2>2
  <2>4. merged = [call.res EXCEPT !.calibration = "passed", !.resolve = v, !.allowed = a]
    BY DEF MergeAppliedCalibration
  <2> HIDE DEF a, merged, v
  <2>5. /\ merged \in Results(Perfs) /\ merged.allowed = a
        /\ merged.operator = call.res.operator /\ merged.release = call.res.release
        /\ merged.perf = call.res.perf
    BY <2>2, <2>3, <2>4 DEF Results
  <2>6. merged # None
    BY <2>5, ResultTypes
  <2>7. call.res.allowed => AttachEligible(call.res)
    BY <1>1, <1>4 DEF LegacyInv, CallInv
  <2>8. merged.allowed => AttachEligible(merged) /\ topology = 1
    BY <1>1, <1>2, <2>3, <2>5, <2>7 DEF AttachEligible
  <2>9. /\ CallReport \in Reports /\ CallReport.core = call.rep.core
        /\ CallReport.artifact = call.rep.artifact
        /\ CallReport.runtime = call.rep.runtime
        /\ CallReport.bdd = call.rep.bdd /\ CallReport.sim = call.rep.sim
    BY <1>2, CallReportFacts
  <2> DEFINE w == WithOnlineResult(CallReport, merged)
  <2>10. /\ w \in Reports /\ w.core = call.rep.core /\ w.artifact = call.rep.artifact
         /\ w.runtime = call.rep.runtime /\ w.bdd = call.rep.bdd /\ w.sim = call.rep.sim
    BY <2>9, OnlineReportFacts
  <2> HIDE DEF w
  <2>11. cands' = Reported(w)
    BY <2>1 DEF w
  <2>12. /\ online' \in Results(Perfs) \cup {None} /\ online' # None
         /\ online'.allowed => AttachEligible(online') /\ (conf.plan => topology = 1)
    BY <2>1, <2>5, <2>6, <2>8
  <2>13. call.return # "tuned"
    BY <1>1
  <2> QED
    BY <1>1, <2>10, <2>11, <2>12, <2>13, ValidatedStep
<1> QED
  BY <1>3, <1>4

LEMMA RecordFacts ==
    ASSUME TypeOK, NEW c \in Cands,
           NEW kind \in {"initial_solve", "calibrated_resolve", "verify_existing"}
    PROVE  /\ Record(c, kind) \in Rows /\ Record(c, kind).id = c.id
           /\ Record(c, kind).topology = topology /\ Record(c, kind).rep = c.rep
<1> DEFINE a == OfflineValid(c.rep)
<1>1. a \in BOOLEAN
  BY Zenon DEF OfflineValid
<1>2. Record(c, kind) = [id |-> c.id, topology |-> topology, rep |-> c.rep,
                         kind |-> kind, accepted |-> a]
  BY DEF Record
<1> HIDE DEF a
<1> QED
  BY <1>1, <1>2 DEF Rows, Cands, TypeOK

LEMMA CalibratedSolveStep == LegacyInv /\ ReturnCalibratedSolve => LegacyInv'
<1> SUFFICES ASSUME LegacyInv, ReturnCalibratedSolve PROVE LegacyInv'
  OBVIOUS
<1> USE DEF LegacyInv
<1>1. /\ conf.mode = "solve" /\ pc = "return" /\ call.return = "first"
      /\ topology' = 1 /\ key' \in {0, 1}
      /\ online' = None /\ pc' = "solve" /\ call' = None
      /\ UNCHANGED <<cands, final, records, tuning, files, alias, error, clock,
                     conf, truth>>
  BY DEF ReturnCalibratedSolve, Returned, RestOnline
<1>2. call \in Calls /\ lineage = <<>> /\ topology = 0 /\ key = 0
  BY <1>1 DEF CallInv, SearchInv
<1> DEFINE c == Reported(CallReport)
           e(i) == [cands[i] EXCEPT !.rep = c[i].rep]
<1>3. /\ c \in Seq(Cands) /\ DOMAIN c = DOMAIN cands
      /\ \E i \in DOMAIN c : c[i].id = final
  BY <1>1, <1>2, CallReportFacts, ReportedFacts
<1>4. cands \in Seq(Cands) /\ DOMAIN cands = 1 .. Len(cands) /\ Len(cands) \in Nat
  BY DEF TypeOK
<1>5. lineage' = [i \in 1 .. Len(cands) |-> Record(e(i), "initial_solve")]
  BY DEF ReturnCalibratedSolve, Indices
<1> HIDE DEF c
<1>6. ASSUME NEW i \in 1 .. Len(cands)
      PROVE  /\ Record(e(i), "initial_solve") \in Rows
             /\ Record(e(i), "initial_solve").id = <<"solve", 0, i>>
  <2>1. cands[i] \in Cands /\ c[i] \in Cands
    BY <1>3, <1>4, <1>6
  <2>2. e(i) \in Cands /\ e(i).id = cands[i].id
    BY <2>1 DEF Cands
  <2>3. cands[i].id = <<"solve", 0, i>>
    BY <1>1, <1>2, <1>4, <1>6 DEF SearchInv
  <2> HIDE DEF e
  <2>4. /\ Record(e(i), "initial_solve") \in Rows
        /\ Record(e(i), "initial_solve").id = e(i).id
    BY <2>2, RecordFacts
  <2> QED
    BY <2>2, <2>3, <2>4
<1> HIDE DEF e
<1>7. /\ lineage' \in Seq(Rows) /\ DOMAIN lineage' = 1 .. Len(cands)
      /\ \A i \in DOMAIN lineage' : lineage'[i].id = <<"solve", 0, i>>
  BY <1>4, <1>5, <1>6
<1>8. lineage' # <<>>
  BY <1>3, <1>4, <1>7
<1>9. TypeOK'
  BY <1>1, <1>7 DEF TypeOK
<1>10. ~TunedCall' /\ ~InTuner'
  BY <1>1 DEF TunedCall, InTuner
<1>11. SearchInv' /\ FinalInv'
  BY <1>1, <1>7, <1>8, <1>10 DEF SearchInv, FinalInv
<1>12. CallInv' /\ OnlineInv'
  BY <1>1, <1>10 DEF CallInv, OnlineInv
<1>13. HistoryInv' /\ BestInv' /\ RecordsInv' /\ FilesInv'
  BY <1>1, <1>10, QuietStep DEF InTuner, TunedCall
<1> QED
  BY <1>9, <1>11, <1>12, <1>13

LEMMA CalibratedVerifyStep == LegacyInv /\ ReturnCalibratedVerify => LegacyInv'
<1> SUFFICES ASSUME LegacyInv, ReturnCalibratedVerify PROVE LegacyInv'
  OBVIOUS
<1> USE DEF LegacyInv
<1>1. /\ conf.mode = "verify" /\ pc = "return" /\ call.return = "first"
      /\ call.res # None /\ call.res.resolve
      /\ call' = Call(call.id, CallReport, FALSE, FALSE, "verify")
      /\ online' = call.res /\ pc' = "online"
      /\ UNCHANGED <<topology, key, cands, final, lineage, records, tuning, files, alias,
                     error, clock, conf, truth>>
  BY DEF ReturnCalibratedVerify, Returned, RestOnline
<1>2. /\ call \in Calls /\ call.id = final /\ call.calibrate
      /\ OfflineValid(call.rep) /\ Sensible(call.rep)
      /\ \A i \in DOMAIN cands :
           cands[i].id = final => cands[i].rep.runtime = call.rep.runtime
      /\ (call.res.allowed => AttachEligible(call.res) /\ ~conf.plan)
  BY <1>1 DEF CallInv
<1>3. /\ CallReport \in Reports /\ CallReport.core = call.rep.core
      /\ CallReport.artifact = call.rep.artifact
      /\ CallReport.runtime = call.rep.runtime
      /\ CallReport.bdd = call.rep.bdd /\ CallReport.sim = call.rep.sim
  BY <1>2, CallReportFacts
<1>4. call.id \in Ids /\ call.res \in Results(Perfs)
  BY <1>1, <1>2 DEF Calls
<1>5. /\ call' \in Calls /\ call'.id = final /\ call'.rep = CallReport
      /\ call'.return = "verify" /\ ~call'.calibrate /\ call'.stage = "enter"
      /\ ~call'.stable /\ call'.res = NoResult
  <2> HIDE DEF LegacyInv
  <2>1. CallReport \in Reports /\ call.id = final
    BY <1>2, <1>3
  <2>2. PICK c : c = Call(call.id, CallReport, FALSE, FALSE, "verify")
    OBVIOUS
  <2>3. c \in Calls
    BY <1>4, <2>1, <2>2, ResultTypes DEF Call, Calls
  <2>4. /\ c.id = call.id /\ c.rep = CallReport /\ c.return = "verify"
        /\ ~c.calibrate /\ c.stage = "enter" /\ ~c.stable /\ c.res = NoResult
    BY <2>2 DEF Call
  <2>5. call' = c
    BY <1>1, <2>2
  <2> QED
    BY <2>1, <2>3, <2>4, <2>5
<1>6. TypeOK'
  BY <1>1, <1>4, <1>5 DEF TypeOK
<1>7. ~TunedCall' /\ ~InTuner'
  BY <1>1, <1>5 DEF TunedCall, InTuner
<1>8. SearchInv' /\ FinalInv'
  BY <1>1, <1>7 DEF SearchInv, FinalInv, Selectable
<1>9. CallInv'
  <2>1. OfflineValid(CallReport) /\ Sensible(CallReport)
    BY <1>2, <1>3 DEF OfflineValid, Sensible
  <2>2. NoResult # None /\ ~NoResult.allowed
    BY ResultTypes
  <2> QED
    BY <1>1, <1>2, <1>3, <1>5, <2>1, <2>2 DEF CallInv
<1>10. OnlineInv'
  BY <1>1, <1>2, <1>7 DEF OnlineInv
<1>11. HistoryInv' /\ BestInv' /\ RecordsInv' /\ FilesInv'
  BY <1>1, <1>7, QuietStep DEF InTuner, TunedCall
<1> QED
  BY <1>6, <1>8, <1>9, <1>10, <1>11

LEMMA CollectStep == LegacyInv /\ CollectRecords => LegacyInv'
<1> SUFFICES ASSUME LegacyInv, CollectRecords PROVE LegacyInv'
  OBVIOUS
<1> USE DEF LegacyInv
<1> DEFINE kind == IF conf.mode = "verify" THEN "verify_existing"
                   ELSE IF topology = 1 THEN "calibrated_resolve" ELSE "initial_solve"
           rs == Records(kind)
           m == Len(lineage)
<1>1. /\ pc = "records" /\ records' = lineage \o rs
      /\ pc' = IF /\ conf.tune /\ final # None
                  /\ (online # None => online.allowed)
               THEN "tune" ELSE "write"
      /\ UNCHANGED <<clock, error, topology, key, cands, final, lineage, online, call,
                     tuning, conf, truth, files, alias>>
  BY DEF CollectRecords, search, sources
<1>2. /\ cands \in Seq(Cands) /\ DOMAIN cands = 1 .. Len(cands) /\ Len(cands) \in Nat
      /\ lineage \in Seq(Rows) /\ DOMAIN lineage = 1 .. m /\ m \in Nat
  BY DEF TypeOK
<1>3. kind \in {"initial_solve", "calibrated_resolve", "verify_existing"}
  OBVIOUS
<1>4. rs = [i \in 1 .. Len(cands) |-> Record(cands[i], kind)]
  BY DEF Records, Indices
<1> HIDE DEF kind, rs
<1>5. ASSUME NEW i \in 1 .. Len(cands)
      PROVE  /\ rs[i] \in Rows /\ rs[i].id = cands[i].id
             /\ rs[i].topology = topology /\ rs[i].rep = cands[i].rep
  <2>1. cands[i] \in Cands
    BY <1>2, <1>5
  <2> QED
    BY <1>3, <1>4, <1>5, <2>1, RecordFacts
<1>6. rs \in Seq(Rows) /\ Len(rs) = Len(cands)
  BY <1>2, <1>4, <1>5
<1>7. /\ records' \in Seq(Rows) /\ DOMAIN records' = 1 .. (m + Len(cands))
      /\ \A i \in 1 .. m : records'[i] = lineage[i]
      /\ \A i \in 1 .. Len(cands) : records'[m + i] = rs[i]
  <2>1. PICK q \in Nat : q = Len(cands)
    BY <1>2
  <2>2. /\ lineage \o rs \in Seq(Rows) /\ Len(lineage \o rs) = m + q
        /\ \A i \in 1 .. (m + q) :
             (lineage \o rs)[i] = IF i <= m THEN lineage[i] ELSE rs[i - m]
    <3>1. PICK a \in Seq(Rows), b \in Seq(Rows) : a = lineage /\ b = rs
      BY <1>2, <1>6
    <3>2. /\ a \o b \in Seq(Rows) /\ Len(a \o b) = Len(a) + Len(b)
          /\ \A i \in 1 .. Len(a) + Len(b) :
               (a \o b)[i] = IF i <= Len(a) THEN a[i] ELSE b[i - Len(a)]
      BY ConcatProperties
    <3>3. Len(a) = m /\ Len(b) = q
      BY <1>6, <2>1, <3>1
    <3> HIDE DEF m
    <3> QED
      BY <3>1, <3>2, <3>3
  <2>3. \A i \in 1 .. q : m + i \in 1 .. (m + q) /\ ~(m + i <= m) /\ (m + i) - m = i
    BY <1>2
  <2>4. \A i \in 1 .. m : i \in 1 .. (m + q) /\ i <= m
    BY <1>2
  <2>5. DOMAIN (lineage \o rs) = 1 .. (m + q)
    BY <2>2
  <2> QED
    BY <1>1, <2>1, <2>2, <2>3, <2>4, <2>5
<1>8. TypeOK'
  BY <1>1, <1>7 DEF TypeOK
<1>9. ~TunedCall' /\ ~InTuner' /\ pc' \in {"tune", "write"}
  BY <1>1 DEF TunedCall, InTuner
<1>10. SearchInv' /\ FinalInv'
  BY <1>1, <1>9 DEF SearchInv, FinalInv, Selectable
<1>11. CallInv' /\ OnlineInv'
  BY <1>1, <1>9 DEF CallInv, OnlineInv
<1>12. HistoryInv' /\ BestInv' /\ FilesInv'
  BY <1>1, <1>9 DEF HistoryInv, BestInv, FilesInv, InTuner, TunedCall
<1>13. \A i \in DOMAIN cands :
         /\ cands[i].id[1] = "tune" => Len(cands) = 1 /\ i = 1 /\ lineage = <<>>
         /\ cands[i].id = final /\ lineage # <<>> /\ ~SameName =>
              \A j \in DOMAIN lineage : cands[i].id # lineage[j].id
  <2> SUFFICES ASSUME NEW i \in DOMAIN cands
               PROVE  /\ cands[i].id[1] = "tune" =>
                           Len(cands) = 1 /\ i = 1 /\ lineage = <<>>
                      /\ cands[i].id = final /\ lineage # <<>> /\ ~SameName =>
                           \A j \in DOMAIN lineage : cands[i].id # lineage[j].id
    OBVIOUS
  <2>1. conf.mode \in {"solve", "verify"}
    BY LegacyAssumption DEF TypeOK
  <2>2. CASE conf.mode = "solve"
    <3>1. cands[i].id = <<"solve", key, i>>
      BY <1>1, <2>2 DEF SearchInv
    <3>2. cands[i].id[1] = "solve" /\ cands[i].id[2] = key
      BY <3>1
    <3>3. ASSUME NEW j \in DOMAIN lineage PROVE lineage[j].id[2] = 0
      <4>1. lineage[j].id = <<"solve", 0, j>>
        BY <3>3 DEF SearchInv
      <4> QED
        BY <4>1
    <3>4. lineage # <<>> => topology = 1
      BY DEF SearchInv, TypeOK
    <3>5. cands[i].id = final /\ lineage # <<>> /\ ~SameName => key # 0
      BY <3>2, <3>4 DEF SameName
    <3> QED
      BY <3>2, <3>3, <3>5
  <2>3. CASE conf.mode = "verify"
    <3>1. Len(cands) <= 1 /\ lineage = <<>>
      BY <1>1, <2>3 DEF SearchInv
    <3> QED
      BY <1>2, <3>1
  <2> QED
    BY <2>1, <2>2, <2>3
<1>14. RecordsInv'
  <2>1. ASSUME NEW j \in DOMAIN records', records'[j].id[1] = "tune", final # None
        PROVE  records'[j].id = final
    <3>1. CASE j \in 1 .. m
      <4>1. lineage[j].id = <<"solve", 0, j>>
        BY <1>2, <3>1 DEF SearchInv
      <4>2. lineage[j].id[1] = "solve"
        BY <4>1
      <4> QED
        BY <1>7, <2>1, <3>1, <4>2
    <3>2. CASE j \notin 1 .. m
      <4>1. j - m \in 1 .. Len(cands) /\ j = m + (j - m)
        BY <1>2, <1>7, <2>1, <3>2
      <4>2. records'[j] = rs[j - m]
        BY <1>7, <4>1
      <4>3. cands[j - m].id[1] = "tune" /\ j - m \in DOMAIN cands
        BY <1>2, <1>5, <2>1, <4>1, <4>2
      <4>4. Len(cands) = 1 /\ j - m = 1
        BY <1>13, <4>3
      <4>5. PICK k \in DOMAIN cands : cands[k].id = final
        BY <1>1, <2>1 DEF FinalInv, Selectable
      <4>6. k = 1
        BY <1>2, <4>4
      <4> QED
        BY <1>5, <4>1, <4>2, <4>4, <4>5, <4>6
    <3> QED
      BY <3>1, <3>2
  <2>2. ASSUME final # None PROVE \E i \in DOMAIN records' : Chosen(i)'
    <3>1. PICK k \in DOMAIN cands :
          /\ cands[k].id = final /\ OfflineValid(cands[k].rep)
          /\ Sensible(cands[k].rep)
          /\ \A j \in DOMAIN cands : cands[j].id = final => j = k
      BY <1>1, <2>2, SelectedPlace DEF Selectable
    <3>n. PICK n \in Nat : n = m + k
      BY <1>2
    <3>2. n \in DOMAIN records' /\ records'[n] = rs[k]
      BY <1>2, <1>7, <3>1, <3>n
    <3>3. /\ records'[n].id = final /\ records'[n].topology = topology
          /\ records'[n].rep = cands[k].rep
      BY <1>2, <1>5, <3>1, <3>2
    <3>4. ASSUME ~SameName, NEW j \in DOMAIN records', records'[j].id = final
          PROVE  j = n
      <4>1. CASE j \in 1 .. m
        <5>1. lineage # <<>> /\ lineage[j].id = cands[k].id
          BY <1>2, <1>7, <3>1, <3>4, <4>1
        <5> QED
          BY <1>2, <1>13, <3>1, <3>4, <4>1, <5>1
      <4>2. CASE j \notin 1 .. m
        <5>1. j - m \in 1 .. Len(cands) /\ j = m + (j - m)
          BY <1>2, <1>7, <3>4, <4>2
        <5>2. records'[j] = rs[j - m]
          BY <1>7, <5>1
        <5>3. cands[j - m].id = final
          BY <1>5, <3>4, <5>1, <5>2
        <5>4. j - m = k
          BY <1>2, <3>1, <5>1, <5>3
        <5> QED
          BY <3>n, <5>1, <5>4
      <4> QED
        BY <4>1, <4>2
    <3>5. ~Tuned /\ ~Tuned' /\ SameName' = SameName
      <4>1. ~InTuner
        BY <1>1 DEF InTuner, TunedCall
      <4>2. tuning.history = <<>>
        BY <1>1, <4>1 DEF HistoryInv
      <4> QED
        BY <1>1, <4>2 DEF Tuned, SameName
    <3>6. cands[k].rep.artifact
      BY <3>1 DEF OfflineValid, Sensible
    <3>7. Chosen(n)'
      BY <1>1, <3>1, <3>3, <3>4, <3>5, <3>6 DEF Chosen
    <3> QED
      BY <3>2, <3>7
  <2>3. pc' = "tune" => final # None
    BY <1>1
  <2> QED
    BY <1>1, <1>9, <2>1, <2>2, <2>3 DEF RecordsInv
<1> QED
  BY <1>8, <1>10, <1>11, <1>12, <1>14

-----------------------------------------------------------------------------
(* The tuner. *)

LEMMA RejectionNone ==
    ASSUME NEW rep \in Reports, NEW perf, NEW onl \in BOOLEAN,
           Rejection(rep, perf, onl) = None
    PROVE  /\ OfflineValid(rep) /\ rep.runtime
           /\ onl => rep.online = "valid" /\ perf # None
<1>1. None \notin Rejections
  BY NoneAssumption
<1>2. rep.sim \in Nat
  BY DEF Reports
<1>3. /\ None # "correctness_invalid" /\ None # "bdd_analysis_error"
      /\ None # "simulation_incomplete" /\ None # "runtime_incompatible"
      /\ None # "online_validation_incomplete" /\ None # "online_performance_missing"
  BY <1>1 DEF Rejections
<1> QED
  BY <1>2, <1>3 DEF Rejection, OfflineValid

(* What improves on the best measurement has no larger median. *)
LEMMA ImprovesFacts ==
    ASSUME NEW best, NEW rep, NEW perf \in Perfs, best.perf \in Perfs,
           Improves(best, rep, perf, TRUE)
    PROVE  perf.median <= best.perf.median
<1> DEFINE a == best.perf.median
           b == perf.median
           l == Larger(MinImprovement, 2 * Larger(best.perf.cv, perf.cv))
<1>1. /\ a \in Nat /\ b \in Nat /\ best.perf.cv \in Nat /\ perf.cv \in Nat
      /\ MinImprovement \in Nat
  BY LegacyAssumption
<1>2. l \in Nat
  BY <1>1 DEF Larger
<1>3. (a - b) * 100 >= a * l
  BY DEF Improves
<1> HIDE DEF a, b, l
<1>4. a * l \in Nat
  BY <1>1, <1>2
<1>5. a * l >= 0
  BY <1>4
<1>6. (a - b) * 100 >= 0
  <2>1. a * l \in Int /\ (a - b) * 100 \in Int
    BY <1>1, <1>4
  <2> QED
    BY <1>3, <1>5, <2>1
<1>7. b <= a
  BY <1>1, <1>6
<1> QED
  BY <1>7 DEF a, b

TunerPhase == pc \in {"tune", "tune_initial"} \/ InTuner

(* What the tuner does not touch stays right. *)
LEMMA TunerFrame ==
    ASSUME LegacyInv, TunerPhase, TunerPhase',
           pc' \in {"tune", "tune_initial", "records"} => pc \in {"tune", "tune_initial"},
           UNCHANGED <<error, topology, key, cands, final, lineage, online, records,
                       conf, files, alias>>,
           HistoryInv'
    PROVE  SearchInv' /\ FinalInv' /\ OnlineInv' /\ RecordsInv' /\ FilesInv'
<1> USE DEF LegacyInv
<1>1. pc' \notin {"solve", "failed", "write", "finalize", "done", "records"}
  BY DEF TunerPhase, InTuner, TunedCall
<1>2. pc \notin {"solve", "failed", "write", "finalize", "done", "records"}
  BY DEF TunerPhase, InTuner, TunedCall
<1>3. final # None
  BY DEF TunerPhase, FinalInv
<1>4. SearchInv'
  BY <1>1, <1>2 DEF SearchInv
<1>5. FinalInv'
  BY <1>1, <1>2, <1>3 DEF FinalInv, Selectable
<1>6. OnlineInv'
  BY <1>1 DEF OnlineInv, TunerPhase
<1>7. RecordsInv'
  <2>1. \A i \in DOMAIN records : records[i].id[1] = "tune" => records[i].id = final
    BY DEF RecordsInv, TunerPhase
  <2>2. PICK i \in DOMAIN records : Chosen(i)
    BY <1>3 DEF RecordsInv, TunerPhase
  <2>3. ~Tuned' /\ SameName' = SameName
    BY <1>1 DEF HistoryInv, Tuned, SameName
  <2>4. Chosen(i)'
    BY <2>2, <2>3 DEF Chosen
  <2> QED
    BY <2>1, <2>2, <2>4 DEF RecordsInv
<1>8. FilesInv'
  BY <1>1, <1>2 DEF FilesInv
<1> QED
  BY <1>4, <1>5, <1>6, <1>7, <1>8

LEMMA BeginTuningStep == LegacyInv /\ BeginTuning => LegacyInv'
<1> SUFFICES ASSUME LegacyInv, BeginTuning PROVE LegacyInv'
  OBVIOUS
<1> USE DEF LegacyInv
<1>1. pc = "tune" /\ UNCHANGED <<clock, sources>>
  BY DEF BeginTuning
<1>2. online # None => AttachEligible(online)
  BY <1>1 DEF OnlineInv
<1>3. CASE Expired
  <2>1. Fail("timeout")
    BY <1>3 DEF BeginTuning
  <2> QED
    BY <1>1, <2>1, FailStep, TimeoutExcused
<1>4. CASE ~Expired
  <2> DEFINE o == online # None
             b == Limit - clock
  <2>1. /\ tuning' = [NoTuning EXCEPT !.asked = clock, !.budget = b, !.online = o]
        /\ pc' = "tune_initial"
        /\ UNCHANGED <<error, topology, key, cands, final, lineage, online, call,
                       records, files, alias, clock, conf, truth>>
    BY <1>1, <1>2, <1>4 DEF BeginTuning, search, sources
  <2>2. o \in BOOLEAN /\ b \in Int /\ clock \in Nat
    BY LegacyAssumption DEF TypeOK
  <2> HIDE DEF o, b
  <2>3. NoTuning \in Tunings /\ NoTuning.queue = <<>> /\ NoTuning.history = <<>>
    BY DEF NoTuning, Tunings
  <2>4. tuning' \in Tunings /\ tuning'.online = o /\ tuning'.queue = <<>>
        /\ tuning'.history = <<>>
    BY <2>1, <2>2, <2>3 DEF Tunings
  <2>5. TypeOK'
    BY <2>1, <2>4 DEF TypeOK
  <2>6. ~TunedCall' /\ ~InTuner'
    BY <2>1 DEF TunedCall, InTuner
  <2>8. CallInv' /\ HistoryInv'
    BY <2>1, <2>4, <2>6 DEF CallInv, HistoryInv
  <2>7. SearchInv' /\ FinalInv' /\ OnlineInv' /\ RecordsInv' /\ FilesInv'
    BY <1>1, <2>1, <2>8, TunerFrame DEF TunerPhase
  <2>9. BestInv'
    BY <2>1, <2>4, <2>6 DEF BestInv, o
  <2> QED
    BY <2>5, <2>7, <2>8, <2>9
<1> QED
  BY <1>3, <1>4

LEMMA PerformanceType ==
    ASSUME NEW r \in Results(Perfs) \cup {None}
    PROVE  Performance(r) \in Perfs \cup {None}
  BY DEF Performance, Results

LEMMA EntryFacts ==
    ASSUME NEW id \in Ids, NEW sig \in Ids \cup TunedScheds,
           NEW rep \in Reports \cup {None}, NEW perf \in Perfs \cup {None},
           NEW ok \in BOOLEAN
    PROVE  LET e == Entry(id, sig, rep, perf, ok) IN
           /\ e \in Entries /\ e # None
           /\ e.id = id /\ e.sig = sig /\ e.rep = rep /\ e.perf = perf
           /\ e.accepted = ok
<1>1. Entry(id, sig, rep, perf, ok) \in Entries
  BY DEF Entry, Entries
<1>2. None \notin Entries
  BY ResultTypes
<1> QED
  BY <1>1, <1>2 DEF Entry

LEMMA TuneInitialStep == LegacyInv /\ TuneInitial => LegacyInv'
<1> SUFFICES ASSUME LegacyInv, TuneInitial PROVE LegacyInv'
  OBVIOUS
<1> USE DEF LegacyInv
<1>1. /\ pc = "tune_initial" /\ truth' \in [TunedScheds -> Verdict]
      /\ UNCHANGED <<clock, conf, error, topology, key, cands, final, lineage, online,
                     records, files, alias, call>>
  BY DEF TuneInitial, search
<1>2. tuning \in Tunings /\ final # None /\ final \in Ids /\ clock \in Nat
  BY <1>1 DEF TypeOK, FinalInv
<1>3. PICK k \in DOMAIN cands :
        /\ k = IndexOf(cands, final) /\ cands[k] \in Cands /\ cands[k].id = final
        /\ Sensible(cands[k].rep)
  BY <1>1, <1>2, SelectedPlace DEF Selectable
<1> DEFINE rep == cands[k].rep
           perf == Performance(online)
<1>4. PICK started \in tuning.asked .. clock :
         LET late == clock - started >= tuning.budget
             ok == ~late /\ Rejection(rep, perf, tuning.online) = None
             entry == Entry(final, final, rep, perf, ok)
         IN /\ tuning' = [tuning EXCEPT !.started = started,
                            !.best = IF ok THEN entry ELSE None,
                            !.signatures = {final}, !.late = late,
                            !.history = <<entry>>]
            /\ pc' = IF late THEN "tuned" ELSE "iterate"
  BY <1>3 DEF TuneInitial
<1> DEFINE late == clock - started >= tuning.budget
           ok == ~late /\ Rejection(rep, perf, tuning.online) = None
           entry == Entry(final, final, rep, perf, ok)
           b == IF ok THEN entry ELSE None
<1>5. /\ tuning' = [tuning EXCEPT !.started = started, !.best = b,
                      !.signatures = {final}, !.late = late, !.history = <<entry>>]
      /\ pc' \in {"tuned", "iterate"}
  BY <1>4
<1>6. rep \in Reports /\ perf \in Perfs \cup {None} /\ rep # None
  BY <1>3, PerformanceType, ResultTypes DEF Cands, TypeOK
<1>7. late \in BOOLEAN /\ ok \in BOOLEAN /\ (ok => Rejection(rep, perf, tuning.online) = None)
  OBVIOUS
<1> HIDE DEF rep, perf, late, ok
<1>8. /\ entry \in Entries /\ entry # None /\ entry.id = final /\ entry.rep = rep
      /\ entry.perf = perf /\ entry.accepted = ok
  BY <1>2, <1>6, <1>7, EntryFacts
<1>9. b \in Entries \cup {None} /\ (b # None => ok /\ b = entry)
  BY <1>8
<1> HIDE DEF entry, b
<1>10. started \in Int /\ <<entry>> \in Seq(Entries) /\ {final} \in SUBSET (Ids \cup TunedScheds)
  BY <1>2, <1>8 DEF Tunings
<1>11. /\ tuning' \in Tunings /\ tuning'.best = b /\ tuning'.history = <<entry>>
       /\ tuning'.online = tuning.online /\ tuning'.queue = tuning.queue
  BY <1>2, <1>5, <1>7, <1>9, <1>10 DEF Tunings
<1>12. TypeOK'
  BY <1>1, <1>11 DEF TypeOK
<1>13. ~TunedCall' /\ InTuner'
  BY <1>5 DEF TunedCall, InTuner
<1>15. CallInv'
  BY <1>5 DEF CallInv
<1>16. <<entry>>[1] = entry /\ Len(<<entry>>) = 1 /\ <<entry>> # <<>> /\ DOMAIN <<entry>> = 1 .. 1
  OBVIOUS
<1>17. HistoryInv'
  <2>1. tuning.queue = <<>>
    BY <1>1 DEF HistoryInv
  <2>2. 2 .. Len(<<entry>>) = {}
    BY <1>16
  <2> QED
    BY <1>1, <1>6, <1>8, <1>11, <1>13, <1>16, <2>1, <2>2 DEF HistoryInv
<1>14. SearchInv' /\ FinalInv' /\ OnlineInv' /\ RecordsInv' /\ FilesInv'
  BY <1>1, <1>5, <1>13, <1>17, TunerFrame DEF TunerPhase
<1>18. BestInv'
  <2>1. tuning.online \in BOOLEAN /\ (tuning.online <=> online # None)
    BY <1>1, <1>2 DEF BestInv, Tunings
  <2>e. PICK e \in Entries : e = entry
    BY <1>8
  <2>2. ASSUME b # None PROVE Reached(e, e)'
    <3>1. ok /\ Rejection(rep, perf, tuning.online) = None
      BY <1>7, <1>9, <2>2
    <3>2. rep.runtime /\ (tuning.online => perf # None)
      BY <1>6, <2>1, <3>1, RejectionNone
    <3>3. conf.online => tuning.online
      BY <1>1, <1>2, <1>3, <2>1, <3>2 DEF OnlineInv, rep
    <3>4. tuning.online => perf.median <= perf.median
      BY <1>6, <3>2, LegacyAssumption
    <3>5. Sensible(rep)
      BY <1>3 DEF rep
    <3> QED
      BY <1>1, <1>6, <1>8, <1>11, <2>e, <3>1, <3>2, <3>3, <3>4, <3>5 DEF Reached
  <2>3. ASSUME b # None
        PROVE  \E i \in DOMAIN <<entry>> : <<entry>>[i] = b
                 /\ (i # 1 => b.rep.sim < <<entry>>[1].rep.sim)
    BY <1>9, <1>16, <2>3
  <2>4. b # None => b = entry
    BY <1>9
  <2>5. pc' # "propose"
    BY <1>5
  <2> QED
    BY <1>1, <1>11, <1>13, <1>16, <2>e, <2>1, <2>2, <2>3, <2>4, <2>5 DEF BestInv
<1> QED
  BY <1>12, <1>14, <1>15, <1>17, <1>18

LEMMA TunedIdFacts ==
    ASSUME NEW id \in Ids, id[1] = "tune"
    PROVE  id[2] \in Nat /\ id[3] \in Nat
<1>1. id # <<"sidecar">>
  <2>1. <<"sidecar">>[1] = "sidecar"
    OBVIOUS
  <2> QED
    BY <2>1
<1>2. id \in {"solve", "tune"} \X Nat \X Nat
  BY <1>1 DEF Ids
<1> QED
  BY <1>2

(* Steps inside the tuner that conclude no proposal. *)
LEMMA TunerMoves ==
    ASSUME LegacyInv, InTuner, InTuner', tuning' \in Tunings, call' \in Calls \cup {None},
           UNCHANGED <<clock, error, topology, key, cands, final, lineage, online, records,
                       conf, truth, files, alias>>,
           tuning'.history = tuning.history, tuning'.best = tuning.best,
           tuning'.online = tuning.online,
           \/ tuning'.iteration = tuning.iteration /\ tuning'.queue = tuning.queue
           \/ tuning'.iteration = tuning.iteration + 1,
           pc' = "iterate" => tuning'.queue = <<>>,
           pc' = "propose" \/ TunedCall' => tuning.best # None,
           TunedCall' => /\ call' \in Calls /\ tuning'.queue # <<>>
                         /\ Sensible(call'.rep) /\ call'.rep.sim < tuning.best.rep.sim
                         /\ tuning.history[1].id # ProposalId',
           CallInv'
    PROVE  LegacyInv'
<1> USE DEF LegacyInv
<1>1. pc # "tune_initial" /\ pc' # "tune_initial" /\ tuning \in Tunings
  BY DEF InTuner, TunedCall, TypeOK
<1>2. TypeOK'
  BY DEF TypeOK
<1>3. pc' \notin {"tune", "tune_initial", "records"}
  BY DEF InTuner, TunedCall
<1>5. HistoryInv'
  <2>1. ASSUME NEW i \in 2 .. Len(tuning.history)
        PROVE  Concluded(tuning.history[i].id)'
    <3>1. Concluded(tuning.history[i].id)
      BY <2>1 DEF HistoryInv
    <3>2. tuning.history \in Seq(Entries) /\ tuning.iteration \in Nat
      BY <1>1 DEF Tunings
    <3>3. tuning.history[i] \in Entries
      BY <2>1, <3>2
    <3> DEFINE d == tuning.history[i].id
    <3>4. d \in Ids /\ d[1] = "tune"
      BY <3>1, <3>3 DEF Entries, Concluded
    <3>5. d[2] \in Nat /\ d[3] \in Nat
      BY <3>4, TunedIdFacts
    <3>6. d[2] <= tuning.iteration
      BY <3>1, <3>2, <3>5 DEF Concluded
    <3>7. CASE tuning'.iteration = tuning.iteration /\ tuning'.queue = tuning.queue
      BY <3>1, <3>7 DEF Concluded
    <3>8. CASE tuning'.iteration = tuning.iteration + 1
      <4>1. d[2] < tuning'.iteration
        BY <3>2, <3>5, <3>6, <3>8
      <4> QED
        BY <3>4, <4>1 DEF Concluded
    <3> QED
      BY <3>7, <3>8
  <2> QED
    BY <1>1, <2>1 DEF HistoryInv
<1>4. SearchInv' /\ FinalInv' /\ OnlineInv' /\ RecordsInv' /\ FilesInv'
  BY <1>3, <1>5, TunerFrame DEF TunerPhase
<1>6. BestInv'
  <2>1. tuning.best # None => Reached(tuning.best, tuning.history[1])'
    BY DEF BestInv, Reached
  <2> QED
    BY <1>1, <2>1 DEF BestInv
<1> QED
  BY <1>2, <1>4, <1>5, <1>6

LEMMA IterateStep == LegacyInv /\ Iterate => LegacyInv'
<1> SUFFICES ASSUME LegacyInv, Iterate PROVE LegacyInv'
  OBVIOUS
<1>1. /\ pc = "iterate"
      /\ UNCHANGED <<clock, error, topology, key, cands, final, lineage, online, records,
                     conf, truth, files, alias, call>>
  BY DEF Iterate, Others, search, sources
<1>2. /\ tuning \in Tunings /\ call \in Calls \cup {None} /\ InTuner
  BY <1>1 DEF LegacyInv, TypeOK, InTuner
<1>3. CASE pc' = "tuned" /\ UNCHANGED tuning
  <2>1. InTuner' /\ ~TunedCall' /\ CallInv'
    BY <1>3 DEF InTuner, TunedCall, CallInv
  <2> QED
    BY <1>1, <1>2, <1>3, <2>1, TunerMoves
<1>4. CASE ~(pc' = "tuned" /\ UNCHANGED tuning)
  <2>1. /\ tuning.best # None /\ pc' = "propose"
        /\ \E ps \in Proposals :
             tuning' = [tuning EXCEPT !.iteration = @ + 1, !.queue = ps]
    BY <1>4 DEF Iterate
  <2>2. PICK ps \in Proposals : tuning' = [tuning EXCEPT !.iteration = @ + 1, !.queue = ps]
    BY <2>1
  <2>3. ps \in Seq([sched : TunedScheds, fits : BOOLEAN])
    <3> DEFINE P == [sched : TunedScheds, fits : BOOLEAN]
    <3> HIDE DEF P
    <3>1. PICK n \in 0 .. MaxProposals : ps \in [1 .. n -> P]
      BY <2>2 DEF Proposals, P
    <3>2. n \in Nat
      BY LegacyAssumption, <3>1
    <3>3. ps \in Seq(P)
      BY <3>1, <3>2
    <3> QED
      BY <3>3 DEF P
  <2>4. /\ tuning' \in Tunings /\ tuning'.history = tuning.history
        /\ tuning'.best = tuning.best /\ tuning'.online = tuning.online
        /\ tuning'.iteration = tuning.iteration + 1
    <3> DEFINE n == tuning.iteration + 1
    <3>1. n \in Nat /\ tuning' = [tuning EXCEPT !.iteration = n, !.queue = ps]
      BY <1>2, <2>2 DEF Tunings
    <3> HIDE DEF n
    <3>2. tuning' \in Tunings
      BY <1>2, <2>3, <3>1 DEF Tunings
    <3>3. /\ tuning'.history = tuning.history /\ tuning'.best = tuning.best
          /\ tuning'.online = tuning.online /\ tuning'.iteration = n
      BY <1>2, <3>1 DEF Tunings
    <3> QED
      BY <3>2, <3>3 DEF n
  <2>5. InTuner' /\ ~TunedCall' /\ CallInv'
    BY <2>1 DEF InTuner, TunedCall, CallInv
  <2> QED
    BY <1>1, <1>2, <2>1, <2>4, <2>5, TunerMoves
<1> QED
  BY <1>3, <1>4

LEMMA EndIterationStep == LegacyInv /\ EndIteration => LegacyInv'
<1> SUFFICES ASSUME LegacyInv, EndIteration PROVE LegacyInv'
  OBVIOUS
<1>1. /\ pc = "propose" /\ tuning.queue = <<>> /\ pc' \in {"tuned", "iterate"}
      /\ UNCHANGED <<clock, error, topology, key, cands, final, lineage, online, records,
                     conf, truth, files, alias, call, tuning>>
  BY DEF EndIteration, Others, search, sources
<1>2. /\ tuning \in Tunings /\ call \in Calls \cup {None} /\ InTuner
  BY <1>1 DEF LegacyInv, TypeOK, InTuner
<1>3. InTuner' /\ ~TunedCall' /\ CallInv'
  BY <1>1 DEF InTuner, TunedCall, CallInv
<1> QED
  BY <1>1, <1>2, <1>3, TunerMoves

LEMMA ProposalFacts ==
    ASSUME tuning \in Tunings, tuning.queue # <<>>
    PROVE  /\ Proposal.sched \in TunedScheds /\ Proposal.fits \in BOOLEAN
           /\ ProposalId \in Ids
           /\ Tail(tuning.queue) \in Seq([sched : TunedScheds, fits : BOOLEAN])
           /\ Len(Tail(tuning.queue)) = Len(tuning.queue) - 1
           /\ Len(tuning.queue) \in Nat
<1> DEFINE P == [sched : TunedScheds, fits : BOOLEAN]
<1>1. tuning.queue \in Seq(P) /\ tuning.iteration \in Nat
  BY DEF Tunings
<1> DEFINE q == tuning.queue
<1> HIDE DEF P, q
<1>2. q \in Seq(P) /\ q # <<>>
  BY <1>1 DEF q
<1>3. Head(q) \in P /\ Tail(q) \in Seq(P) /\ Len(Tail(q)) = Len(q) - 1 /\ Len(q) \in Nat
  BY <1>2
<1>4. Proposal \in P
  BY <1>3 DEF Proposal, q
<1>5. ProposalId \in Ids
  BY <1>1, <1>3 DEF ProposalId, Ids, q
<1> QED
  BY <1>3, <1>4, <1>5 DEF P, q

(* A proposal that is no duplicate is not named as what tuning began with. *)
LEMMA FreshFacts ==
    ASSUME LegacyInv, InTuner, ~Duplicate
    PROVE  tuning.history[1].id # ProposalId
<1>1. tuning.history # <<>> /\ tuning.history \in Seq(Entries)
  BY DEF LegacyInv, HistoryInv, TypeOK, Tunings
<1>2. 1 \in DOMAIN tuning.history
  BY <1>1
<1> QED
  BY <1>2 DEF Duplicate

LEMMA AssessStep == LegacyInv /\ Assess => LegacyInv'
<1> SUFFICES ASSUME LegacyInv, Assess PROVE LegacyInv'
  OBVIOUS
<1> DEFINE s == Proposal.sched
           rep == Report(truth[s])
<1>1. /\ pc = "propose" /\ tuning.queue # <<>> /\ truth[s].sim < tuning.best.rep.sim
      /\ ~Duplicate
      /\ tuning' = [tuning EXCEPT !.signatures = @ \union {s}]
      /\ call' = Call(ProposalId, rep, FALSE, TRUE, "tuned")
      /\ pc' \in {"online", "judge"}
      /\ UNCHANGED <<clock, error, topology, key, cands, final, lineage, online, records,
                     conf, truth, files, alias>>
  BY DEF Assess, Others, search, sources
<1>2. tuning \in Tunings /\ InTuner /\ tuning.best # None
  BY <1>1 DEF LegacyInv, TypeOK, InTuner, BestInv
<1>3. s \in TunedScheds /\ ProposalId \in Ids
  BY <1>1, <1>2, ProposalFacts
<1>4. truth \in [TunedScheds -> Verdict] /\ truth[s] \in Verdict
  <2>1. truth \in [TunedScheds -> Verdict]
    BY <1>2 DEF LegacyInv, HistoryInv
  <2> HIDE DEF s
  <2> QED
    BY <1>3, <2>1
<1> HIDE DEF s
<1>5. rep \in Reports /\ Sensible(rep) /\ rep.sim <= truth[s].sim /\ truth[s].sim \in Nat
  BY <1>4, ReportFacts
<1>6. tuning.best.rep.sim \in Nat
  <2>1. tuning.best \in Entries /\ tuning.best.rep # None
    BY <1>2 DEF LegacyInv, BestInv, Reached, Tunings
  <2>2. tuning.best.rep \in Reports
    BY <2>1 DEF Entries
  <2> QED
    BY <2>2 DEF Reports
<1>7. rep.sim < tuning.best.rep.sim
  <2>1. rep.sim \in Nat
    BY <1>5 DEF Reports
  <2> QED
    BY <1>1, <1>5, <1>6, <2>1
<1> HIDE DEF rep
<1>8. /\ call' \in Calls /\ call'.rep = rep /\ call'.return = "tuned"
      /\ ~call'.calibrate /\ call'.stage = "enter" /\ ~call'.stable
      /\ call'.res = NoResult
  <2>1. call' = Call(ProposalId, rep, FALSE, TRUE, "tuned")
    BY <1>1
  <2>2. FALSE \in BOOLEAN /\ TRUE \in BOOLEAN
    OBVIOUS
  <2>3. PICK id \in Ids, r \in Reports, f \in BOOLEAN, t \in BOOLEAN :
          id = ProposalId /\ r = rep /\ f = FALSE /\ t = TRUE
    BY <1>3, <1>5, <2>2
  <2>4. call' = Call(id, r, f, t, "tuned")
    BY <2>1, <2>3
  <2>5. /\ call' \in Calls /\ call'.rep = r /\ call'.return = "tuned"
        /\ call'.calibrate = f /\ call'.stage = "enter" /\ ~call'.stable
        /\ call'.res = NoResult
    BY <2>4, CallFacts
  <2> QED
    BY <2>3, <2>5
<1>9. /\ tuning' \in Tunings /\ tuning'.history = tuning.history
      /\ tuning'.best = tuning.best /\ tuning'.online = tuning.online
      /\ tuning'.iteration = tuning.iteration /\ tuning'.queue = tuning.queue
  <2>1. tuning.signatures \cup {s} \in SUBSET (Ids \cup TunedScheds)
    BY <1>2, <1>3 DEF Tunings
  <2> QED
    BY <1>1, <1>2, <2>1 DEF Tunings
<1>10. InTuner' /\ TunedCall'
  BY <1>1, <1>8 DEF InTuner, TunedCall
<1>11. CallInv'
  BY <1>1, <1>8, ResultTypes DEF CallInv
<1>12. tuning.history[1].id # ProposalId /\ ProposalId' = ProposalId
  BY <1>1, <1>2, <1>9, FreshFacts DEF ProposalId, LegacyInv
<1> QED
  BY <1>1, <1>2, <1>12, <1>5, <1>7, <1>8, <1>9, <1>10, <1>11, TunerMoves

LEMMA ReturnTunedStep == LegacyInv /\ ReturnTuned => LegacyInv'
<1> SUFFICES ASSUME LegacyInv, ReturnTuned PROVE LegacyInv'
  OBVIOUS
<1>1. /\ pc = "return" /\ call.return = "tuned" /\ pc' = "judge"
      /\ call' = [call EXCEPT !.rep = CallReport]
      /\ UNCHANGED <<clock, error, topology, key, cands, final, lineage, online, records,
                     conf, truth, files, alias, tuning>>
  BY DEF ReturnTuned, Returned, Others, search, sources
<1>2. InTuner /\ TunedCall /\ InTuner' /\ TunedCall'
  BY <1>1 DEF InTuner, TunedCall
<1>3. /\ call \in Calls /\ tuning.queue # <<>> /\ Sensible(call.rep)
      /\ call.rep.sim < tuning.best.rep.sim /\ tuning.best # None /\ tuning \in Tunings
      /\ tuning.history[1].id # ProposalId /\ ProposalId' = ProposalId
  BY <1>1, <1>2 DEF LegacyInv, BestInv, TypeOK, ProposalId
<1>4. /\ CallReport \in Reports /\ CallReport.core = call.rep.core
      /\ CallReport.artifact = call.rep.artifact /\ CallReport.sim = call.rep.sim
  BY <1>3, CallReportFacts
<1>5. call' \in Calls /\ call'.rep = CallReport
  BY <1>1, <1>3, <1>4 DEF Calls
<1>6. Sensible(call'.rep) /\ call'.rep.sim < tuning.best.rep.sim
  BY <1>3, <1>4, <1>5 DEF Sensible
<1>7. CallInv'
  BY <1>1 DEF CallInv
<1> QED
  BY <1>1, <1>2, <1>3, <1>5, <1>6, <1>7, TunerMoves

(* A proposal is concluded: its entry joins the history, and is the best    *)
(* from now on when it was accepted.                                        *)
LEMMA ConcludeStep ==
    ASSUME LegacyInv, pc = "propose" \/ pc = "judge", pc' = "propose",
           tuning.queue # <<>>, call' \in Calls \cup {None},
           tuning.history[1].id # ProposalId,
           UNCHANGED <<clock, error, topology, key, cands, final, lineage, online, records,
                       conf, truth, files, alias>>,
           NEW rest \in Tunings, rest.best = tuning.best, rest.queue = tuning.queue,
           rest.history = tuning.history, rest.iteration = tuning.iteration,
           rest.online = tuning.online,
           NEW entry \in Entries, entry.id = ProposalId, entry.sig \in TunedScheds,
           Conclude(entry, rest),
           entry.accepted => /\ Reached(entry, tuning.history[1])
                             /\ entry.rep.sim < tuning.history[1].rep.sim
    PROVE  LegacyInv'
<1> USE DEF LegacyInv
<1> DEFINE h == tuning.history
           b == IF entry.accepted THEN entry ELSE tuning.best
<1>1. tuning \in Tunings /\ h \in Seq(Entries) /\ Len(h) \in Nat /\ DOMAIN h = 1 .. Len(h)
  BY DEF TypeOK, Tunings
<1>2. /\ InTuner /\ InTuner' /\ ~TunedCall' /\ tuning.best # None /\ final # None
  BY DEF InTuner, TunedCall, BestInv, FinalInv
<1>3. /\ ProposalId = <<"tune", tuning.iteration, Len(tuning.queue)>>
      /\ Tail(tuning.queue) \in Seq([sched : TunedScheds, fits : BOOLEAN])
      /\ Len(Tail(tuning.queue)) = Len(tuning.queue) - 1 /\ Len(tuning.queue) \in Nat
  BY <1>1, ProposalFacts DEF ProposalId
<1>4. b \in Entries /\ b # None
  <2>1. tuning.best \in Entries
    BY <1>1, <1>2 DEF Tunings
  <2>2. None \notin Entries
    BY ResultTypes
  <2> QED
    BY <2>1, <2>2
<1>5. tuning' = [rest EXCEPT !.queue = Tail(tuning.queue), !.history = Append(h, entry),
                             !.best = b]
  BY DEF Conclude, Tunings
<1>6. Append(h, entry) \in Seq(Entries)
  BY <1>1
<1> HIDE DEF b
<1>7. /\ tuning' \in Tunings /\ tuning'.history = Append(h, entry) /\ tuning'.best = b
      /\ tuning'.queue = Tail(tuning.queue) /\ tuning'.iteration = tuning.iteration
      /\ tuning'.online = tuning.online
  BY <1>3, <1>4, <1>5, <1>6 DEF Tunings
<1>8. /\ Len(Append(h, entry)) = Len(h) + 1
      /\ \A i \in 1 .. Len(h) : Append(h, entry)[i] = h[i]
      /\ Append(h, entry)[Len(h) + 1] = entry
  BY <1>1
<1>9. /\ h # <<>> /\ h[1].id = final /\ h[1].rep # None /\ Len(h) >= 1
      /\ \A i \in 2 .. Len(h) : Concluded(h[i].id) /\ h[i].sig \in TunedScheds
      /\ \A i, j \in 2 .. Len(h) : i # j => h[i].id # h[j].id
      /\ \A i \in 2 .. Len(h) : h[i].id # h[1].id
      /\ truth \in [TunedScheds -> Verdict]
  <2>1. h # <<>> => Len(h) >= 1
    BY <1>1
  <2> QED
    BY <1>2, <2>1 DEF HistoryInv
<1>10. TypeOK'
  BY <1>7 DEF TypeOK
<1>12. CallInv'
  BY DEF CallInv
<1>g. PICK g : g = Append(h, entry)
  OBVIOUS
<1>13. /\ Len(g) = Len(h) + 1 /\ \A i \in 1 .. Len(h) : g[i] = h[i]
       /\ g[Len(h) + 1] = entry /\ tuning'.history = g /\ g \in Seq(Entries)
  BY <1>6, <1>7, <1>8, <1>g
<1>14. entry.id[1] = "tune" /\ entry.id[2] = tuning.iteration /\ entry.id[3] = Len(tuning.queue)
  BY <1>3
<1>15. ASSUME NEW i \in 2 .. Len(h)
       PROVE  /\ h[i].id[1] = "tune" /\ h[i].id[2] \in Nat /\ h[i].id[3] \in Nat
              /\ \/ h[i].id[2] < tuning.iteration
                 \/ h[i].id[2] = tuning.iteration /\ h[i].id[3] > Len(tuning.queue)
  <2>1. h[i] \in Entries
    BY <1>1, <1>15
  <2>2. h[i].id \in Ids
    BY <2>1 DEF Entries
  <2>3. Concluded(h[i].id)
    BY <1>9, <1>15
  <2> QED
    BY <2>2, <2>3, TunedIdFacts DEF Concluded
<1>16. tuning.iteration \in Nat
  BY <1>1 DEF Tunings
<1>17. ASSUME NEW i \in 2 .. Len(g) PROVE Concluded(g[i].id)' /\ g[i].sig \in TunedScheds
  <2>1. CASE i = Len(h) + 1
    <3>1. entry.id[3] > Len(tuning'.queue)
      BY <1>3, <1>7, <1>14
    <3>2. g[i] = entry
      BY <1>13, <2>1
    <3>3. PICK d : d = entry.id
      OBVIOUS
    <3>4. Concluded(d)'
      BY <1>7, <1>14, <3>1, <3>3 DEF Concluded
    <3> QED
      BY <3>2, <3>3, <3>4
  <2>2. CASE i # Len(h) + 1
    <3>1. i \in 2 .. Len(h) /\ g[i] = h[i]
      BY <1>1, <1>13, <1>17, <2>2
    <3>2. PICK d : d = h[i].id
      OBVIOUS
    <3>3. /\ d[1] = "tune" /\ d[2] \in Nat /\ d[3] \in Nat
          /\ d[2] < tuning.iteration \/ (d[2] = tuning.iteration /\ d[3] > Len(tuning.queue))
      BY <1>15, <3>1, <3>2
    <3>4. Concluded(d)'
      BY <1>3, <1>7, <1>16, <3>3 DEF Concluded
    <3> QED
      BY <1>9, <3>1, <3>2, <3>4
  <2> QED
    BY <2>1, <2>2
<1>18. ASSUME NEW i \in 2 .. Len(g), NEW j \in 2 .. Len(g), i # j PROVE g[i].id # g[j].id
  <2>1. ASSUME NEW k \in 2 .. Len(h), h[k].id = entry.id PROVE FALSE
    <3>1. h[k].id[2] = tuning.iteration /\ h[k].id[3] = Len(tuning.queue)
      BY <1>14, <2>1
    <3>2. \/ h[k].id[2] < tuning.iteration
          \/ h[k].id[2] = tuning.iteration /\ h[k].id[3] > Len(tuning.queue)
      BY <1>15, <2>1
    <3>3. tuning.iteration < tuning.iteration \/ Len(tuning.queue) > Len(tuning.queue)
      BY <3>1, <3>2
    <3> QED
      BY <1>3, <1>16, <3>3
  <2>2. \A k \in 2 .. Len(g) : k = Len(h) + 1 \/ k \in 2 .. Len(h)
    BY <1>1, <1>13
  <2>3. \A k \in 2 .. Len(h) : g[k] = h[k]
    BY <1>1, <1>13
  <2> QED
    BY <1>9, <1>13, <1>18, <2>1, <2>2, <2>3
<1>19. g # <<>> /\ g[1] = h[1] /\ DOMAIN g = 1 .. (Len(h) + 1)
  BY <1>1, <1>9, <1>13
<1>h. ASSUME NEW i \in 2 .. Len(g) PROVE g[i].id # g[1].id
  <2>1. i = Len(h) + 1 \/ (i \in 2 .. Len(h) /\ g[i] = h[i])
    BY <1>1, <1>13, <1>h
  <2> QED
    BY <1>9, <1>13, <1>19, <2>1
<1>20. HistoryInv'
  BY <1>2, <1>9, <1>13, <1>17, <1>18, <1>19, <1>h DEF HistoryInv
<1>11. SearchInv' /\ FinalInv' /\ OnlineInv' /\ RecordsInv' /\ FilesInv'
  BY <1>2, <1>20, TunerFrame DEF TunerPhase
<1>21. PICK c \in Entries : c = b
  BY <1>4
<1>22. PICK f : f = h[1]
  OBVIOUS
<1>23. Reached(c, f)
  <2>1. Reached(tuning.best, h[1])
    BY <1>2 DEF BestInv
  <2> QED
    BY <1>21, <1>22, <2>1 DEF b
<1>24. Reached(c, f)'
  BY <1>7, <1>23 DEF Reached
<1>25. \E i \in DOMAIN g : g[i] = c /\ (i # 1 => c.rep.sim < f.rep.sim)
  <2>1. CASE entry.accepted
    <3>1. c = entry /\ c.rep.sim < f.rep.sim
      BY <1>21, <1>22, <2>1 DEF b
    <3>2. Len(h) + 1 \in DOMAIN g /\ g[Len(h) + 1] = c
      BY <1>1, <1>13, <1>19, <3>1
    <3> QED
      BY <3>1, <3>2
  <2>2. CASE ~entry.accepted
    <3>1. PICK i \in DOMAIN h : h[i] = tuning.best /\ (i # 1 => tuning.best.rep.sim < h[1].rep.sim)
      BY <1>2 DEF BestInv
    <3>2. i \in DOMAIN g /\ g[i] = h[i]
      BY <1>1, <1>13, <1>19, <3>1
    <3>3. c = tuning.best
      BY <1>21, <2>2 DEF b
    <3> QED
      BY <1>22, <3>1, <3>2, <3>3
  <2> QED
    BY <2>1, <2>2
<1>26. BestInv'
  <2>1. /\ tuning'.best = c /\ tuning'.history = g /\ g[1] = f /\ c # None
        /\ tuning'.online = tuning.online
    BY <1>4, <1>7, <1>13, <1>19, <1>21, <1>22
  <2>2. tuning.online <=> online # None
    BY <1>2 DEF BestInv
  <2> QED
    BY <1>2, <1>24, <1>25, <2>1, <2>2 DEF BestInv
<1> QED
  BY <1>10, <1>11, <1>12, <1>20, <1>26

LEMMA RejectStep ==
    ASSUME LegacyInv, pc = "propose" \/ pc = "judge", pc' = "propose",
           tuning.queue # <<>>, call' \in Calls \cup {None},
           tuning.history[1].id # ProposalId,
           UNCHANGED <<clock, error, topology, key, cands, final, lineage, online, records,
                       conf, truth, files, alias>>,
           NEW rest \in Tunings, rest.best = tuning.best, rest.queue = tuning.queue,
           rest.history = tuning.history, rest.iteration = tuning.iteration,
           rest.online = tuning.online,
           NEW rep \in Reports \cup {None}, Reject(rep, rest)
    PROVE  LegacyInv'
<1> DEFINE e == Entry(ProposalId, Proposal.sched, rep, None, FALSE)
<1>1. tuning \in Tunings
  BY DEF LegacyInv, TypeOK
<1>2. ProposalId \in Ids /\ Proposal.sched \in TunedScheds
  BY <1>1, ProposalFacts
<1>3. PICK f \in BOOLEAN : f = FALSE
  OBVIOUS
<1>4. e = Entry(ProposalId, Proposal.sched, rep, None, f)
  BY <1>3
<1>5. e \in Entries /\ e.id = ProposalId /\ e.sig = Proposal.sched /\ e.accepted = f
  <2>1. PICK id \in Ids, sig \in Ids \cup TunedScheds, perf \in Perfs \cup {None} :
          id = ProposalId /\ sig = Proposal.sched /\ perf = None
    BY <1>2
  <2>2. e = Entry(id, sig, rep, perf, f)
    BY <1>4, <2>1
  <2>3. LET x == Entry(id, sig, rep, perf, f) IN
        x \in Entries /\ x.id = id /\ x.sig = sig /\ x.accepted = f
    BY DEF Entry, Entries
  <2> HIDE DEF e
  <2> QED
    BY <2>1, <2>2, <2>3
<1>6. Conclude(e, rest)
  BY DEF Reject
<1> HIDE DEF e
<1>7. ~e.accepted
  BY <1>3, <1>5
<1> QED
  BY <1>2, <1>5, <1>6, <1>7, ConcludeStep

LEMMA RejectUncheckedStep == LegacyInv /\ RejectUnchecked => LegacyInv'
<1> SUFFICES ASSUME LegacyInv, RejectUnchecked PROVE LegacyInv'
  OBVIOUS
<1> DEFINE s == Proposal.sched
           known == [tuning EXCEPT !.signatures = @ \union {s}]
           lately == [known EXCEPT !.late = TRUE]
<1>1. /\ pc = "propose" /\ tuning.queue # <<>> /\ pc' = "propose"
      /\ UNCHANGED <<clock, error, topology, key, cands, final, lineage, online, records,
                     conf, truth, files, alias, call>>
  BY DEF RejectUnchecked, Others, search, sources
<1>2. tuning \in Tunings /\ call' \in Calls \cup {None}
  BY <1>1 DEF LegacyInv, TypeOK
<1>3. s \in TunedScheds
  BY <1>1, <1>2, ProposalFacts
<1>4. Reject(None, tuning) \/ Reject(None, known) \/ Reject(None, lately)
  BY DEF RejectUnchecked
<1> HIDE DEF s
<1>5. tuning.signatures \cup {s} \in SUBSET (Ids \cup TunedScheds)
  BY <1>2, <1>3 DEF Tunings
<1>6. /\ known \in Tunings /\ known.best = tuning.best /\ known.queue = tuning.queue
      /\ known.history = tuning.history /\ known.iteration = tuning.iteration
      /\ known.online = tuning.online
  BY <1>2, <1>5 DEF Tunings
<1> HIDE DEF known
<1>7. /\ lately \in Tunings /\ lately.best = tuning.best /\ lately.queue = tuning.queue
      /\ lately.history = tuning.history /\ lately.iteration = tuning.iteration
      /\ lately.online = tuning.online
  BY <1>6 DEF Tunings
<1> HIDE DEF lately
<1>8. tuning.history[1].id # ProposalId
  BY <1>1, FreshFacts DEF RejectUnchecked, InTuner
<1> QED
  BY <1>1, <1>2, <1>4, <1>6, <1>7, <1>8, RejectStep

LEMMA RaiseDuplicateStep == LegacyInv /\ RaiseDuplicate => LegacyInv'
<1> SUFFICES ASSUME LegacyInv, RaiseDuplicate PROVE LegacyInv'
  OBVIOUS
<1> USE DEF LegacyInv
<1>1. /\ pc = "propose" /\ tuning.queue # <<>> /\ Fail("duplicate")
      /\ UNCHANGED <<clock, sources>>
  BY DEF RaiseDuplicate
<1> DEFINE h == tuning.history
<1>2. PICK i \in DOMAIN h : h[i].id = ProposalId
  BY DEF RaiseDuplicate, Duplicate
<1>3. InTuner /\ tuning \in Tunings /\ h \in Seq(Entries) /\ DOMAIN h = 1 .. Len(h)
  BY <1>1 DEF InTuner, TypeOK, Tunings
<1>4. ProposalId[1] = "tune" /\ ProposalId[2] = tuning.iteration
      /\ ProposalId[3] = Len(tuning.queue)
  BY DEF ProposalId
<1>5. tuning.iteration \in Nat /\ Len(tuning.queue) \in Nat
  BY <1>1, <1>3, ProposalFacts DEF Tunings
<1>6. i = 1
  <2> SUFFICES ASSUME i # 1 PROVE FALSE
    OBVIOUS
  <2>1. i \in 2 .. Len(h)
    BY <1>3
  <2>2. Concluded(h[i].id)
    BY <1>3, <2>1 DEF HistoryInv
  <2>3. \/ tuning.iteration < tuning.iteration
        \/ Len(tuning.queue) > Len(tuning.queue)
    BY <1>2, <1>4, <2>2 DEF Concluded
  <2> QED
    BY <1>5, <2>3
<1>7. final[1] = "tune" /\ final # None
  BY <1>2, <1>3, <1>4, <1>6 DEF HistoryInv, FinalInv
<1>8. PICK k \in DOMAIN cands : cands[k].id = final
  BY <1>1, <1>7 DEF FinalInv, Selectable
<1>9. conf.mode = "verify"
  <2> SUFFICES ASSUME conf.mode = "solve" PROVE FALSE
    BY LegacyAssumption DEF TypeOK
  <2>1. final = <<"solve", key, k>>
    BY <1>1, <1>8 DEF SearchInv
  <2>2. final[1] = "solve"
    BY <2>1
  <2> QED
    BY <1>7, <2>2
<1>10. Excused("duplicate")
  BY <1>7, <1>9 DEF Excused
<1> QED
  BY <1>1, <1>10, FailStep

LEMMA JudgeStep == LegacyInv /\ Judge => LegacyInv'
<1> SUFFICES ASSUME LegacyInv, Judge PROVE LegacyInv'
  OBVIOUS
<1> DEFINE perf == IF tuning.online THEN Performance(call.res) ELSE None
           ok == /\ Rejection(call.rep, perf, tuning.online) = None
                 /\ Improves(tuning.best, call.rep, perf, tuning.online)
           e == Entry(ProposalId, Proposal.sched, call.rep, perf, ok)
           late == [tuning EXCEPT !.late = TRUE]
           h == tuning.history
<1>1. /\ pc = "judge" /\ pc' = "propose" /\ call' = None
      /\ UNCHANGED <<clock, error, topology, key, cands, final, lineage, online, records,
                     conf, truth, files, alias>>
  BY DEF Judge, Others, search, sources
<1>2. TunedCall /\ InTuner
  BY <1>1 DEF TunedCall, InTuner
<1>3. /\ tuning \in Tunings /\ call \in Calls /\ tuning.queue # <<>> /\ tuning.best # None
      /\ Sensible(call.rep) /\ call.rep.sim < tuning.best.rep.sim
      /\ Reached(tuning.best, h[1])
      /\ \E i \in DOMAIN h : h[i] = tuning.best
                             /\ (i # 1 => tuning.best.rep.sim < h[1].rep.sim)
  BY <1>2 DEF LegacyInv, TypeOK, BestInv
<1>4. /\ call.rep \in Reports /\ call.rep # None
      /\ call.res \in Results(Perfs) \cup {None}
  BY <1>3, ResultTypes DEF Calls
<1>n. tuning.history[1].id # ProposalId
  BY <1>2 DEF LegacyInv, BestInv
<1>5. CASE TuningExpired
  <2>1. Reject(call.rep, late)
    BY <1>5 DEF Judge
  <2>2. /\ late \in Tunings /\ late.best = tuning.best /\ late.queue = tuning.queue
        /\ late.history = tuning.history /\ late.iteration = tuning.iteration
        /\ late.online = tuning.online
    BY <1>3 DEF Tunings
  <2> HIDE DEF late
  <2> QED
    BY <1>1, <1>3, <1>4, <1>n, <2>1, <2>2, RejectStep
<1>6. CASE ~TuningExpired
  <2>1. Conclude(e, tuning)
    BY <1>6 DEF Judge
  <2>2. perf \in Perfs \cup {None} /\ tuning.online \in BOOLEAN
    <3>1. Performance(call.res) \in Perfs \cup {None}
      BY <1>4, PerformanceType
    <3> QED
      BY <1>3, <3>1 DEF Tunings
  <2>3. /\ ok \in BOOLEAN
        /\ ok => Rejection(call.rep, perf, tuning.online) = None
        /\ ok => Improves(tuning.best, call.rep, perf, tuning.online)
    <3> HIDE DEF perf
    <3>1. ok \in BOOLEAN
      BY Zenon
    <3> QED
      BY <3>1
  <2>4. ProposalId \in Ids /\ Proposal.sched \in TunedScheds
    BY <1>3, ProposalFacts
  <2> HIDE DEF perf, ok
  <2>5. /\ e \in Entries /\ e.id = ProposalId /\ e.sig = Proposal.sched
        /\ e.rep = call.rep /\ e.perf = perf /\ e.accepted = ok
    BY <1>4, <2>2, <2>3, <2>4, EntryFacts
  <2> HIDE DEF e
  <2>6. tuning.best \in Entries /\ h[1] \in Entries /\ h[1].rep # None
    <3>1. tuning.best \in Entries
      BY <1>3 DEF Tunings
    <3>2. h \in Seq(Entries) /\ h # <<>> /\ h[1].rep # None
      BY <1>2, <1>3 DEF Tunings, LegacyInv, HistoryInv
    <3>3. h[1] \in Entries
      BY <3>2
    <3> QED
      BY <3>1, <3>2, <3>3
  <2>7. /\ tuning.best.rep.sim \in Nat /\ h[1].rep.sim \in Nat /\ call.rep.sim \in Nat
    <3>1. tuning.best.rep \in Reports /\ h[1].rep \in Reports
      BY <1>3, <2>6 DEF Entries, Reached
    <3> QED
      BY <1>4, <3>1 DEF Reports
  <2>8. call.rep.sim < h[1].rep.sim
    <3>1. PICK i \in DOMAIN h : h[i] = tuning.best
                             /\ (i # 1 => tuning.best.rep.sim < h[1].rep.sim)
      BY <1>3
    <3>2. CASE i = 1
      BY <1>3, <3>1, <3>2
    <3>3. CASE i # 1
      BY <1>3, <2>7, <3>1, <3>3
    <3> QED
      BY <3>2, <3>3
  <2>9. ASSUME ok PROVE Reached(e, h[1])
    <3>1. tuning.online => perf # None
      BY <1>4, <2>2, <2>3, <2>9, RejectionNone
    <3>2. ASSUME tuning.online PROVE h[1].perf # None /\ perf.median <= h[1].perf.median
      <4>1. /\ tuning.best.perf # None /\ h[1].perf # None
            /\ tuning.best.perf.median <= h[1].perf.median
        BY <1>3, <3>2 DEF Reached
      <4>2. tuning.best.perf \in Perfs /\ h[1].perf \in Perfs /\ perf \in Perfs
        BY <2>2, <2>6, <3>1, <3>2, <4>1 DEF Entries
      <4>3. Improves(tuning.best, call.rep, perf, TRUE)
        BY <2>2, <2>3, <2>9, <3>2
      <4>4. perf.median <= tuning.best.perf.median
        BY <4>2, <4>3, ImprovesFacts
      <4>5. /\ perf.median \in Nat /\ tuning.best.perf.median \in Nat
            /\ h[1].perf.median \in Nat
        BY <4>2, LegacyAssumption
      <4> QED
        BY <4>1, <4>4, <4>5
    <3>3. conf.online => tuning.online
      BY <1>3 DEF Reached
    <3> HIDE DEF h
    <3> QED
      BY <1>3, <1>4, <2>3, <2>5, <2>9, <3>1, <3>2, <3>3 DEF Reached
  <2>10. e.accepted => Reached(e, h[1]) /\ e.rep.sim < h[1].rep.sim
    BY <2>5, <2>8, <2>9
  <2> QED
    BY <1>1, <1>3, <1>n, <2>1, <2>4, <2>5, <2>10, ConcludeStep
<1> QED
  BY <1>5, <1>6

LEMMA EndTuningStep == LegacyInv /\ EndTuning => LegacyInv'
<1> SUFFICES ASSUME LegacyInv, EndTuning PROVE LegacyInv'
  OBVIOUS
<1> USE DEF LegacyInv
<1> DEFINE h == tuning.history
           t == Tail(h)
           rep(e) == IF e.rep = None THEN Report(truth[e.sig]) ELSE e.rep
           row(e) == [id |-> e.id, topology |-> topology, rep |-> rep(e), kind |-> "tuned",
                      accepted |-> e.accepted /\ OfflineValid(rep(e))]
           m == Len(records)
           n == Len(h)
<1>1. /\ pc = "tuned" /\ pc' = "write"
      /\ records' = records \o [i \in 1 .. Len(t) |-> row(t[i])]
      /\ final' = IF tuning.best # None THEN tuning.best.id ELSE final
      /\ UNCHANGED <<clock, error, topology, key, cands, lineage, online, call, tuning,
                     conf, truth, files, alias>>
  BY DEF EndTuning, sources
<1>2. InTuner /\ ~TunedCall /\ ~InTuner' /\ ~TunedCall' /\ final # None
  BY <1>1 DEF InTuner, TunedCall, FinalInv
<1>3. /\ tuning \in Tunings /\ h \in Seq(Entries) /\ records \in Seq(Rows)
      /\ topology \in {0, 1} /\ m \in Nat /\ DOMAIN records = 1 .. m
  BY DEF TypeOK, Tunings
<1>4. /\ h # <<>> /\ h[1].id = final /\ h[1].rep # None
      /\ \A i \in 2 .. n : Concluded(h[i].id) /\ h[i].sig \in TunedScheds
      /\ \A i, j \in 2 .. n : i # j => h[i].id # h[j].id
      /\ \A i \in 2 .. n : h[i].id # h[1].id
      /\ truth \in [TunedScheds -> Verdict]
  BY <1>2 DEF HistoryInv
<1>5. /\ n \in Nat /\ n >= 1 /\ DOMAIN h = 1 .. n /\ Len(t) = n - 1
      /\ \A i \in 1 .. (n - 1) : t[i] = h[i + 1]
  <2> HIDE DEF h
  <2> QED
    BY <1>3, <1>4
<1>6. \A i \in DOMAIN h : h[i] \in Entries
  BY <1>3
<1> DEFINE ts == [i \in 1 .. Len(t) |-> row(t[i])]
<1> HIDE DEF h, t
<1>7. ASSUME NEW i \in 1 .. (n - 1)
      PROVE  /\ ts[i] \in Rows /\ ts[i].id = h[i + 1].id /\ ts[i].topology = topology
             /\ h[i + 1].rep # None => ts[i].rep = h[i + 1].rep
             /\ h[i + 1].id[1] = "tune"
  <2>1. i + 1 \in 2 .. n /\ i + 1 \in DOMAIN h
    BY <1>5, <1>7
  <2>2. PICK e \in Entries : e = h[i + 1]
    BY <1>6, <2>1
  <2>3. e.sig \in TunedScheds /\ e.id[1] = "tune"
    BY <1>4, <2>1, <2>2 DEF Concluded
  <2>4. rep(e) \in Reports
    <3>1. truth[e.sig] \in Verdict
      BY <1>4, <2>3
    <3>2. Report(truth[e.sig]) \in Reports
      BY <3>1, ReportFacts
    <3> QED
      BY <3>2 DEF Entries
  <2>5. e.rep # None => rep(e) = e.rep
    OBVIOUS
  <2> DEFINE a == e.accepted /\ OfflineValid(rep(e))
             r == rep(e)
  <2>6. a \in BOOLEAN
    <3> HIDE DEF r
    <3> QED
      BY Zenon DEF OfflineValid
  <2>7. row(e) = [id |-> e.id, topology |-> topology, rep |-> r, kind |-> "tuned",
                  accepted |-> a]
    OBVIOUS
  <2>8. ts[i] = row(e)
    BY <1>5, <1>7, <2>2
  <2> HIDE DEF a, r, ts, row, rep
  <2>9. e.id \in Ids /\ r \in Reports
    BY <2>4 DEF Entries, r
  <2>10. /\ row(e) \in Rows /\ row(e).id = e.id /\ row(e).topology = topology
         /\ row(e).rep = r
    BY <1>3, <2>6, <2>7, <2>9 DEF Rows
  <2> QED
    BY <2>2, <2>3, <2>5, <2>8, <2>10 DEF r
<1>8. ts \in Seq(Rows) /\ Len(ts) = n - 1
  <2>1. n - 1 \in Nat /\ Len(t) = n - 1
    BY <1>5
  <2>2. ts = [i \in 1 .. (n - 1) |-> ts[i]]
    BY <2>1
  <2> HIDE DEF ts
  <2> QED
    BY <1>7, <2>1, <2>2
<1>r. records' = records \o ts
  BY <1>1
<1> HIDE DEF ts, row, rep
<1>9. /\ records' \in Seq(Rows) /\ DOMAIN records' = 1 .. (m + (n - 1))
      /\ \A i \in 1 .. m : records'[i] = records[i]
      /\ \A i \in 1 .. (n - 1) : records'[m + i] = ts[i]
  <2>0. n - 1 \in Nat
    BY <1>5
  <2>1. PICK q \in Nat : q = n - 1
    BY <2>0
  <2>2. ts \in Seq(Rows) /\ Len(ts) = q
    BY <1>8, <2>1
  <2>3. /\ records' \in Seq(Rows) /\ Len(records') = m + q
        /\ \A i \in 1 .. m : records'[i] = records[i]
        /\ \A i \in 1 .. q : records'[m + i] = ts[i]
    <3>1. /\ records \o ts \in Seq(Rows) /\ Len(records \o ts) = m + q
          /\ \A i \in 1 .. (m + q) :
               (records \o ts)[i] = IF i <= m THEN records[i] ELSE ts[i - m]
      BY <1>3, <2>2, ConcatProperties
    <3>2. \A i \in 1 .. q : m + i \in 1 .. (m + q) /\ ~(m + i <= m) /\ (m + i) - m = i
      BY <1>3
    <3>3. \A i \in 1 .. m : i \in 1 .. (m + q) /\ i <= m
      BY <1>3
    <3> QED
      BY <1>r, <3>1, <3>2, <3>3
  <2> QED
    BY <1>3, <2>1, <2>3
<1>10. \A i \in DOMAIN records : records[i].id[1] = "tune" => records[i].id = final
  BY <1>2 DEF RecordsInv
<1>11. PICK c \in DOMAIN records : Chosen(c)
  BY <1>2 DEF RecordsInv
<1>12. ASSUME NEW j \in DOMAIN records', j \notin 1 .. m
       PROVE  /\ j - m \in 1 .. (n - 1) /\ records'[j] = ts[j - m]
              /\ records'[j].id = h[j - m + 1].id /\ records'[j].id[1] = "tune"
  <2>1. j - m \in 1 .. (n - 1) /\ j = m + (j - m)
    BY <1>3, <1>5, <1>9, <1>12
  <2>2. records'[j] = ts[j - m]
    BY <1>9, <2>1
  <2> QED
    BY <1>7, <2>1, <2>2
<1>13. \E k \in DOMAIN records' : Chosen(k)'
  <2>1. CASE final' = final
    <3>1. c \in DOMAIN records' /\ records'[c] = records[c]
      BY <1>3, <1>5, <1>9, <1>11
    <3>2. ASSUME ~SameName, NEW j \in DOMAIN records', records'[j].id = final
          PROVE  j = c
      <4>1. j \in 1 .. m
        <5> SUFFICES ASSUME j \notin 1 .. m PROVE FALSE
          OBVIOUS
        <5>1. j - m \in 1 .. (n - 1) /\ h[j - m + 1].id = final
          BY <1>12, <3>2
        <5>2. j - m + 1 \in 2 .. n
          BY <1>3, <1>5, <1>9, <5>1
        <5> QED
          BY <1>4, <5>1, <5>2
      <4> QED
        BY <1>3, <1>9, <1>11, <3>2, <4>1 DEF Chosen
    <3>4. ~Tuned' /\ SameName' = SameName
      BY <1>1, <1>4, <2>1 DEF Tuned, SameName, h
    <3>3. Chosen(c)'
      BY <1>1, <1>11, <2>1, <3>1, <3>2, <3>4 DEF Chosen
    <3> QED
      BY <3>1, <3>3
  <2>2. CASE final' # final
    <3>1. tuning.best # None /\ final' = tuning.best.id
      BY <1>1, <2>2
    <3>2. PICK i \in DOMAIN h : h[i] = tuning.best /\ (i # 1 => tuning.best.rep.sim < h[1].rep.sim)
      BY <1>2, <3>1 DEF BestInv, h
    <3>3. Reached(tuning.best, tuning.history[1])
      BY <1>2, <3>1 DEF BestInv
    <3>4. i # 1 /\ i - 1 \in 1 .. (n - 1) /\ i = (i - 1) + 1 /\ i \in 2 .. n
      BY <1>4, <1>5, <2>2, <3>1, <3>2
    <3>5. tuning.best.rep # None /\ Sensible(tuning.best.rep) /\ OfflineValid(tuning.best.rep)
      <4>1. tuning.best \in Entries /\ tuning.best.rep # None /\ Sensible(tuning.best.rep)
            /\ Rejection(tuning.best.rep, tuning.best.perf, tuning.online) = None
        BY <1>3, <3>1, <3>3 DEF Reached, Tunings
      <4>2. tuning.best.rep \in Reports /\ tuning.online \in BOOLEAN
        BY <1>3, <4>1 DEF Entries, Tunings
      <4> QED
        BY <4>1, <4>2, RejectionNone
    <3>6. PICK k : k = m + (i - 1)
      OBVIOUS
    <3>7. k \in DOMAIN records' /\ records'[k] = ts[i - 1]
      <4>1. records'[k] = ts[i - 1]
        BY <1>9, <3>4, <3>6
      <4>2. DOMAIN records' = 1 .. (m + (n - 1))
        BY <1>3, <1>5, <1>9
      <4>3. k \in DOMAIN records'
        BY <1>3, <1>5, <3>4, <3>6, <4>2
      <4> QED
        BY <4>1, <4>3
    <3>8. /\ records'[k].id = tuning.best.id /\ records'[k].topology = topology
          /\ records'[k].rep = tuning.best.rep
      BY <1>7, <3>2, <3>4, <3>5, <3>7
    <3>9. ASSUME NEW j \in DOMAIN records', records'[j].id = final' PROVE j = k
      <4>1. final'[1] = "tune"
        BY <1>7, <3>1, <3>2, <3>4
      <4>2. j \notin 1 .. m
        BY <1>3, <1>9, <1>10, <2>2, <3>9, <4>1
      <4>3. j - m \in 1 .. (n - 1) /\ h[j - m + 1].id = h[i].id
        BY <1>12, <3>1, <3>2, <3>9, <4>2
      <4>4. j - m + 1 \in 2 .. n
        BY <1>3, <1>5, <1>9, <4>3
      <4>5. j - m + 1 = i
        BY <1>4, <3>4, <4>3, <4>4
      <4>6. j \in Int /\ m \in Int /\ i \in Int
        BY <1>3, <1>9, <3>4
      <4> QED
        BY <3>6, <4>5, <4>6
    <3>10. tuning.best.rep.artifact
      BY <3>5 DEF Sensible, OfflineValid
    <3>11. Reached(tuning.best, tuning.history[1])'
      BY <1>1, <3>3 DEF Reached
    <3>13. final'[1] = "tune"
      BY <1>7, <3>1, <3>2, <3>4
    <3>12. Chosen(k)'
      BY <1>1, <3>13, <3>1, <3>2, <3>4, <3>5, <3>8, <3>9, <3>10, <3>11 DEF Chosen, h
    <3> QED
      BY <3>7, <3>12
  <2> QED
    BY <2>1, <2>2
<1>14. final' \in Ids
  <2>1. tuning.best # None => tuning.best.id \in Ids
    BY <1>3 DEF Tunings, Entries
  <2> QED
    BY <1>1, <1>2, <2>1 DEF TypeOK
<1>15. TypeOK'
  BY <1>1, <1>9, <1>14 DEF TypeOK
<1>16. SearchInv' /\ FinalInv'
  BY <1>1, <1>2 DEF SearchInv, FinalInv
<1>17. CallInv' /\ OnlineInv'
  BY <1>1, <1>2 DEF CallInv, OnlineInv
<1>18. HistoryInv' /\ BestInv' /\ FilesInv'
  BY <1>1, <1>2 DEF HistoryInv, BestInv, FilesInv
<1>19. RecordsInv'
  BY <1>1, <1>2, <1>13 DEF RecordsInv
<1> QED
  BY <1>15, <1>16, <1>17, <1>18, <1>19

-----------------------------------------------------------------------------
(* The run directory. *)

LEMMA WriteStep == LegacyInv /\ WriteArtifacts => LegacyInv'
<1> SUFFICES ASSUME LegacyInv, WriteArtifacts PROVE LegacyInv'
  OBVIOUS
<1> USE DEF LegacyInv
<1>1. /\ pc = "write" /\ pc' = "finalize"
      /\ files' = [i \in DOMAIN records |-> Artifact(records[i])]
      /\ UNCHANGED <<clock, error, topology, key, cands, final, lineage, online, call,
                     records, tuning, conf, truth, alias>>
  BY DEF WriteArtifacts, search, sources
<1>2. ~InTuner' /\ ~TunedCall'
  BY <1>1 DEF InTuner, TunedCall
<1>3. TypeOK'
  BY <1>1 DEF TypeOK
<1>4. SearchInv' /\ FinalInv' /\ CallInv' /\ OnlineInv'
  BY <1>1, <1>2 DEF SearchInv, FinalInv, CallInv, OnlineInv
<1>5. HistoryInv' /\ BestInv'
  BY <1>1, <1>2 DEF HistoryInv, BestInv
<1>6. RecordsInv'
  BY <1>1, <1>2 DEF RecordsInv, Chosen, Reached, SameName, Tuned
<1>7. FilesInv'
  BY <1>1 DEF FilesInv, Artifact
<1> QED
  BY <1>3, <1>4, <1>5, <1>6, <1>7

(* IndexOf finds the first of the name. *)
LEMMA IndexFirst ==
    ASSUME NEW S, NEW s \in Seq(S), NEW id, NEW i \in DOMAIN s, s[i].id = id
    PROVE  IndexOf(s, id) \in DOMAIN s /\ s[IndexOf(s, id)].id = id
<1>1. DOMAIN s = 1 .. Len(s) /\ Len(s) \in Nat
  OBVIOUS
<1> DEFINE T == {j \in 1 .. Len(s) : s[j].id = id}
<1>2. T \in SUBSET Nat /\ T # {}
  BY <1>1
<1>3. PICK m \in T : \A j \in T : m <= j
  BY <1>2, LeastNatural
<1>4. m \in 1 .. Len(s) /\ s[m].id = id /\ \A j \in 1 .. m - 1 : s[j].id # id
  BY <1>1, <1>3
<1> QED
  BY <1>1, <1>4 DEF IndexOf

(* The artifact of the selected candidate is the only one with its id, but  *)
(* for two solves of the same key.                                          *)
LEMMA ChosenArtifact ==
    ASSUME LegacyInv, pc \in {"finalize", "done"}, final # None
    PROVE  \E i \in DOMAIN records :
             /\ Chosen(i) /\ DOMAIN files = DOMAIN records
             /\ files[i] = Artifact(records[i])
             /\ files[i].xml /\ files[i].best
             /\ ~SameName => /\ IndexOf(files, final) = i
                             /\ \A j \in DOMAIN files : files[j].best => j = i
<1> USE DEF LegacyInv
<1>1. PICK i \in DOMAIN records : Chosen(i)
  BY DEF RecordsInv
<1>2. /\ records \in Seq(Rows) /\ files = [j \in DOMAIN records |-> Artifact(records[j])]
      /\ DOMAIN records = 1 .. Len(records) /\ Len(records) \in Nat
  BY DEF FilesInv, TypeOK
<1>3. DOMAIN files = DOMAIN records /\ \A j \in DOMAIN records : files[j] = Artifact(records[j])
  BY <1>2
<1>4. \A j \in DOMAIN records : /\ files[j].id = records[j].id
                                /\ files[j].best <=> records[j].id = final
                                /\ files[j].xml <=> records[j].rep.artifact
                                                    /\ OfflineValid(records[j].rep)
  <2> SUFFICES ASSUME NEW j \in DOMAIN records
               PROVE  /\ files[j].id = records[j].id
                      /\ files[j].best <=> records[j].id = final
                      /\ files[j].xml <=> records[j].rep.artifact
                                          /\ OfflineValid(records[j].rep)
    OBVIOUS
  <2> DEFINE x == records[j].rep.artifact /\ OfflineValid(records[j].rep)
             b == records[j].id = final
  <2>1. x \in BOOLEAN /\ b \in BOOLEAN
    BY Zenon DEF OfflineValid
  <2>2. files[j] = [id |-> records[j].id, topology |-> records[j].topology,
                    rep |-> records[j].rep, xml |-> x,
                    accepted |-> records[j].accepted, best |-> b]
    BY <1>3 DEF Artifact
  <2> HIDE DEF x, b
  <2>3. files[j].id = records[j].id /\ files[j].best = b /\ files[j].xml = x
    BY <2>2
  <2>4. (files[j].best <=> b) /\ (files[j].xml <=> x)
    BY <2>1, <2>3
  <2> QED
    BY <2>3, <2>4 DEF x, b
<1> DEFINE S == {files[j] : j \in DOMAIN files}
<1>5. files \in Seq(S)
  BY <1>2, <1>3
<1>6. files[i].id = final /\ (~SameName => \A j \in DOMAIN files : files[j].id = final => j = i)
  BY <1>1, <1>3, <1>4 DEF Chosen
<1>7. ~SameName => IndexOf(files, final) = i
  <2> HIDE DEF S
  <2> QED
    BY <1>3, <1>5, <1>6, IndexIs
<1> QED
  BY <1>1, <1>3, <1>4, <1>7 DEF Chosen

(* The alias is an artifact with the selected id. *)
LEMMA FirstArtifact ==
    ASSUME LegacyInv, pc \in {"finalize", "done"}, final # None
    PROVE  \E k \in DOMAIN records :
             /\ k = IndexOf(files, final) /\ files[k] = Artifact(records[k])
             /\ records[k].id = final
<1>1. PICK i \in DOMAIN records : Chosen(i)
  BY DEF LegacyInv, RecordsInv
<1>2. /\ records \in Seq(Rows) /\ files = [j \in DOMAIN records |-> Artifact(records[j])]
      /\ DOMAIN records = 1 .. Len(records) /\ Len(records) \in Nat
  BY DEF LegacyInv, FilesInv, TypeOK
<1>3. /\ DOMAIN files = DOMAIN records
      /\ \A j \in DOMAIN records : files[j] = Artifact(records[j])
      /\ \A j \in DOMAIN records : files[j].id = records[j].id
  BY <1>2 DEF Artifact
<1> DEFINE S == {files[j] : j \in DOMAIN files}
<1>4. files \in Seq(S)
  BY <1>2, <1>3
<1>5. files[i].id = final /\ i \in DOMAIN files
  BY <1>1, <1>3 DEF Chosen
<1> HIDE DEF S
<1>6. IndexOf(files, final) \in DOMAIN files /\ files[IndexOf(files, final)].id = final
  BY <1>4, <1>5, IndexFirst
<1> QED
  BY <1>3, <1>6

LEMMA FinalizeStep == LegacyInv /\ Finalize => LegacyInv'
<1> SUFFICES ASSUME LegacyInv, Finalize PROVE LegacyInv'
  OBVIOUS
<1> USE DEF LegacyInv
<1>1. pc = "finalize" /\ UNCHANGED <<clock, sources>>
  BY DEF Finalize
<1> DEFINE chosen == files[IndexOf(files, final)]
           noXml == final # None /\ ~chosen.xml
<1>2. final # None /\ ~SameName => chosen.xml
  BY <1>1, ChosenArtifact
<1>3. CASE Late
  <2>1. Fail("timeout")
    BY <1>3 DEF Finalize
  <2> QED
    BY <1>1, <2>1, FailStep, TimeoutExcused
<1>5. CASE ~Late /\ noXml
  <2>1. Fail("no_xml")
    BY <1>5 DEF Finalize
  <2>2. Excused("no_xml")
    BY <1>2, <1>5 DEF Excused
  <2> QED
    BY <1>1, <2>1, <2>2, FailStep
<1>4. CASE ~Late /\ ~noXml
  <2>1. /\ alias' = IF final = None THEN None ELSE files[IndexOf(files, final)]
        /\ pc' = "done"
        /\ UNCHANGED <<error, topology, key, cands, final, lineage, online, call,
                       records, tuning, files, clock, conf, truth>>
    BY <1>1, <1>4 DEF Finalize, search, sources
  <2>2. ~InTuner' /\ ~TunedCall'
    BY <2>1 DEF InTuner, TunedCall
  <2>3. TypeOK'
    BY <2>1 DEF TypeOK
  <2>4. SearchInv' /\ FinalInv' /\ CallInv' /\ OnlineInv'
    BY <1>1, <2>1, <2>2 DEF SearchInv, FinalInv, CallInv, OnlineInv
  <2>5. HistoryInv' /\ BestInv'
    BY <2>1, <2>2 DEF HistoryInv, BestInv
  <2>6. RecordsInv'
    BY <1>1, <2>1, <2>2 DEF RecordsInv, Chosen, Reached, SameName, Tuned
  <2>7. FilesInv'
    BY <1>1, <1>4, <2>1 DEF FilesInv, Artifact, IndexOf
  <2> QED
    BY <2>3, <2>4, <2>5, <2>6, <2>7
<1> QED
  BY <1>3, <1>4, <1>5
-----------------------------------------------------------------------------
LEMMA InitLegacy == Init => LegacyInv
<1> SUFFICES ASSUME Init PROVE LegacyInv
  OBVIOUS
<1> USE DEF Init
<1>1. NoTuning \in Tunings /\ NoTuning.queue = <<>> /\ NoTuning.history = <<>>
  BY DEF NoTuning, Tunings
<1>2. TypeOK
  BY <1>1 DEF TypeOK
<1>3. ~InTuner /\ ~TunedCall
  BY DEF InTuner, TunedCall
<1>4. SearchInv /\ FinalInv
  BY <1>3 DEF SearchInv, FinalInv
<1>5. CallInv /\ OnlineInv /\ HistoryInv
  BY <1>1, <1>3 DEF CallInv, OnlineInv, HistoryInv
<1>6. BestInv /\ RecordsInv
  BY <1>3 DEF BestInv, RecordsInv
<1>7. FilesInv
  BY NoneAssumption DEF FilesInv, Errors
<1> QED
  BY <1>2, <1>4, <1>5, <1>6, <1>7 DEF LegacyInv

LEMMA LegacyStep == LegacyInv /\ [Next]_vars => LegacyInv'
<1> SUFFICES ASSUME LegacyInv, [Next]_vars PROVE LegacyInv'
  OBVIOUS
<1>1. CASE Solve \/ Verify \/ Selected
  BY <1>1, SolveStep, VerifyStep, SelectedStep
<1>2. CASE OnlineValidation
  BY <1>2, EnterStep, PreflightStep, CalibrateStep, MeasureStep, TraceStep
     DEF OnlineValidation
<1>3. CASE ReturnLate \/ ReturnFirst \/ ReturnCalibratedSolve
           \/ ReturnCalibratedVerify \/ ReturnOperator
  BY <1>3, ReturnLateStep, ReturnFirstStep, CalibratedSolveStep,
     CalibratedVerifyStep, ReturnOperatorStep
<1>4. CASE CollectRecords
  BY <1>4, CollectStep
<1>5. CASE Tuner
  BY <1>5, BeginTuningStep, TuneInitialStep, IterateStep, RaiseDuplicateStep, RejectUncheckedStep,
     AssessStep, ReturnTunedStep, JudgeStep, EndIterationStep, EndTuningStep DEF Tuner
<1>6. CASE WriteArtifacts \/ Finalize
  BY <1>6, WriteStep, FinalizeStep
<1>7. CASE Tick
  BY <1>7, TickStep
<1>8. CASE UNCHANGED vars
  BY <1>8, StutterStep
<1> QED
  BY <1>1, <1>2, <1>3, <1>4, <1>5, <1>6, <1>7, <1>8 DEF Next, Step

(* The inductive invariant: ids name one candidate of a solve and tell two  *)
(* solves apart where their keys differ, the selected one is                *)
(* valid and from the topology in force (execute_solve, execute_verify),    *)
(* only an eligible result reaches the tuner (_run_online_candidate), and   *)
(* what the tuner holds is no worse than what it was given (tune).          *)
THEOREM LegacyInvariant == Spec => []LegacyInv
  BY InitLegacy, LegacyStep, PTL DEF Spec

(* A run that ends well exports the candidate it selected, valid and, but   *)
(* for a calibration that reproduced the curves, from the topology in force *)
(* and the only one of its name; attach_online_result_to_tuning_context is  *)
(* never called against its precondition, write_final_alias only after such *)
(* a calibration, and tune meets an id twice only when verify --tune was    *)
(* given a tuned candidate.                                                 *)
THEOREM LegacyExportSound == Spec => []ExportSound
<1>1. LegacyInv => ExportSound
  <2> SUFFICES ASSUME LegacyInv PROVE ExportSound
    OBVIOUS
  <2>1. NoInternalError
    BY DEF LegacyInv, FilesInv, Excused, NoInternalError
  <2>2. PublishedSelection
    <3> SUFFICES ASSUME pc = "done", final # None
                 PROVE  /\ alias.id = final /\ OfflineValid(alias.rep) /\ alias.xml
                        /\ SameName \/ /\ alias.topology = topology
                                       /\ \E i \in DOMAIN files :
                                            /\ files[i].best
                                            /\ \A j \in DOMAIN files : files[j].best => j = i
      BY DEF PublishedSelection
    <3>1. PICK i \in DOMAIN records :
             /\ Chosen(i) /\ DOMAIN files = DOMAIN records
             /\ files[i] = Artifact(records[i])
             /\ files[i].xml /\ files[i].best
             /\ ~SameName => /\ IndexOf(files, final) = i
                             /\ \A j \in DOMAIN files : files[j].best => j = i
      BY ChosenArtifact
    <3>2. PICK k \in DOMAIN records :
             /\ k = IndexOf(files, final) /\ files[k] = Artifact(records[k])
             /\ records[k].id = final
      BY FirstArtifact
    <3>3. alias = Artifact(records[k]) /\ alias.xml
      BY <3>2 DEF LegacyInv, FilesInv
    <3>4. alias.id = final /\ OfflineValid(alias.rep)
      <4> DEFINE x == records[k].rep.artifact /\ OfflineValid(records[k].rep)
                 b == records[k].id = final
      <4>1. alias = [id |-> records[k].id, topology |-> records[k].topology,
                     rep |-> records[k].rep, xml |-> x,
                     accepted |-> records[k].accepted, best |-> b]
        BY <3>3 DEF Artifact
      <4> HIDE DEF x, b
      <4>2. alias.xml = x /\ alias.id = records[k].id /\ alias.rep = records[k].rep
        BY <4>1
      <4>3. x
        BY <3>3, <4>2
      <4> QED
        BY <3>2, <4>2, <4>3 DEF x
    <3>5. ~SameName => alias.topology = topology
      BY <3>1, <3>2, <3>3 DEF Artifact, Chosen
    <3> QED
      BY <3>1, <3>3, <3>4, <3>5
  <2> QED
    BY <2>1, <2>2 DEF ExportSound
<1> QED
  BY <1>1, LegacyInvariant, PTL

(* Measurements guide the tuner only under an applied calibration, and what *)
(* it hands over ran on the machine where that was asked for and is no      *)
(* slower than what it began with (tune, _tuning_records).                  *)
THEOREM LegacyTuningSound == Spec => []TuningSound
<1>1. LegacyInv => TuningSound
  <2> SUFFICES ASSUME LegacyInv PROVE TuningSound
    OBVIOUS
  <2> USE DEF LegacyInv
  <2>1. TuningCalibrated
    <3> SUFFICES ASSUME pc \in {"tune_initial", "iterate", "propose", "judge"},
                        tuning.online, conf.plan
                 PROVE  topology = 1
      BY DEF TuningCalibrated
    <3>1. InTuner \/ pc = "tune_initial"
      BY DEF InTuner, TunedCall
    <3>2. online # None
      BY <3>1 DEF BestInv
    <3>3. online.allowed
      BY <3>1, <3>2 DEF OnlineInv
    <3> QED
      BY <3>2, <3>3 DEF OnlineInv
  <2>2. ASSUME pc = "done", final # None, Tuned
        PROVE  /\ tuning.best # None /\ Reached(tuning.best, tuning.history[1])
               /\ alias.rep = tuning.best.rep
               /\ tuning.best.rep.sim < tuning.history[1].rep.sim
    <3>1. PICK i \in DOMAIN records :
             /\ Chosen(i) /\ files[i] = Artifact(records[i])
             /\ ~SameName => IndexOf(files, final) = i
      BY <2>2, ChosenArtifact
    <3>4. ~SameName
      BY <2>2, <3>1 DEF Chosen, SameName
    <3>2. alias = files[i]
      BY <2>2, <3>1, <3>4 DEF FilesInv
    <3>3. alias.rep = records[i].rep
      BY <3>1, <3>2 DEF Artifact
    <3> QED
      BY <2>2, <3>1, <3>3 DEF Chosen
  <2>3. OnlineTunedRan
    <3> SUFFICES ASSUME pc = "done", conf.online, final # None, Tuned
                 PROVE  alias.rep.online = "valid" /\ alias.rep.runtime
      BY DEF OnlineTunedRan
    <3>1. tuning \in Tunings /\ tuning.online \in BOOLEAN
      BY DEF TypeOK, Tunings
    <3>2. tuning.best \in Entries
      BY <2>2, <3>1 DEF Tunings
    <3>3. tuning.best.rep \in Reports /\ tuning.online
      BY <2>2, <3>2 DEF Entries, Reached
    <3>4. Rejection(tuning.best.rep, tuning.best.perf, tuning.online) = None
      BY <2>2 DEF Reached
    <3>5. tuning.best.rep.runtime /\ tuning.best.rep.online = "valid"
      BY <3>1, <3>3, <3>4, RejectionNone
    <3> QED
      BY <2>2, <3>5
  <2>4. TunedNeverSlower
    BY <2>2 DEF TunedNeverSlower, Reached
  <2> QED
    BY <2>1, <2>3, <2>4 DEF TuningSound
<1> QED
  BY <1>1, LegacyInvariant, PTL
=============================================================================
