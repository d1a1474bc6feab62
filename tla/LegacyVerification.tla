------------------------- MODULE LegacyVerification -------------------------
(***************************************************************************)
(* What the legacy entry points decide from the results of their checks:   *)
(* the validation report of a candidate (verification/pipeline.py), the    *)
(* online section added to it (workflow.py), the result of an online       *)
(* validation (verification/online/pipeline.py), and the verdict of the    *)
(* tuner on a proposal (tuning/engine.py).                                 *)
(*                                                                         *)
(* A check of a schedule is abstracted to its result.  A verdict holds the *)
(* first check that rejects the schedule ("none" when all accept it), and  *)
(* the results of the analyses that only run on an accepted one.           *)
(***************************************************************************)
EXTENDS Integers, Sequences

CONSTANTS None,
          MinImprovement    \* hyperparameters.min_tuning_improvement, percent

\* The checks in the order of the pipeline; a failing one ends it.
CheckOrder == <<"pre_lowering", "buffer", "endpoint", "deadlock", "xml">>
Verdicts(sims) == [fault : {"none"} \union {CheckOrder[i] : i \in DOMAIN CheckOrder},
                   runtime : BOOLEAN, bdd : BOOLEAN, sim : sims]

Reports == [core : BOOLEAN, artifact : BOOLEAN, runtime : BOOLEAN,
            bdd : {"not_run", "valid", "analysis_error"}, sim : Nat,
            online : {"not_run", "valid", "warning", "failed"}]

\* A report: the status of each dimension.  sim is the simulated time, 0
\* when the dynamic simulation failed or did not run.
Report(v) ==
    LET complete == v.fault = "none" IN
    [core |-> complete, artifact |-> complete,
     runtime |-> complete /\ v.runtime,
     bdd |-> IF ~complete THEN "not_run"
             ELSE IF v.bdd THEN "valid" ELSE "analysis_error",
     sim |-> IF complete THEN v.sim ELSE 0,
     online |-> "not_run"]

OfflineValid(r) == r.core /\ r.bdd = "valid" /\ r.sim > 0

-----------------------------------------------------------------------------
(* Online validation results. *)

Results(perfs) == [calibration : {"not_run", "failed", "unstable",
                                  "requires_resolve", "passed"},
                   release : {"not_run", "failed", "unstable", "passed"},
                   operator : {"not_run", "failed", "passed"},
                   failed : BOOLEAN, resolve : BOOLEAN, allowed : BOOLEAN,
                   perf : perfs \union {None}]

NoResult == [calibration |-> "not_run", release |-> "not_run",
             operator |-> "not_run", failed |-> FALSE, resolve |-> FALSE,
             allowed |-> FALSE, perf |-> None]

Failed(r) == [r EXCEPT !.failed = TRUE]

\* The calibration of this result is not the default one of the topology and
\* may only be used after a new solve.
RequiresResolve == [NoResult EXCEPT !.calibration = "requires_resolve",
                                    !.resolve = TRUE]

\* Online tuning needs a request for it, no calibration that failed, was
\* skipped or stayed unstable, a stable measurement and an eligible trace.
TuningAllowed(requested, blocked, perf, stable, eligible) ==
    /\ requested
    /\ ~blocked
    /\ perf # None
    /\ stable
    /\ eligible

WithOnlineResult(rep, r) ==
    LET ran == r.operator = "passed" /\ ~r.failed IN
    [rep EXCEPT !.online =
        CASE ran /\ r.release = "passed"   -> "valid"
          [] ran /\ r.release = "unstable" -> "warning"
          [] OTHER                         -> "failed"]

\* The applied calibration and the operator run after it, as one result.
MergeAppliedCalibration(r, requiresResolve) ==
    [r EXCEPT !.calibration = "passed", !.resolve = requiresResolve,
              !.allowed = IF requiresResolve THEN FALSE ELSE @]

AttachEligible(r) ==
    /\ r.allowed
    /\ r.operator = "passed" /\ r.release = "passed"
    /\ r.perf # None

\* The performance that an assessment carries into the comparison.
Performance(r) == IF r # None /\ r.allowed THEN r.perf ELSE None

-----------------------------------------------------------------------------
(* The tuner's verdict. *)

Rejections == {"correctness_invalid", "bdd_analysis_error",
               "simulation_incomplete", "runtime_incompatible",
               "online_validation_incomplete", "online_performance_missing"}

MutantRejection(rep, perf, online) ==
    IF /\ OfflineValid(rep)
       /\ online => rep.online = "valid" /\ perf # None
    THEN None ELSE "correctness_invalid"

Rejection(rep, perf, online) ==
    IF ~rep.core THEN "correctness_invalid"
    ELSE IF rep.bdd # "valid" THEN "bdd_analysis_error"
    ELSE IF rep.sim = 0 THEN "simulation_incomplete"
    ELSE IF ~rep.runtime THEN "runtime_incompatible"
    ELSE IF online /\ rep.online # "valid" THEN "online_validation_incomplete"
    ELSE IF online /\ perf = None THEN "online_performance_missing"
    ELSE None

Larger(x, y) == IF x > y THEN x ELSE y

\* Online, the median must fall by the configured share and by twice the
\* larger coefficient of variation; offline, the simulated time must fall.
Improves(best, rep, perf, online) ==
    IF online
    THEN (best.perf.median - perf.median) * 100 >=
           best.perf.median *
             Larger(MinImprovement, 2 * Larger(best.perf.cv, perf.cv))
    ELSE rep.sim < best.rep.sim
=============================================================================
