-------------------------- MODULE MCLegacyWorkflow --------------------------
(* LegacyWorkflow for TLC: solve and verify, with and without machine and *)
(* calibration; schedules that are rejected, cannot run on MSCCL, or are  *)
(* valid and fast or slow; two repairs.  An offline solve finds up to two *)
(* candidates.                                                            *)
EXTENDS LegacyWorkflow
CONSTANTS a, b
Conf(m, o, p, s, w) == [mode |-> m, online |-> o, tune |-> TRUE, plan |-> p,
                        single |-> s, width |-> w]
MCConfs == {Conf(m, TRUE, p, FALSE, 1) : m \in {"solve", "verify"}, p \in BOOLEAN}
           \union {Conf("solve", FALSE, FALSE, FALSE, 2),
                   Conf("verify", FALSE, FALSE, FALSE, 1),
                   Conf("solve", TRUE, FALSE, TRUE, 1),
                   [Conf("solve", TRUE, TRUE, FALSE, 2) EXCEPT !.tune = FALSE]}
Valid(t) == [fault |-> "none", runtime |-> TRUE, bdd |-> TRUE, sim |-> t]
MCVerdict == {[Valid(1) EXCEPT !.fault = "buffer"],
              [Valid(2) EXCEPT !.runtime = FALSE],
              Valid(1), Valid(2)}
MCTuned == {a, b}
MCPerfs == {[median |-> 100, cv |-> 1], [median |-> 90, cv |-> 1],
            [median |-> 90, cv |-> 8]}
=============================================================================
