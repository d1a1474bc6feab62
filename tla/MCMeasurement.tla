--------------------------- MODULE MCMeasurement ---------------------------
(* Two hosts, one task and another run that wants the first host's GPU.    *)
(* The task calibrates with calibration reuse, twice or with payloads      *)
(* enough for a confirmed fit, or without, or it compares two candidates.  *)
EXTENDS Measurement

CONSTANTS h1, h2

MCHosts == <<h1, h2>>
Task(sizes, history, earlier, campaigns, attempts) ==
    [config |-> [sizes |-> sizes, history |-> history], cache |-> earlier,
     campaigns |-> campaigns, attempts |-> attempts, faults |-> 1]
MCWorkloads ==
    {Task(<<2>>, TRUE, {2}, 2, 0), Task(<<1, 2>>, TRUE, {1}, 1, 0),
     Task(<<2>>, FALSE, {}, 1, 0), Task(<<2>>, FALSE, {}, 0, 2)}
=============================================================================
