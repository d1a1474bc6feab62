--------------------------- MODULE MCExperiments ---------------------------
(* The experiment driver with one case, two baselines for it and two         *)
(* invocations.                                                              *)
EXTENDS Experiments

CONSTANTS c1, b1, b2, p1

MCCases == <<c1>>
MCBaselines == <<b1, b2>>
MCPair == [x \in {c1, b1, b2} |-> p1]
MCSize == [c \in {c1} |-> 1]
Line(bw, inPlace, confirmed, wrong) ==
    [bw |-> bw, inPlace |-> inPlace, confirmed |-> confirmed, wrong |-> wrong]
MCTables ==
    {<<Line(1, TRUE, TRUE, FALSE), Line(3, TRUE, TRUE, FALSE)>>,
     <<Line(2, TRUE, TRUE, FALSE), Line(1, TRUE, FALSE, FALSE)>>,
     <<Line(3, TRUE, TRUE, TRUE), Line(1, TRUE, FALSE, FALSE)>>}
MCRequests ==
    {[stage |-> s, resume |-> s # "solve", case |-> None] : s \in {"all", "solve", "summarize"}}
      \union {[stage |-> "all", resume |-> FALSE, case |-> None]}
=============================================================================
