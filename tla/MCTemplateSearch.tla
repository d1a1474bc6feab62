--------------------------- MODULE MCTemplateSearch ---------------------------
(* Small collectives for TemplateSearch. *)
EXTENDS TemplateSearch

Both(S) == S \cup {<<e[2], e[1]>> : e \in S}
Full(R) == {e \in R \X R : e[1] # e[2]}
Link(m, a, b, res) == [max |-> m, a |-> a, b |-> b, res |-> res]

Base == [root |-> 0, n |-> 1, channels |-> 2, budgets |-> {1, 3},
         resources |-> [x \in {"bus"} |-> [max |-> 1, a |-> 1, b |-> 1]],
         gateways |-> {}, hierarchy |-> FALSE, manual |-> <<>>, forbidden |-> {}, shortest |-> FALSE,
         milp |-> TRUE, greedy |-> FALSE, auto |-> FALSE, flaky |-> FALSE, search |-> FALSE, strict |-> FALSE]

\* constructive trees only
Greedy == [milp |-> FALSE, greedy |-> TRUE] @@ Base

\* two nodes of two ranks, joined by their gateways
Pairs == Both({<<0, 1>>, <<2, 3>>, <<0, 2>>})
TwoNodes ==
  [links |-> [l \in Pairs |-> IF l \in Both({<<0, 2>>}) THEN Link(1, 3, 1, {"bus"}) ELSE Link(2, 1, 1, {})],
   node |-> [x \in 0..3 |-> x \div 2], gateways |-> {0, 2}, hierarchy |-> TRUE] @@ Greedy
GatewayAR == [coll |-> "allreduce", n |-> 2] @@ TwoNodes
UnevenAR == [coll |-> "allreduce", n |-> 3] @@ TwoNodes
GatewayAG == [coll |-> "allgather", channels |-> 1] @@ TwoNodes

\* a manual Reduce on the nodes, then between the gateways
Slot(x, c) == [s \in {<<x, 0>>} |-> c]
Initial(R) == [s \in {<<x, 0>> : x \in R} |-> {s[1]}]
Step(stage, group, in, out, after) ==
  [stage |-> stage, kind |-> "reduce", root |-> group[1], group |-> group, in |-> in, out |-> out,
   after |-> after]
ManualReduce ==
  [coll |-> "reduce", milp |-> TRUE,
   manual |-> <<Step(0, <<0, 1>>, Initial({0, 1}), Slot(0, {0, 1}), {}),
                Step(0, <<2, 3>>, Initial({2, 3}), Slot(2, {2, 3}), {}),
                Step(1, <<0, 2>>, Slot(0, {0, 1}) @@ Slot(2, {2, 3}), Slot(0, 0..3), {1, 2})>>] @@ TwoNodes
ManualGap == [ManualReduce EXCEPT !.manual[3].after = {1}]

\* three ranks on one node, rank 0 behind a bus
Triangle ==
  [links |-> [l \in Full(0..2) |-> Link(2, 1, 1, IF l[1] = 0 THEN {"bus"} ELSE {})],
   node |-> [x \in 0..2 |-> 0]] @@ Base
AllReduce == [coll |-> "allreduce", channels |-> 1] @@ Triangle
\* slice 1 may not go 0 -> 2
Broadcast ==
  [coll |-> "broadcast", n |-> 2, greedy |-> TRUE,
   links |-> [l \in {<<0, 1>>, <<0, 2>>, <<1, 2>>} |-> Triangle.links[l]],
   forbidden |-> {[slice |-> 1, src |-> 0, dst |-> 2, stage |-> 0]}] @@ Triangle

\* a line of three; AUTO; a caller may lose SCIP
Line == Both({<<0, 1>>, <<1, 2>>})
Chain(milp, auto) ==
  [coll |-> "reduce", milp |-> milp, auto |-> auto, greedy |-> ~milp, flaky |-> milp,
   links |-> [l \in Line |-> Link(2, 1, 1, {})], node |-> [x \in 0..2 |-> 0]] @@ Base

\* a ban leaves one demand without a path
Blocked == [forbidden |-> {[slice |-> 1, src |-> 1, dst |-> 0, stage |-> 0]}] @@ Chain(TRUE, FALSE)

\* a proof of optimality is required, of one model and of three
StrictChain == [strict |-> TRUE] @@ Chain(TRUE, TRUE)
StrictShortest == [strict |-> TRUE, shortest |-> TRUE] @@ Chain(TRUE, FALSE)
StrictStages == [strict |-> TRUE, channels |-> 1, budgets |-> {6, 9}] @@ ManualReduce
StrictGreedy == [strict |-> TRUE] @@ Chain(FALSE, FALSE)

\* two ranks exchange
Pair(coll, n) == [coll |-> coll, n |-> n, channels |-> 1, links |-> [l \in Full(0..1) |-> Link(1, 1, 1, {"bus"})],
               node |-> [x \in 0..1 |-> 0]] @@ Greedy

\* requests of the hierarchical planner on the two nodes: a limit of the
\* runtime decides the partition
Searched(coll, size, batching) ==
  [coll |-> coll, search |-> TRUE, milp |-> TRUE, greedy |-> FALSE, hierarchy |-> FALSE, channels |-> 1,
   size |-> size, slice |-> 0, stages |-> 0, groups |-> <<>>, batching |-> batching,
   limits |-> [offset |-> 7, steps |-> 4, tbs |-> 2, tbsPerChannel |-> 1, channels |-> 2, xmlNodes |-> 40,
               wire |-> 4, separate |-> TRUE]] @@ TwoNodes

\* two rails between the nodes
Square(coll, size) ==
  [links |-> [l \in Both({<<0, 1>>, <<2, 3>>, <<0, 2>>, <<1, 3>>}) |->
                Link(1, IF l[1] \div 2 = l[2] \div 2 THEN 1 ELSE 2, 1, {})]] @@ Searched(coll, size, FALSE)

MCRequests ==
  <<GatewayAR, UnevenAR, GatewayAG, ManualReduce, ManualGap, AllReduce, Broadcast, Chain(TRUE, TRUE),
    Chain(FALSE, FALSE), Blocked, StrictChain, StrictShortest, StrictStages, StrictGreedy, Pair("alltoall", 2), Pair("reduce_scatter", 4), Pair("allgather", 2),
    Searched("broadcast", 2, TRUE), Searched("allreduce", 1, FALSE), [groups |-> <<<<0, 2>>, <<1, 3>>, <<0>>, <<1, 2, 3>>>>] @@ Searched("reduce", 1, FALSE),
    Searched("allgather", 1, TRUE), Searched("reduce_scatter", 4, TRUE), [Square("broadcast", 6) EXCEPT !.limits.steps = 1, !.limits.wire = 6]>>
=============================================================================
