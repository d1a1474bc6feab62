------------------------- MODULE MCProgramExecution -------------------------
(* Candidates of two to four transfers on two or three ranks, chosen so    *)
(* that in-place outputs, relays, reused scratch and both layouts occur.   *)
EXTENDS ProgramExecution

Net(i, kind, src, dst, data, deps, refs, prio) ==
  [id |-> <<"net", i, 0>>, kind |-> kind, src |-> src, dst |-> dst, chan |-> 0,
   data |-> data, target |-> {}, deps |-> {<<"net", d, 0>> : d \in deps},
   refs |-> {<<"net", d, 0>> : d \in refs}, prio |-> prio, role |-> 0..2]

Request(kind, ranks, n, root, inplace, layout, scratch, ops) ==
  [path |-> "v5", kind |-> kind, ranks |-> ranks, n |-> n, root |-> root, inplace |-> inplace,
   layout |-> layout, scratch |-> scratch, channels |-> 1, bans |-> {},
   links |-> {l \in (0..(ranks - 1)) \X (0..(ranks - 1)) : l[1] # l[2]},
   ops |-> [k \in DOMAIN ops |->
              [ops[k] EXCEPT !.target = {r * n + ((CHOOSE s \in ops[k].data : TRUE) % n) : r \in 0..(ranks - 1)}]]]

Layouts == {"separate", "fused"}
\* the transfers of a candidate restricted to a group of GPUs
Within(role, ops) == [k \in DOMAIN ops |-> [ops[k] EXCEPT !.role = role]]

\* both ranks reduce into the other at once
Exchange == {Request("allreduce", 2, 1, 0, ip, lay, 1,
               Within(role, <<Net(1, "rrc", 0, 1, {0}, {}, {}, p), Net(2, "rrc", 1, 0, {1}, {}, refs, 3 - p)>>)) :
               ip \in BOOLEAN, lay \in Layouts, p \in {1, 2}, refs \in {{}, {1}}, role \in {{0, 1}, {0}}}
\* reduce to rank 0, then send the sum back
Star == {Request("allreduce", 3, 1, 0, ip, "separate", sc,
           <<Net(1, "rrc", 1, 0, {1}, {}, {}, 1), Net(2, "rrc", 2, 0, {2}, {}, {}, p),
             Net(3, "send", 0, 1, {0, 1, 2}, {1, 2}, {}, 3), Net(4, "send", 0, 2, {0, 1, 2}, {1, 2}, {3}, 4)>>) :
           ip \in BOOLEAN, sc \in {1, 2}, p \in {0, 2}}
\* two slices relayed through rank 1
Relay == {Request("broadcast", 3, 2, 0, ip, "separate", sc,
            <<Net(1, "send", 0, 1, {0}, {}, {}, 1), Net(2, "send", 0, 1, {1}, {}, {}, p),
              Net(3, "send", 1, 2, {0}, {1}, {}, 3), Net(4, "send", 1, 2, {1}, {2}, {}, 5 - p)>>) :
            ip \in BOOLEAN, sc \in {1, 2}, p \in {2, 4}}
\* personalised exchange and reduce-scatter, whose outputs lie in place
Swap == {Request(k, 2, 2, 0, ip, lay, 2,
           IF k = "alltoall"
           THEN <<Net(1, "send", 0, 1, {1}, {}, {}, 1), Net(2, "send", 1, 0, {2}, {}, {}, 2)>>
           ELSE <<Net(1, "rrc", 0, 1, {1}, {}, {}, 1), Net(2, "rrc", 1, 0, {2}, {}, {}, 2)>>) :
           k \in {"alltoall", "reduce_scatter"}, ip \in BOOLEAN, lay \in Layouts}

\* a transfer of a legacy schedule
Timed(i, kind, src, dst, data, st, ed, preds, hops) ==
  [id |-> <<"net", i, 0>>, kind |-> kind, src |-> src, dst |-> dst, chan |-> 0, data |-> data,
   st |-> st, ed |-> ed, preds |-> {<<"net", d, 0>> : d \in preds}, sem |-> {},
   hops |-> {<<"net", d, 0>> : d \in hops}]
LegacyRequest(kind, ranks, n, root, inplace, ops) ==
  [path |-> "legacy", kind |-> kind, ranks |-> ranks, n |-> n, root |-> root, inplace |-> inplace,
   scratch |-> 4, channels |-> 1, bans |-> {}, finals |-> {},
   links |-> {l \in (0..(ranks - 1)) \X (0..(ranks - 1)) : l[1] # l[2]}, ops |-> ops]

LegacyStar == {LegacyRequest("allreduce", 3, 1, 0, ip,
                 <<Timed(1, "rrc", 1, 0, {1}, 0, 2, {}, {}), Timed(2, "rrc", 2, 0, {2}, t, t + 2, {}, {}),
                   Timed(3, "send", 0, 1, {0, 1, 2}, u, u + 2, {1, 2}, {1}),
                   Timed(4, "send", 0, 2, {0, 1, 2}, u, u + 2, {1, 2}, {2})>>) :
                 ip \in BOOLEAN, t \in {0, 1, 2}, u \in {3, 4}}
LegacyRelay == {LegacyRequest("broadcast", 3, 2, 0, ip,
                  <<Timed(1, "send", 0, 1, {0}, 0, 2, {}, {}), Timed(2, "send", 0, 1, {1}, 2, 4, {}, {}),
                    Timed(3, "send", 1, 2, {0}, t, t + 2, {1} \cup p, {1}), Timed(4, "send", 1, 2, {1}, 4, 6, {2}, {2})>>) :
                  ip \in BOOLEAN, t \in {1, 2, 6}, p \in {{}, {4}}}
LegacySwap == {LegacyRequest(k, 2, 2, 0, ip,
                 IF k = "alltoall"
                 THEN <<Timed(1, "send", 0, 1, {1}, 0, 2, {}, {}), Timed(2, "send", 1, 0, {2}, 0, 2, {}, {})>>
                 ELSE <<Timed(1, "rrc", 0, 1, {1}, 0, 2, {}, {}), Timed(2, "rrc", 1, 0, {2}, 0, 2, {}, {})>>) :
                 k \in {"alltoall", "reduce_scatter"}, ip \in BOOLEAN}

\* two slices reduced through rank 1, the second after the first has left
LegacyPipeline == {LegacyRequest("reduce", 3, 2, 0, FALSE,
                     <<Timed(1, "rrc", 2, 1, {4}, 0, 2, {}, {}), Timed(2, "rrc", 1, 0, {2, 4}, 2, 4, {1}, {1}),
                       Timed(3, "rrc", 2, 1, {5}, 4, 6, {}, {}), Timed(4, "rrc", 1, 0, {3, 5}, 6, 8, {3}, {3})>>)}

LegacyRequests == LegacyStar \cup LegacyRelay \cup LegacySwap
MCRequests == Exchange \cup Star \cup Relay \cup Swap \cup LegacyRequests
=============================================================================
