------------------------------ MODULE GroupSearch ------------------------------
(***************************************************************************)
(* The planner of the current workflow (planner/parameters.py and          *)
(* planner/group_search.py): the partitions of the payload that the limits *)
(* of the runtime admit, and the hierarchical plans over every way to      *)
(* group the ranks, in the order in which they are tried.                  *)
(*                                                                         *)
(* A request of this planner has, beyond the fields of Planner, the size   *)
(* of the payload in elements, the slice it asks for (0: none), the limits *)
(* of the runtime, explicit groups (a sequence of sequences), stages (0:   *)
(* any number) and batching.                                               *)
(***************************************************************************)
EXTENDS Planner

-----------------------------------------------------------------------------
(* Parameters *)

(* _minimum_rank_work for more than one rank: what rank x sends and        *)
(* receives at least, per slice and times the number of ranks.             *)
MinimumRankWork(r, x) ==
  LET R == Count(r) IN
  CASE r.coll = "broadcast" -> IF x = r.root THEN <<R, 0>> ELSE <<0, R>>
    [] r.coll = "reduce" -> IF x = r.root THEN <<0, R>> ELSE <<R, 0>>
    [] r.coll = "allgather" -> <<R, R * (R - 1)>>
    [] r.coll = "allreduce" -> <<R, R>>
    [] r.coll = "alltoall" -> <<R - 1, R - 1>>
    [] r.coll = "reduce_scatter" -> <<R - 1, 1>>

\* threadblocks that can own the sends (1) or receives (2) of rank x
Owners(r, channels, x, side) ==
  LET links == {l \in DOMAIN r.links : l[side] = x}
  IN Min({SumFunction([l \in links |-> Min({channels, r.links[l].max})]),
          channels * r.limits.tbsPerChannel, r.limits.tbs})

\* blocks rank x needs at least
Blocks(r, x) ==
  LET sides == Cardinality({s \in {1, 2} : MinimumRankWork(r, x)[s] > 0})
  IN IF r.limits.separate THEN sides ELSE Min({1, sides})

\* the least number of payload steps of rank x, scaled like MinimumRankWork
Steps(r, x) ==
  LET w == MinimumRankWork(r, x) IN IF r.limits.separate THEN w[1] + w[2] ELSE Max({w[1], w[2]})

\* a rank that cannot take part, with this many channels
Impossible(r, channels) ==
  \E x \in Ranks(r) :
    \/ Blocks(r, x) > r.limits.tbs
    \/ \E s \in {1, 2} : MinimumRankWork(r, x)[s] > 0 /\ Owners(r, channels, x, s) = 0

(* The necessary bounds on the number of slices. *)
SliceBound(r, channels) ==
  LET R == Count(r)
      factor == IF r.coll = "allgather" THEN R ELSE 1
      capacity(x, s) == Owners(r, channels, x, s) * r.limits.steps
      side(x, s) == (capacity(x, s) * R) \div MinimumRankWork(r, x)[s]
      total(x) == (Min({Owners(r, channels, x, 1) + Owners(r, channels, x, 2), r.limits.tbs})
                     * r.limits.steps * R) \div Steps(r, x)
      parsed(x) == ((r.limits.xmlNodes - 1 - R - Blocks(r, x)) * R) \div Steps(r, x)
  IN Min({(r.limits.offset + 1) \div factor, r.size}
         \cup {side(p[1], p[2]) : p \in {y \in Ranks(r) \X {1, 2} : MinimumRankWork(r, y[1])[y[2]] > 0}}
         \cup {total(x) : x \in Ranks(r)} \cup {parsed(x) : x \in Ranks(r)})

\* the numbers of slices that the bounds and the collective admit
SliceCounts(r, channels) ==
  {n \in 1..r.size : /\ ~Impossible(r, channels)
                     /\ n <= SliceBound(r, channels) /\ r.size % n = 0
                     /\ r.size \div n <= Min({r.size, r.limits.wire})
                     /\ r.coll \in {"alltoall", "reduce_scatter"} => n % Count(r) = 0}

(* initial_parameter_domain: for every number of channels that can be used *)
(* at all the requested slice, or the smallest one.                        *)
Admit(r, domain, channels, counts) ==
  LET wanted == IF r.slice = 0 THEN 0 ELSE r.size \div r.slice
  IN IF counts = {} THEN domain
     ELSE Append(domain, [channels |-> channels, n |-> IF wanted \in counts THEN wanted ELSE Max(counts)])
ParameterDomain(r) ==
  FoldLeft(LAMBDA domain, c : Admit(r, domain, c, SliceCounts(r, c)), <<>>,
           [c \in 1..Min({r.channels, r.limits.channels}) |-> c])

\* resolve_parameters
Resolved(r, choice) == choice @@ r

-----------------------------------------------------------------------------
(* Rails and tasks *)

Groups(r) == {r.node[x] : x \in Ranks(r)}
GroupRanks(r, g) == {x \in Ranks(r) : r.node[x] = g}

\* S is connected by the given links, whatever their direction
Joined(links, x) == Reach(links \cup {<<l[2], l[1]>> : l \in links}, {x})
Within(links, S) == {l \in links : l[1] \in S /\ l[2] \in S}

(* discover_rails: connected choices of one border rank from every group. *)
DiscoverRails(r) ==
  LET border == UNION {{l[1], l[2]} : l \in {k \in DOMAIN r.links : r.node[k[1]] # r.node[k[2]]}}
      choices == {S \in SUBSET border : \A g \in Groups(r) : Cardinality(S \cap GroupRanks(r, g)) = 1}
      rails == {S \in choices : Joined(Within(DOMAIN r.links, S), Min(S)) = S}
  IN IF Cardinality(Groups(r)) <= 1 THEN <<>>
     ELSE SortedBy(rails, Ordered)

(* _tasks: the required outputs by their contributors. *)
Tasks(r) ==
  LET need == RequiredOutputs(r)
      cons == SortedBy(Range(need), Ordered)
  IN [i \in DOMAIN cons |->
        [con |-> cons[i], final |-> [s \in {x \in DOMAIN need : need[x] = cons[i]} |-> need[s]]]]

\* where a value rests between the stages
Temporary(r, con) == IF Cardinality(con) = 1 THEN Min(con) ELSE Min(con) % r.n
GateIn(r, rail, g) == CHOOSE x \in rail : r.node[x] = g

\* the internal root of task i, unless one is given
DefaultRoot(r, task, i, rail) ==
  LET from == {c \div r.n : c \in task.con}
      to == {s[1] : s \in DOMAIN task.final}
  IN CASE r.coll = "allreduce" -> Ordered(rail)[((i - 1) % Cardinality(rail)) + 1]
       [] r.coll # "allreduce" /\ Cardinality(task.con) > 1 -> GateIn(r, rail, r.node[Min(to)])
       [] OTHER -> GateIn(r, rail, r.node[Min(from)])

-----------------------------------------------------------------------------
(* Plans *)

(* The loop body of build_group_plan for one task: to the gateway in every *)
(* group, between the gateways, and into the groups.  Its edges count the  *)
(* nodes from 1.                                                           *)
TaskPlan(r, task, rail, root) ==
  LET con == task.con
      sums == Cardinality(con) > 1
      twice == r.coll = "allreduce"
      held(g) == {c \in con : c \div r.n \in GroupRanks(r, g)}
      from == Ordered({r.node[c \div r.n] : c \in con})
      to == Ordered({r.node[s[1]] : s \in DOMAIN task.final})
      slot(g) == <<GateIn(r, rail, g), Temporary(r, con)>>
      members(g) == Ordered(GroupRanks(r, g))
      local(g) == Node(r, 0, IF sums THEN "reduce" ELSE "gather", slot(g)[1], members(g),
                       [s \in {<<c \div r.n, c % r.n>> : c \in held(g)} |-> {s[1] * r.n + s[2]}],
                       At(slot(g), held(g)))
      arrived == [s \in {slot(from[i]) : i \in DOMAIN from} |-> held(r.node[s[1]])]
      met == IF sums THEN At(<<root, Temporary(r, con)>>, con)
             ELSE [s \in {slot(to[i]) : i \in DOMAIN to} |-> con]
      spread == [s \in {slot(g) : g \in Groups(r)} |-> con]
      last(g) == Node(r, IF twice THEN 3 ELSE 2, "broadcast", slot(g)[1], members(g), At(slot(g), con),
                      [s \in {x \in DOMAIN task.final : r.node[x[1]] = g} |-> con])
      F == Len(from)
      D == F + IF twice THEN 2 ELSE 1
  IN [nodes |-> [i \in 1..F |-> local(from[i])]
                \o <<Node(r, 1, IF sums THEN "reduce" ELSE "broadcast", root, Ordered(rail), arrived, met)>>
                \o (IF twice THEN <<Node(r, 2, "broadcast", root, Ordered(rail), met, spread)>> ELSE <<>>)
                \o [i \in DOMAIN to |-> last(to[i])],
      edges |-> {[from |-> i, to |-> F + 1, face |-> local(from[i]).out] : i \in 1..F}
                \cup (IF twice THEN {[from |-> F + 1, to |-> F + 2, face |-> met]} ELSE {})
                \cup {[from |-> D, to |-> D + i, face |-> At(slot(to[i]), con)] : i \in DOMAIN to}]

\* plans side by side
Beside(a, b) ==
  LET shift(e) == [e EXCEPT !.from = @ + Len(a.nodes), !.to = @ + Len(a.nodes)]
  IN [nodes |-> a.nodes \o b.nodes, edges |-> a.edges \cup {shift(e) : e \in b.edges}]

(* build_group_plan: pick gives the rail of every task, roots its internal *)
(* root.                                                                   *)
GroupPlan(r, rails, tasks, pick, roots) ==
  FoldLeft(LAMBDA plan, i : Beside(plan, TaskPlan(r, tasks[i], rails[pick[i]], roots[i])),
           [nodes |-> <<>>, edges |-> {}], [i \in DOMAIN tasks |-> i])

\* _valid_stages
ValidStages(r, plan) ==
  LET stages == {plan.nodes[i].stage : i \in DOMAIN plan.nodes}
  IN stages = 0..(Cardinality(stages) - 1) /\ (r.stages # 0 => Cardinality(stages) = r.stages)

\* the elements of a sequence without those seen before
Unseen(S) == FoldLeft(LAMBDA done, x : IF x \in ToSet(done) THEN done ELSE Append(done, x), <<>>, S)

\* itertools.product(S, repeat = n), in its order
Product(S, n) == SortedBy([1..n -> S], LAMBDA f : f)

\* the choices of rails and internal roots: rails in turn, then every assignment
PlanSpecs(r, rails, tasks) ==
  LET T == Len(tasks)
      default(pick) == [i \in 1..T |-> DefaultRoot(r, tasks[i], i, rails[pick[i]])]
      balanced == [i \in 1..T |-> ((i - 1) % Len(rails)) + 1]
      seeds == [p \in DOMAIN rails |-> [i \in 1..T |-> p]]
      chosen(pick) == SelectSeq(Product(Ranks(r), T), LAMBDA f : \A i \in 1..T : f[i] \in rails[pick[i]])
      rooted(pick, roots) == [j \in DOMAIN roots |-> <<pick, roots[j]>>]
      spec(pick) == <<<<pick, default(pick)>>>> \o (IF r.coll = "allreduce" THEN rooted(pick, chosen(pick)) ELSE <<>>)
      each(picks) == FlattenSeq([i \in DOMAIN picks |-> spec(picks[i])])
      more == r.stages # 0 => r.stages = IF r.coll = "allreduce" THEN 4 ELSE 3
  IN IF rails = <<>> THEN <<>>
     ELSE Unseen(<<<<balanced, default(balanced)>>>>
                 \o (IF more THEN each(seeds \o Product(DOMAIN rails, T)) ELSE <<>>))

BuiltPlans(r, rails, tasks, specs) ==
  SelectSeq([i \in DOMAIN specs |-> GroupPlan(r, rails, tasks, specs[i][1], specs[i][2])],
            LAMBDA plan : ValidStages(r, plan))

(* _enumerate_partition_plans: the first choice, the direct plan, an       *)
(* AllReduce in one stage when that is asked for, then the other choices.  *)
PlansInOrder(r, rails, tasks, specs, direct) ==
  LET first == Min({1, Len(specs)})
  IN BuiltPlans(r, rails, tasks, SubSeq(specs, 1, first))
     \o (IF ValidStages(r, direct) THEN <<direct>> ELSE <<>>)
     \o (IF r.coll = "allreduce" /\ r.stages = 1
         THEN <<[direct EXCEPT !.nodes = [i \in DOMAIN @ |-> [@[i] EXCEPT !.stage = 0]]]>> ELSE <<>>)
     \o BuiltPlans(r, rails, tasks, SubSeq(specs, first + 1, Len(specs)))
PlansOver(r, rails, tasks) == PlansInOrder(r, rails, tasks, PlanSpecs(r, rails, tasks), DirectPlan(r))
PartitionPlans(r) == PlansOver(r, DiscoverRails(r), Tasks(r))

-----------------------------------------------------------------------------
(* Partitions of the ranks, and the stream of all plans *)

\* the exact covers of the ranks by explicit groups, in the order of covers()
Covers(r) ==
  LET sets == [i \in DOMAIN r.groups |-> ToSet(r.groups[i])]
      exact == {I \in SUBSET DOMAIN sets : /\ UNION {sets[i] : i \in I} = Ranks(r)
                                           /\ \A i, j \in I : i # j => sets[i] \cap sets[j] = {}}
      order(I) == LET s == SortedBy(I, LAMBDA i : Ordered(sets[i])) IN s
      sorted == SortedBy(exact, order)
  IN [k \in DOMAIN sorted |-> {sets[i] : i \in sorted[k]}]

(* candidate_partitions: the nodes, the covers, and what the links up to   *)
(* each cost connect.                                                      *)
Partitions(r) ==
  LET cost(l) == r.links[l].a + r.links[l].b
      within(c) == {l \in DOMAIN r.links : cost(l) <= c}
      costs == Ordered({cost(l) : l \in DOMAIN r.links})
      layer(c) == {Joined(within(c), x) : x \in Ranks(r)}
  IN Unseen(<<{GroupRanks(r, g) : g \in Groups(r)}>> \o Covers(r)
            \o [i \in DOMAIN costs |-> layer(costs[i])])

\* the request with the groups of a partition as its nodes
Projected(r, partition) ==
  LET order == SortedBy(partition, Ordered)
  IN [node |-> [x \in Ranks(r) |-> CHOOSE i \in DOMAIN order : x \in order[i]]] @@ r

(* coalesce_plan_batches: nodes of one stage, operation, root and group    *)
(* become one unless they disagree on a slot, each in the first class it   *)
(* fits.  Nodes are put in the order of their stages.                      *)
Coalesced(plan) ==
  LET same(a, b) == \A f \in {"stage", "kind", "root", "group", "links"} : a[f] = b[f]
      agree(f, g) == \A s \in DOMAIN f \cap DOMAIN g : f[s] = g[s]
      N == plan.nodes
      fits(a, b) == same(a, b) /\ agree(a.in, b.in) /\ agree(a.out, b.out)
      merge(a, b) == [a EXCEPT !.in = @ @@ b.in, !.out = @ @@ b.out]
      join(done, i) ==
        LET at == {k \in DOMAIN done.nodes : fits(done.nodes[k], N[i])}
        IN IF at = {} THEN [nodes |-> Append(done.nodes, N[i]), of |-> Append(done.of, Len(done.nodes) + 1)]
           ELSE [nodes |-> [done.nodes EXCEPT ![Min(at)] = merge(@, N[i])], of |-> Append(done.of, Min(at))]
      all == FoldLeft(join, [nodes |-> <<>>, of |-> <<>>], [i \in DOMAIN N |-> i])
      order == SortedBy(DOMAIN all.nodes, LAMBDA k : <<all.nodes[k].stage, k>>)
      place(i) == CHOOSE p \in DOMAIN order : order[p] = all.of[i]
      pairs == {<<place(e.from), place(e.to)>> : e \in plan.edges}
      between(p) == {e.face : e \in {x \in plan.edges : place(x.from) = p[1] /\ place(x.to) = p[2]}}
      union(F) == [s \in UNION {DOMAIN f : f \in F} |-> (CHOOSE f \in F : s \in DOMAIN f)[s]]
  IN [nodes |-> [p \in DOMAIN order |-> all.nodes[order[p]]],
      edges |-> {[from |-> p[1], to |-> p[2], face |-> union(between(p))] : p \in pairs}]

(* enumerate_hierarchy_plans: the partitions take turns. *)
InTurns(plans) ==
  LET turn(have, j) == [i \in DOMAIN have |-> have[i][j]]
  IN FlattenSeq([j \in 1..Max({Len(plans[i]) : i \in DOMAIN plans}) |->
                   turn(SelectSeq(plans, LAMBDA p : j <= Len(p)), j)])
Batched(r, plans) == Unseen([i \in DOMAIN plans |-> IF r.batching THEN Coalesced(plans[i]) ELSE plans[i]])
HierarchyPlans(r) ==
  Batched(r, InTurns(FoldLeft(LAMBDA done, p : Append(done, PartitionPlans(Projected(r, p))), <<>>, Partitions(r))))

(* The plans of one stream, as the solver takes them. *)
Taken(r, plans) ==
  [i \in DOMAIN plans |->
     IF PlanAccepted(r, plans[i]) /\ \A e \in plans[i].edges : e.from # e.to
     THEN Planned(r, plans[i]) ELSE Unplanned(r, "invalid")]
Stream(r) == Taken(r, HierarchyPlans(r))
StreamsOf(r, choices) == [i \in DOMAIN choices |-> Stream(Resolved(r, choices[i]))]
Streams(r) == StreamsOf(r, ParameterDomain(r))
=============================================================================
