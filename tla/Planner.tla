-------------------------------- MODULE Planner --------------------------------
(***************************************************************************)
(* planner/: from a collective and a topology to the plan the solver       *)
(* works on.  A request is a record: the collective coll with its root, n  *)
(* slices per rank, links (from <<src, dst>> to [max, a, b, res]),         *)
(* resources ([max, a, b]), the node of every rank, the gateways, whether  *)
(* hierarchy is wanted, a manual hierarchy (a sequence of nodes with the   *)
(* indices they depend on, or empty), the solver's options and the budgets *)
(* in ticks, that a caller may give.                                       *)
(*                                                                         *)
(* A slice is the number rank * n + address; an interface maps slots       *)
(* <<rank, offset>> to contributors.  A plan is a sequence of nodes        *)
(* [stage, kind, root, group, in, out, links] and its edges, a set of      *)
(* [from, to, face].                                                       *)
(***************************************************************************)
EXTENDS Integers, SequencesExt

Ranks(r) == DOMAIN r.node
Count(r) == Cardinality(Ranks(r))
Addresses(r) == 0..(r.n - 1)
Slices(r) == 0..(Count(r) * r.n - 1)

\* _contributors, _aggregate_contributors
Contributors(r, ranks, a) == {x * r.n + a : x \in ranks}
Everyone(r, a) == Contributors(r, Ranks(r), a)

InitialInputs(r) == [s \in Ranks(r) \X Addresses(r) |-> {s[1] * r.n + s[2]}]

(* required_outputs of the collectives a request may name. *)
RequiredOutputs(r) ==
  LET quota == r.n \div Count(r)
      at == Ranks(r) \X Addresses(r)
  IN CASE r.coll = "broadcast" -> [s \in at |-> {r.root * r.n + s[2]}]
       [] r.coll = "reduce" -> [s \in {r.root} \X Addresses(r) |-> Everyone(r, s[2])]
       [] r.coll = "allgather" -> [s \in Ranks(r) \X Slices(r) |-> {s[2]}]
       [] r.coll = "allreduce" -> [s \in at |-> Everyone(r, s[2])]
       [] r.coll = "alltoall" ->
            [s \in at |-> {(s[2] \div quota) * r.n + s[1] * quota + (s[2] % quota)}]
       [] r.coll = "reduce_scatter" ->
            [s \in Ranks(r) \X (0..(quota - 1)) |-> Everyone(r, s[1] * quota + s[2])]

\* _node, _plan_node: a node may use the links within its group
Node(r, stage, kind, root, group, in, out) ==
  [stage |-> stage, kind |-> kind, root |-> root, group |-> group, in |-> in, out |-> out,
   links |-> {l \in DOMAIN r.links : l[1] \in ToSet(group) /\ l[2] \in ToSet(group)}]

\* sorted(S): a set of integers in ascending order
Ordered(S) == [k \in 1..Cardinality(S) |-> CHOOSE x \in S : Cardinality({y \in S : y < x}) = k - 1]

\* the order of Python's tuples
Lex(a, b) ==
  \/ \E i \in DOMAIN a \cap DOMAIN b : a[i] < b[i] /\ \A j \in 1..(i - 1) : a[j] = b[j]
  \/ Len(a) < Len(b) /\ \A j \in DOMAIN a : a[j] = b[j]

\* sorted(S, key): the elements of S by ascending key, keys being distinct
SortedBy(S, key(_)) ==
  [k \in 1..Cardinality(S) |->
     CHOOSE x \in S : Cardinality({y \in S : Lex(key(y), key(x))}) = k - 1]

-----------------------------------------------------------------------------
(* Direct plans *)

(* Variant: results are always dealt out in turn. *)
InterleavedOwner(r, a) == <<a % Count(r), a \div Count(r)>>

\* the owner of a partial result and its offset there; AllReduce may be uneven
Owner(r, a) == IF r.n % Count(r) # 0 THEN <<a % Count(r), a \div Count(r)>>
               ELSE <<a \div (r.n \div Count(r)), a % (r.n \div Count(r))>>

\* one slice at its rank, one value in a slot, one value in a slot of every rank
Own(r, ranks, a) == [s \in ranks \X {a} |-> {s[1] * r.n + a}]
At(slot, con) == [s \in {slot} |-> con]
Everywhere(r, offset, con) == [s \in Ranks(r) \X {offset} |-> con]

\* the nodes of a direct plan use all ranks
Whole(r, stage, kind, root, in, out) == Node(r, stage, kind, root, Ordered(Ranks(r)), in, out)
ByAddress(r, F(_)) == [i \in 1..r.n |-> F(i - 1)]
BySlice(r, F(_)) == [i \in 1..(Count(r) * r.n) |-> F(i - 1)]

BroadcastNodes(r) ==
  ByAddress(r, LAMBDA a : Whole(r, 0, "broadcast", r.root, Own(r, {r.root}, a),
                                Everywhere(r, a, {r.root * r.n + a})))
AllGatherNodes(r) ==
  BySlice(r, LAMBDA c : Whole(r, 0, "broadcast", c \div r.n, Own(r, {c \div r.n}, c % r.n),
                              Everywhere(r, c, {c})))
ReduceNodes(r) ==
  ByAddress(r, LAMBDA a : Whole(r, 0, "reduce", r.root, Own(r, Ranks(r), a),
                                At(<<r.root, a>>, Everyone(r, a))))
ReduceScatterNodes(r) ==
  ByAddress(r, LAMBDA a : Whole(r, 0, "reduce_scatter", -1, Own(r, Ranks(r), a),
                                At(Owner(r, a), Everyone(r, a))))
AllToAllNodes(r) ==
  LET quota == r.n \div Count(r)
      to(c) == <<(c % r.n) \div quota, (c \div r.n) * quota + ((c % r.n) % quota)>>
  IN BySlice(r, LAMBDA c : Whole(r, 0, "alltoall", -1, Own(r, {c \div r.n}, c % r.n), At(to(c), {c})))

(* _allreduce_plan: a ReduceScatter, and a broadcast of every result. *)
AllReducePlan(r) ==
  [nodes |-> ReduceScatterNodes(r)
             \o ByAddress(r, LAMBDA a : Whole(r, 1, "broadcast", Owner(r, a)[1],
                                              At(Owner(r, a), Everyone(r, a)),
                                              Everywhere(r, a, Everyone(r, a)))),
   edges |-> {[from |-> a + 1, to |-> r.n + a + 1, face |-> At(Owner(r, a), Everyone(r, a))]
              : a \in Addresses(r)}]

(* build_direct_plan: one node per value. *)
DirectPlan(r) ==
  IF r.coll = "allreduce" THEN AllReducePlan(r)
  ELSE [nodes |-> CASE r.coll = "broadcast" -> BroadcastNodes(r)
                    [] r.coll = "reduce" -> ReduceNodes(r)
                    [] r.coll = "allgather" -> AllGatherNodes(r)
                    [] r.coll = "alltoall" -> AllToAllNodes(r)
                    [] r.coll = "reduce_scatter" -> ReduceScatterNodes(r),
        edges |-> {}]

-----------------------------------------------------------------------------
(* Communication groups *)

\* the ranks of every node, by their first rank
LocalGroups(r) ==
  LET groups == {{x \in Ranks(r) : r.node[x] = r.node[y]} : y \in Ranks(r)}
      first(g) == CHOOSE x \in g : \A y \in g : x <= y
      firsts == Ordered({first(g) : g \in groups})
  IN [i \in DOMAIN firsts |-> Ordered(CHOOSE g \in groups : first(g) = firsts[i])]

\* _components: ranks joined by links in both directions, two at least
Components(r, S) ==
  LET joined(x, y) == <<x, y>> \in DOMAIN r.links /\ <<y, x>> \in DOMAIN r.links
      grow(C, i) == C \cup {y \in S : \E x \in C : joined(x, y)}
      of(x) == FoldLeft(grow, {x}, Ordered(S))
  IN {C \in {of(x) : x \in S} : Cardinality(C) >= 2}

GatewaysOf(r, group) == SelectSeq(group, LAMBDA x : x \in r.gateways)

(* discover_communication_groups: components of the gateways at the same   *)
(* position of their nodes.                                                *)
InterGroups(r) ==
  LET local == LocalGroups(r)
      at(p) == {GatewaysOf(r, local[i])[p] : i \in {j \in DOMAIN local : Len(GatewaysOf(r, local[j])) >= p}}
  IN UNION {Components(r, at(p)) : p \in 1..Count(r)}

CoversNodes(r, ranks) == {r.node[x] : x \in ranks} = {r.node[x] : x \in Ranks(r)}

(* eligible_gateway_group: the first group, as a sorted tuple, that has a  *)
(* gateway on every node; empty if there is none.                          *)
GatewayGroup(r) ==
  LET fit == {Ordered(C) : C \in {g \in InterGroups(r) : CoversNodes(r, g)}}
  IN IF fit = {} THEN <<>> ELSE CHOOSE g \in fit : \A h \in fit : h = g \/ Lex(g, h)

\* a colored graph's canonical form: equal when some bijection carries one to the other
Correspondences(r) == {p \in [Ranks(r) -> Ranks(r)] : \A x, y \in Ranks(r) : p[x] = p[y] => x = y}

Inside(r, S) == {l \in DOMAIN r.links : l[1] \in ToSet(S) /\ l[2] \in ToSet(S)}
Curve(c) == <<c.max, c.a, c.b>>
On(p, l) == <<p[l[1]], p[l[2]]>>

(* _resource_incidence_signature under a correspondence p: the resources   *)
(* behind the links of the groups match, with all the links they serve and *)
(* the roles of the ranks outside.                                         *)
SameIncidence(r, g, h, p) ==
  LET used(S) == UNION {r.links[l].res : l \in Inside(r, S)}
      members(x) == {l \in DOMAIN r.links : x \in r.links[l].res}
      outside == {x \in Ranks(r) \ ToSet(g) : \E u \in used(g) : \E l \in members(u) : x \in ToSet(l)}
      size(x) == Cardinality({y \in Ranks(r) : r.node[y] = r.node[x]})
      place(S, x) == {i \in DOMAIN S : r.node[S[i]] = r.node[x]}
  IN /\ \A x \in outside : /\ size(x) = size(p[x]) /\ place(g, x) = place(h, p[x])
                           /\ x \in r.gateways <=> p[x] \in r.gateways
                           /\ \A y \in outside : r.node[x] = r.node[y] <=> r.node[p[x]] = r.node[p[y]]
     /\ \E b \in [used(g) -> used(h)] :
          /\ Range(b) = used(h)
          /\ \A u \in used(g) : /\ Curve(r.resources[u]) = Curve(r.resources[b[u]])
                                /\ {On(p, l) : l \in members(u)} = members(b[u])

(* exact_domain_signature: equal for groups whose ranks, in order, have    *)
(* the same nodes, gateways and links.                                     *)
SameDomain(r, g, h) ==
  /\ Len(g) = Len(h)
  /\ \E p \in Correspondences(r) :
       /\ \A i \in DOMAIN g : /\ p[g[i]] = h[i]
                              /\ g[i] \in r.gateways <=> h[i] \in r.gateways
       /\ \A i, j \in DOMAIN g : r.node[g[i]] = r.node[g[j]] <=> r.node[h[i]] = r.node[h[j]]
       /\ {On(p, l) : l \in Inside(r, g)} = Inside(r, h)
       /\ \A l \in Inside(r, g) : Curve(r.links[l]) = Curve(r.links[On(p, l)])
       /\ SameIncidence(r, g, h, p)

(* eligible_gateway_groups: one rail per gateway position, when all nodes  *)
(* are alike.                                                              *)
Rails(r) ==
  LET local == LocalGroups(r)
      gates == [i \in DOMAIN local |-> GatewaysOf(r, local[i])]
      rail(p) == Ordered({gates[i][p] : i \in DOMAIN local})
  IN IF /\ \A i \in DOMAIN local : Len(gates[i]) = Len(gates[1]) /\ gates[i] # <<>>
        /\ \A i \in DOMAIN local : SameDomain(r, local[1], local[i])
        /\ \A p \in DOMAIN gates[1] : Components(r, ToSet(rail(p))) = {ToSet(rail(p))}
     THEN [p \in DOMAIN gates[1] |-> rail(p)] ELSE <<>>

-----------------------------------------------------------------------------
(* Hierarchical plans *)

\* the gateway of a local group
GateOf(r, gates, group) == CHOOSE x \in ToSet(gates) : r.node[x] = r.node[group[1]]

\* where the ReduceScatter between the gateways leaves address a
ScatterSlot(r, gates, a) ==
  LET quota == r.n \div Len(gates) IN <<gates[(a \div quota) + 1], a % quota>>

\* every address summed over all ranks, at the given ranks
Sums(r, ranks) == [s \in ranks \X Addresses(r) |-> Everyone(r, s[2])]

\* the sums of a local group at its gateway
Partial(r, gates, group) ==
  [s \in {GateOf(r, gates, group)} \X Addresses(r) |-> Contributors(r, ToSet(group), s[2])]

Spread(r, gates) ==
  [s \in {ScatterSlot(r, gates, a) : a \in Addresses(r)} |->
     Everyone(r, CHOOSE a \in Addresses(r) : ScatterSlot(r, gates, a) = s)]

\* stages 0 and 1: reduce to the gateways, ReduceScatter between them
ReduceStages(r, gates, local) ==
  [i \in DOMAIN local |->
     Node(r, 0, "reduce", GateOf(r, gates, local[i]), local[i],
          [s \in ToSet(local[i]) \X Addresses(r) |-> {s[1] * r.n + s[2]}], Partial(r, gates, local[i]))]
  \o <<Node(r, 1, "reduce_scatter", -1, gates,
            [s \in ToSet(gates) \X Addresses(r) |->
               Partial(r, gates, CHOOSE g \in ToSet(local) : GateOf(r, gates, g) = s[1])[s]],
            Spread(r, gates))>>

\* stages 2 and 3: AllGather between the gateways, AllGather from them
SpreadStages(r, gates, local) ==
  <<Node(r, 2, "allgather", -1, gates, Spread(r, gates), Sums(r, ToSet(gates)))>>
  \o [i \in DOMAIN local |-> Node(r, 3, "allgather", -1, local[i],
                                  Sums(r, {GateOf(r, gates, local[i])}), Sums(r, ToSet(local[i])))]

(* build_gateway_allreduce_plan. *)
GatewayAllReduce(r, gates) ==
  LET local == LocalGroups(r)
      L == Len(local)
  IN [nodes |-> ReduceStages(r, gates, local) \o SpreadStages(r, gates, local),
      edges |-> {[from |-> i, to |-> L + 1, face |-> Partial(r, gates, local[i])] : i \in 1..L}
                \cup {[from |-> L + 1, to |-> L + 2, face |-> Spread(r, gates)]}
                \cup {[from |-> L + 2, to |-> L + 2 + i,
                       face |-> Sums(r, {GateOf(r, gates, local[i])})] : i \in 1..L}]

\* slices are dealt out to the rails
OnRail(rails, p, S) == {c \in S : c % Len(rails) = p - 1}
Held(ranks, S) == [s \in ranks \X S |-> {s[2]}]

\* the slices of its rail that the ranks of a cell <<rail, local group>> start with
Collected(r, rails, x) == OnRail(rails, x[1], {c \in Slices(r) : c \div r.n \in ToSet(x[2])})

\* all cells
Cells(r, rails) ==
  LET local == LocalGroups(r) IN FlattenSeq([p \in DOMAIN rails |-> [i \in DOMAIN local |-> <<p, local[i]>>]])
Gate(r, rails, x) == GateOf(r, rails[x[1]], x[2])

\* stage 0: a group's slices to its gateway on their rail, where it has any
GatherCells(r, rails) == SelectSeq(Cells(r, rails), LAMBDA x : Collected(r, rails, x) # {})
GatherNode(r, rails, x) ==
  LET mine == Collected(r, rails, x) IN
  Node(r, 0, "gather", Gate(r, rails, x), x[2],
       [s \in {<<c \div r.n, c % r.n>> : c \in mine} |-> {s[1] * r.n + s[2]}], Held({Gate(r, rails, x)}, mine))

\* stage 1: AllGather along every rail
RailNode(r, rails, p) ==
  LET slots == UNION {{<<Gate(r, rails, x), c>> : c \in Collected(r, rails, x)}
                      : x \in {y \in ToSet(GatherCells(r, rails)) : y[1] = p}} IN
  Node(r, 1, "allgather", -1, rails[p], [s \in slots |-> {s[2]}],
       Held(ToSet(rails[p]), OnRail(rails, p, Slices(r))))

\* stage 2: from every gateway to its group
LocalNode(r, rails, x) ==
  Node(r, 2, "allgather", -1, x[2], Held({Gate(r, rails, x)}, OnRail(rails, x[1], Slices(r))),
       Held(ToSet(x[2]), OnRail(rails, x[1], Slices(r))))

(* build_gateway_allgather_plan. *)
GatewayAllGather(r, rails) ==
  LET cells == Cells(r, rails)
      full == GatherCells(r, rails)
      G == Len(full)
      R == Len(rails)
      gather == [k \in DOMAIN full |-> GatherNode(r, rails, full[k])]
      spread == [k \in DOMAIN cells |-> LocalNode(r, rails, cells[k])]
  IN [nodes |-> gather \o [p \in DOMAIN rails |-> RailNode(r, rails, p)] \o spread,
      edges |-> {[from |-> k, to |-> G + full[k][1], face |-> gather[k].out] : k \in 1..G}
                \cup {[from |-> G + cells[k][1], to |-> G + R + k, face |-> spread[k].in] : k \in DOMAIN cells}]

-----------------------------------------------------------------------------
(* Manual hierarchies, and the choice between the builders *)

Reach(links, S) ==
  FoldLeft(LAMBDA a, i : a \cup {e[2] : e \in {x \in links : x[1] \in a}},
           S, [i \in 1..Cardinality(links) |-> i])

(* _validate_connected_domain. *)
Connected(m) ==
  LET G == ToSet(m.group)
      sources == IF m.kind \in {"broadcast", "scatter"} THEN {m.root} ELSE G
      targets == IF m.kind \in {"reduce", "gather"} THEN {m.root} ELSE G
  IN \A x \in sources : targets \subseteq Reach(m.links, {x})

\* what producer i leaves for consumer j
Matched(nodes, i, j) ==
  LET slots == {s \in DOMAIN nodes[i].out \cap DOMAIN nodes[j].in : nodes[i].out[s] = nodes[j].in[s]}
  IN [s \in slots |-> nodes[i].out[s]]

\* _parse_manual_nodes
ManualNodes(r) ==
  [i \in DOMAIN r.manual |->
     LET m == r.manual[i] IN Node(r, m.stage, m.kind, m.root, m.group, m.in, m.out)]

(* build_manual_plan. *)
ManualPlan(r) ==
  [nodes |-> ManualNodes(r),
   edges |-> UNION {{[from |-> i, to |-> j, face |-> Matched(ManualNodes(r), i, j)] : i \in r.manual[j].after}
                    : j \in DOMAIN r.manual}]

(* What the manual builder refuses: groups that cannot communicate,        *)
(* neighbours that disagree on a value or share none, cycles.              *)
ManualRefused(plan) ==
  LET dep == {<<e.from, e.to>> : e \in plan.edges}
  IN \/ \E i \in DOMAIN plan.nodes : ~Connected(plan.nodes[i])
     \/ \E e \in plan.edges :
          \/ e.face = <<>>
          \/ \E s \in DOMAIN plan.nodes[e.from].out \cap DOMAIN plan.nodes[e.to].in :
               plan.nodes[e.from].out[s] # plan.nodes[e.to].in[s]
     \/ \E i \in DOMAIN plan.nodes : \E e \in dep : e[1] = i /\ i \in Reach(dep, {e[2]})

Has(face, s, con) == s \in DOMAIN face /\ face[s] = con

\* _validate_inputs: an input is supplied by one edge, or initial
InputsAvailable(r, plan) ==
  \A j \in DOMAIN plan.nodes :
    LET into == {e \in plan.edges : e.to = j} IN
    /\ \A e, f \in into : e # f => DOMAIN e.face \cap DOMAIN f.face = {}
    /\ \A s \in DOMAIN plan.nodes[j].in :
         \/ \E e \in into : s \in DOMAIN e.face
         \/ Has(InitialInputs(r), s, plan.nodes[j].in[s])

\* _validate_outputs: the collective's outputs are produced, and nothing without use
OutputsUsed(r, plan) ==
  LET need == RequiredOutputs(r) IN
  /\ \A s \in DOMAIN need : \E j \in DOMAIN plan.nodes : Has(plan.nodes[j].out, s, need[s])
  /\ \A i \in DOMAIN plan.nodes : \A s \in DOMAIN plan.nodes[i].out :
       \/ \E e \in plan.edges : e.from = i /\ s \in DOMAIN e.face
       \/ Has(need, s, plan.nodes[i].out[s])

(* PlanDAG.__post_init__ on an acyclic plan: edges carry what one node     *)
(* produces and the next requires.                                         *)
PlanAccepted(r, plan) ==
  /\ \A e \in plan.edges : \A s \in DOMAIN e.face :
       /\ Has(plan.nodes[e.from].out, s, e.face[s])
       /\ Has(plan.nodes[e.to].in, s, e.face[s])
  /\ InputsAvailable(r, plan)
  /\ OutputsUsed(r, plan)

\* the request with its plan, or with the reason it has none
Planned(r, plan) ==
  [plan |-> "ok", nodes |-> plan.nodes,
   producers |-> [x \in UNION {{<<e.to, s>> : s \in DOMAIN e.face} : e \in plan.edges} |->
                    (CHOOSE e \in plan.edges : e.to = x[1] /\ x[2] \in DOMAIN e.face).from],
   initial |-> InitialInputs(r), final |-> RequiredOutputs(r)] @@ r
Unplanned(r, why) == [plan |-> why, nodes |-> <<>>] @@ r

\* a built plan, unless its builder refused or PlanDAG does
Checked(r, plan, refused) ==
  IF refused THEN Unplanned(r, "refused")
  ELSE IF PlanAccepted(r, plan) THEN Planned(r, plan) ELSE Unplanned(r, "invalid")
AcrossGateways(r, gates) ==
  IF gates = <<>> THEN Checked(r, DirectPlan(r), FALSE)
  ELSE Checked(r, GatewayAllReduce(r, gates), r.n % Len(gates) # 0)
AlongRails(r, rails) ==
  Checked(r, IF rails = <<>> THEN DirectPlan(r) ELSE GatewayAllGather(r, rails), FALSE)

(* build_plan: the request with its plan, or with the reason it has none.  *)
(* With hierarchy an AllReduce whose slices the gateways cannot share out  *)
(* evenly is refused rather than planned directly.                         *)
BuildPlan(r) ==
  IF r.manual # <<>> THEN Checked(r, ManualPlan(r), ManualRefused(ManualPlan(r)))
  ELSE IF r.hierarchy /\ r.coll = "allreduce" THEN AcrossGateways(r, GatewayGroup(r))
  ELSE IF r.hierarchy /\ r.coll = "allgather" THEN AlongRails(r, Rails(r))
  ELSE Checked(r, DirectPlan(r), FALSE)
=============================================================================
