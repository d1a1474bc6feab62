---------------------------- MODULE RouteSynthesis ----------------------------
(***************************************************************************)
(* What the solver computes for a planned collective: the transfer demands *)
(* of every plan node (solver/demands.py), the routing units and template  *)
(* classes they fall into (solver/templates.py), the routes a model may    *)
(* select (solver/routing_milp.py), their instantiation on every member    *)
(* (solver/instantiate.py), and the composed transfers with their          *)
(* dependencies (composer/dual.py, composer/compose.py).                   *)
(*                                                                         *)
(* A request req comes with its plan, see Planner: nodes in topological    *)
(* order, and producers, from <<node, input slot>> to the node before it.  *)
(***************************************************************************)
EXTENDS GroupSearch

Ascending(S) == SortedBy(S, LAMBDA x : <<x>>)

Edges(p) == {<<p[i], p[i + 1]>> : i \in 1..(Len(p) - 1)}
Flip(e) == <<e[2], e[1]>>

\* TransferDemand.physical_link: a reduction is routed from its target
Physical(d, e) == IF d.dual THEN Flip(e) ELSE e

\* curve_duration_us for a channel share of a link or a shared resource
CurveDuration(c, concurrency) == c.a + concurrency * c.b

(* fixed_topology_transfer_duration_us: the slowest of a link and the      *)
(* resources it crosses when K channels are in use.                        *)
Duration(req, l, K) ==
  LET share(c) == CurveDuration(c, Min({K, c.max}))
  IN Max({share(req.links[l])} \cup {share(req.resources[x]) : x \in req.links[l].res})

-----------------------------------------------------------------------------
(* Demands *)

(* viable_path_links: the links on some walk from source to destination.   *)
ViableLinks(links, src, dst) ==
  {e \in links : /\ e[1] \in Reach(links, {src})
                 /\ e[2] \in Reach({Flip(x) : x \in links}, {dst})
                 /\ e[2] # src
                 /\ e[1] # dst}

(* ranked_simple_paths, whose limit of 32 paths no small topology meets.   *)
SimplePaths(links, src, dst) ==
  LET grow(P, i) ==
        P \cup UNION {{Append(p, e[2]) : e \in {x \in links : /\ x[1] = Last(p)
                                                            /\ x[2] \notin ToSet(p)}}
                      : p \in {q \in P : Last(q) # dst}}
      reached == FoldLeft(grow, {<<src>>}, [i \in 1..Cardinality(links) |-> i])
  IN {p \in reached : Last(p) = dst}

(* retain_shortest_paths: the paths of least cost on one channel.          *)
ShortestPaths(req, paths, dual) ==
  LET on(e) == IF dual THEN Flip(e) ELSE e
      cost(p) == SumFunction([e \in Edges(p) |-> CurveDuration(req.links[on(e)], 1)])
  IN {p \in paths : \A q \in paths : cost(p) <= cost(q)}

(* _demand with _candidate_paths: one value that rank leaf has to get from *)
(* root, or, reduction_dual, to give to root.  The bans of its members and *)
(* stage leave the links it may use and the paths it may take.             *)
Demand(req, i, root, leaf, con, mem, dual) ==
  LET node == req.nodes[i]
      allowed == IF dual THEN {Flip(e) : e \in node.links} ELSE node.links
      bans == {f \in req.forbidden : f.stage = node.stage /\ f.slice \in mem}
      banned == {IF dual THEN <<f.dst, f.src>> ELSE <<f.src, f.dst>> : f \in bans}
      viable == ViableLinks(allowed \ banned, root, leaf)
      simple == SimplePaths(viable, root, leaf)
      paths == IF req.shortest THEN ShortestPaths(req, simple, dual) ELSE simple
  IN [root |-> root, leaf |-> leaf, pos |-> (CHOOSE c \in con : TRUE) % req.n,
      con |-> con, mem |-> mem, dual |-> dual, allowed |-> allowed,
      legal |-> IF req.shortest THEN UNION {Edges(p) : p \in paths} ELSE viable,
      bans |-> bans, paths |-> paths]

Reductions == {"reduce", "reduce_scatter"}
Chains == {"gather", "alltoall"}

(* _broadcast_demands, _chain_demands and _reduction_demands.              *)
Demands(req, i) ==
  LET node == req.nodes[i]
      holder(con) == IF node.kind = "broadcast" THEN node.root
                     ELSE (CHOOSE s \in DOMAIN node.in : node.in[s] = con)[1]
  IN IF node.kind \in Reductions
     THEN {Demand(req, i, p[1][1], p[2][1], node.out[p[1]], node.in[p[2]], TRUE)
           : p \in {q \in (DOMAIN node.out) \X (DOMAIN node.in) :
                      /\ q[2][1] # q[1][1]
                      /\ node.in[q[2]] \subseteq node.out[q[1]]}}
     ELSE {Demand(req, i, holder(node.out[s]), s[1], node.out[s], node.out[s], FALSE)
           : s \in {x \in DOMAIN node.out : holder(node.out[x]) # x[1]}}

\* SolverProblem.infeasible_demand_ids
NodeInfeasible(req, i) == \E d \in Demands(req, i) : d.paths = {}
Infeasible(req) == \E i \in DOMAIN req.nodes : NodeInfeasible(req, i)

-----------------------------------------------------------------------------
(* Routing units and templates *)

(* The order of split_routing_units: routing_unit_key, or, for the kinds   *)
(* that send every value on its own chain, the demand identifier.          *)
UnitKey(req, i, d) ==
  IF req.nodes[i].kind \in Chains THEN <<d.pos, d.root, d.leaf>>
  ELSE <<d.root, d.pos>> \o Ascending(d.con)

(* split_routing_units of every problem, in plan order.                    *)
UnitsOf(req, i, D) ==
  SortedBy({[node |-> i, demands |-> {e \in D : UnitKey(req, i, e) = UnitKey(req, i, d)}] : d \in D},
           LAMBDA u : UnitKey(req, i, CHOOSE d \in u.demands : TRUE))
Units(req) == FlattenSeq([i \in DOMAIN req.nodes |-> UnitsOf(req, i, Demands(req, i))])

\* the root, contributors and position of a unit, one for all its demands
Lead(unit) == CHOOSE d \in unit.demands : TRUE

(* _rank_map and _contributor_map: ranks by place in the group, a          *)
(* contributor to that of the mapped rank or of its own; incomplete when   *)
(* neither is left.                                                        *)
Mapping(req, u, v) ==
  LET g == req.nodes[u.node].group
      h == req.nodes[v.node].group
      rank == [r \in ToSet(g) |-> IF g = h THEN r ELSE h[CHOOSE k \in DOMAIN g : g[k] = r]]
      pos == Lead(v).pos
      step(done, c) ==
        LET own == c \div req.n
            left == Lead(v).con \ Range(done)
            first == IF own \in ToSet(g) THEN rank[own] * req.n + pos ELSE own * req.n + pos
            pick == IF first \in left THEN {first} ELSE {own * req.n + pos} \cap left
        IN IF pick = {} THEN done
           ELSE [x \in DOMAIN done \cup {c} |-> IF x = c THEN CHOOSE y \in pick : TRUE ELSE done[x]]
  IN [rank |-> rank, from |-> Lead(u).pos, pos |-> pos,
      con |-> FoldLeft(step, [x \in {} |-> 0], Ascending(Lead(u).con))]

Identity(req, u) == Mapping(req, u, u)

(* _demand_payload under a mapping. *)
DemandPayload(d, m) ==
  LET links(S) == {<<m.rank[e[1]], m.rank[e[2]]>> : e \in S}
      slices(S) == {m.con[c] : c \in S}
  IN [root |-> m.rank[d.root], leaf |-> m.rank[d.leaf], pos |-> m.pos,
      con |-> slices(d.con), mem |-> slices(d.mem), dual |-> d.dual,
      allowed |-> links(d.allowed), legal |-> links(d.legal),
      bans |-> {[f EXCEPT !.slice = m.con[@], !.src = m.rank[@], !.dst = m.rank[@]] : f \in d.bans},
      paths |-> {[k \in DOMAIN p |-> m.rank[p[k]]] : p \in d.paths}]

(* _interface_payload: the slots that concern the unit's contributors.     *)
InterfacePayload(face, con, m) ==
  LET offset(o) == CASE o = m.from -> m.pos
                     [] o # m.from /\ o \in DOMAIN m.con -> m.con[o]
                     [] OTHER -> o + m.pos - m.from
  IN {<<m.rank[s[1]], offset(s[2]), {m.con[c] : c \in face[s]}>>
      : s \in {x \in DOMAIN face : face[x] \subseteq con}}

(* _domain_link_payload, _resource_payload and _candidate_edge_payload.    *)
DomainPayload(req, u, m) ==
  LET node == req.nodes[u.node]
      G == ToSet(node.group)
      inside(l) == l[1] \in G /\ l[2] \in G
      members(x) == {l \in DOMAIN req.links : x \in req.links[l].res}
      mapped(S) == {<<m.rank[l[1]], m.rank[l[2]]>> : l \in S}
      used == UNION {req.links[l].res : l \in node.links}
  IN [links |-> {<<m.rank[l[1]], m.rank[l[2]], req.links[l].max, req.links[l].a, req.links[l].b>>
                 : l \in {x \in DOMAIN req.links : inside(x)}},
      resources |-> {<<req.resources[x].max, req.resources[x].a, req.resources[x].b,
                       mapped({l \in members(x) : inside(l)}),
                       Cardinality({l \in members(x) : ~inside(l)})>> : x \in used},
      count |-> Cardinality(used)]

(* _unit_payload: all that a route of the unit may depend on. *)
UnitPayload(req, u, m) ==
  LET node == req.nodes[u.node]
  IN [stage |-> node.stage, kind |-> node.kind,
      root |-> IF node.root \in DOMAIN m.rank THEN m.rank[node.root] ELSE -1,
      group |-> {m.rank[r] : r \in ToSet(node.group)},
      in |-> InterfacePayload(node.in, Lead(u).con, m),
      out |-> InterfacePayload(node.out, Lead(u).con, m),
      links |-> {<<m.rank[e[1]], m.rank[e[2]]>> : e \in node.links},
      demands |-> {DemandPayload(d, m) : d \in u.demands}]

(* _template_member: v joins u's class when nothing tells them apart.      *)
SameClass(req, u, v) ==
  LET m == Mapping(req, u, v)
      g == req.nodes[u.node]
      h == req.nodes[v.node]
  IN /\ g.stage = h.stage /\ g.kind = h.kind /\ Len(g.group) = Len(h.group)
     /\ Cardinality(Lead(u).con) = Cardinality(Lead(v).con)
     /\ DOMAIN m.con = Lead(u).con
     /\ DomainPayload(req, u, m) = DomainPayload(req, v, Identity(req, v))
     /\ UnitPayload(req, u, m) = UnitPayload(req, v, Identity(req, v))

(* build_solver_templates: greedy classes, the first unit of each is its   *)
(* representative.  A template is the sequence of its units.               *)
JoinClass(req, classes, u) ==
  LET fits == {k \in DOMAIN classes : SameClass(req, classes[k][1], u)}
  IN IF fits = {} THEN Append(classes, <<u>>)
     ELSE [classes EXCEPT ![Min(fits)] = Append(@, u)]
Templates(req, units) == FoldLeft(LAMBDA classes, u : JoinClass(req, classes, u), <<>>, units)

-----------------------------------------------------------------------------
(* Route patterns *)

(* _path_is_legal, and _validate_mapped_path without the candidate domain. *)
LegalPath(req, i, d, p) ==
  /\ p[1] = d.root /\ Last(p) = d.leaf
  /\ Cardinality(ToSet(p)) = Len(p)
  /\ ToSet(p) \subseteq ToSet(req.nodes[i].group)
  /\ \A e \in Edges(p) :
       /\ e \in d.legal
       /\ Physical(d, e) \in DOMAIN req.links \cap req.nodes[i].links
       /\ \A f \in d.bans : <<f.src, f.dst>> # Physical(d, e)

(* A pattern maps the leaves of a unit to paths: within a unit, which has  *)
(* one root and one set of contributors, a leaf stands for its demand.     *)
TreeEdges(pattern) == UNION {Edges(pattern[l]) : l \in DOMAIN pattern}

Leaves(u) == {d.leaf : d \in u.demands}

(* The constraints of _build_route_model on the paths chosen by the        *)
(* demands of a unit: parent, root, outgoing and level rows.               *)
SatisfiesRouteModel(req, u, pattern) ==
  LET T == TreeEdges(pattern)
      G == ToSet(req.nodes[u.node].group)
      into(r) == {e \in T : e[2] = r}
      root == Lead(u).root
  IN /\ into(root) = {}
     /\ \A r \in G \ {root} :
          /\ Cardinality(into(r)) <= 1
          /\ (\E e \in T : e[1] = r) => into(r) # {}
     /\ \E level \in [G -> 0..(Cardinality(G) - 1)] :
          /\ level[root] = 0
          /\ \A e \in T : level[e[2]] > level[e[1]]

\* the path variables of _build_route_model: one path for every demand
PathChoices(u) ==
  {f \in [Leaves(u) -> UNION {d.paths : d \in u.demands}] : \A d \in u.demands : f[d.leaf] \in d.paths}

(* solve_route_milp may stop at any incumbent: every feasible selection.   *)
RoutePatterns(req, u) ==
  {f \in PathChoices(u) : /\ \A d \in u.demands : LegalPath(req, u.node, d, f[d.leaf])
                          /\ SatisfiesRouteModel(req, u, f)}

(* What _selected_path, _validate_selected_paths, _validate_mapped_path    *)
(* and _instantiate_member require of the routes of a unit.                *)
RouteAccepted(req, u, pattern) ==
  LET T == TreeEdges(pattern)
  IN /\ \A e \in T : e[2] # Lead(u).root
     /\ \A e, f \in T : e[2] = f[2] => e = f
     /\ \A d \in u.demands : /\ pattern[d.leaf] \in d.paths
                            /\ LegalPath(req, u.node, d, pattern[d.leaf])

(* extract_dual_trees: the members that arrive at a rank of a reversed tree *)
(* are disjoint and part of what it passes on, and each contributor comes  *)
(* from one rank.                                                          *)
DualTreeAccepted(req, u, pattern) ==
  LET T == TreeEdges(pattern)
      con == Lead(u).con
      G == {Lead(u).root} \cup {e[2] : e \in T}
      below(x) == IF x = Lead(u).root THEN con
                  ELSE UNION {d.mem : d \in {y \in u.demands : \E e \in Edges(pattern[y.leaf]) : e[2] = x}}
      children(x) == {e[2] : e \in {f \in T : f[1] = x}}
      local(x) == below(x) \ UNION {below(y) : y \in children(x)}
  IN /\ \A x \in G : /\ \A y \in children(x) : below(y) \subseteq below(x)
                     /\ \A y, z \in children(x) : y # z => below(y) \cap below(z) = {}
     /\ \A x, y \in G : x # y => local(x) \cap local(y) = {}
     /\ UNION {local(x) : x \in G} = con

\* _path_is_tree_compatible: no rank gets a second parent
TreeCompatible(done, p) ==
  \A q \in Range(done) : \A e \in Edges(p), f \in Edges(q) : e[2] = f[2] => e = f

\* _materialize_path, as far as a later demand can tell: the path is taken
MaterializePath(done, d, p) ==
  [l \in DOMAIN done \cup {d.leaf} |-> IF l = d.leaf THEN p ELSE done[l]]

(* construct_candidate: the demands of fewest paths first, each on a path  *)
(* that gives no rank a second parent; the greedy choice may block.        *)
ConstructivePatterns(req, u) ==
  LET order == SortedBy(u.demands, LAMBDA d : <<Cardinality(d.paths), d.pos, d.root, d.leaf>>)
      extend(S, d) == UNION {{MaterializePath(done, d, p) : p \in {q \in d.paths : TreeCompatible(done, q)}}
                             : done \in S}
  IN FoldLeft(extend, {[x \in {} |-> <<>>]}, order)

(* _instantiate_member: the representative's paths on the member's ranks.  *)
OnMember(v, m, pattern) ==
  LET from(r) == CHOOSE x \in DOMAIN m.rank : m.rank[x] = r
      mapped(p) == [k \in DOMAIN p |-> m.rank[p[k]]]
  IN [l \in Leaves(v) |-> mapped(pattern[from(l)])]
Instantiate(req, u, v, pattern) == OnMember(v, Mapping(req, u, v), pattern)

-----------------------------------------------------------------------------
(* Composition *)

\* the greatest of a set of identifiers, or nothing
LastOf(S) == {x \in S : \A y \in S : ~Lex(x, y)}

\* members_by_key: what crosses a link of the tree, for all its demands
MembersOn(u, pattern, e) ==
  UNION {d.mem : d \in {x \in u.demands : e \in Edges(pattern[x.leaf])}}

\* semantic_predecessors of a hop that leaves rank r: the hop that enters it
HopsBefore(k, T, r) == {<<k, e[1], e[2]>> : e \in {x \in T : x[2] = r}}

(* materialize_route_schedule and _compose_schedules for the tree of unit  *)
(* k: a SEND waits for the hop before it, or at its root for the input.    *)
SendTransfers(req, k, u, pattern, inDeps) ==
  LET T == TreeEdges(pattern)
      d == Lead(u)
      node == req.nodes[u.node]
      reads == {s \in DOMAIN inDeps : s[1] = d.root /\ node.in[s] \cap d.con # {}}
  IN [id \in {<<k, e[1], e[2]>> : e \in T} |->
        [kind |-> "SEND", src |-> id[2], dst |-> id[3], stage |-> node.stage,
         node |-> u.node, pos |-> d.pos, con |-> d.con,
         mem |-> MembersOn(u, pattern, <<id[2], id[3]>>),
         preds |-> HopsBefore(k, T, id[2])
                   \cup IF id[2] = d.root THEN UNION {inDeps[s] : s \in reads} ELSE {}]]

\* _drafts: the reversed hops into rank r, whose sums it passes on
DraftsInto(k, T, r) == {<<k, e[1], e[2]>> : e \in {x \in T : x[1] = r}}

(* _input_slot and _reduction_receiver_input: the inputs of the node that  *)
(* the REDUCE of link e of a tree with contributors con reads.             *)
ReduceInputs(node, e, con, mem) ==
  {s \in DOMAIN node.in : \/ s[1] = e[1] /\ node.in[s] \subseteq con
                          \/ s[1] = e[2] /\ node.in[s] \cap mem # {}}

(* The REDUCE of link e of unit k, after the transfers it waits for.       *)
ReduceOf(req, u, e, mem, preds) ==
  [kind |-> "REDUCE", src |-> e[2], dst |-> e[1], stage |-> req.nodes[u.node].stage,
   node |-> u.node, pos |-> Lead(u).pos, mem |-> mem, con |-> Lead(u).con, preds |-> preds]

(* Variant: REDUCEs into one accumulator are not ordered. *)
UnchainedReduceTransfers(req, k, u, pattern, inDeps) ==
  LET T == TreeEdges(pattern)
      reads(e, mem) == ReduceInputs(req.nodes[u.node], e, Lead(u).con, mem)
  IN [i \in {<<k, e[1], e[2]>> : e \in T} |->
        LET e == <<i[2], i[3]>>
            mem == MembersOn(u, pattern, e)
        IN ReduceOf(req, u, e, mem, DraftsInto(k, T, e[2])
                                    \cup UNION {inDeps[s] : s \in reads(e, mem)})]

(* reverse_allgather_schedule and _compose_schedules: the tree reversed.   *)
(* A REDUCE waits for what its sender receives, for the REDUCE before it   *)
(* into the same accumulator, for the sender's own input and for the       *)
(* receiver's.                                                             *)
ReduceTransfers(req, k, u, pattern, inDeps) ==
  LET T == TreeEdges(pattern)
      reads(e, mem) == ReduceInputs(req.nodes[u.node], e, Lead(u).con, mem)
  IN [i \in {<<k, e[1], e[2]>> : e \in T} |->
        LET e == <<i[2], i[3]>>
            mem == MembersOn(u, pattern, e)
            before == {t \in DraftsInto(k, T, e[1]) : t[3] < e[2]}
        IN ReduceOf(req, u, e, mem, DraftsInto(k, T, e[2]) \cup LastOf(before)
                                    \cup UNION {inDeps[s] : s \in reads(e, mem)})]

(* members_by_rank of a dual tree: what a rank adds of its own to the sum. *)
OwnMembers(ts, r) ==
  LET sent == {t \in DOMAIN ts : ts[t].src = r}
      total == IF sent = {} THEN ts[CHOOSE t \in DOMAIN ts : TRUE].con ELSE UNION {ts[t].mem : t \in sent}
  IN total \ UNION {ts[t].mem : t \in {x \in DOMAIN ts : ts[x].dst = r}}

(* _routing_aggregate_metadata: one REDUCE takes the active partial sums   *)
(* of both its ranks and leaves their sum at the receiver.  A rank whose   *)
(* sum was taken has none left.  ok: nothing was refused so far.           *)
Aggregate(ts, state) ==
  LET ready == {t \in state.pending : ts[t].preds \cap state.pending = {}}
      t == CHOOSE x \in ready : \A y \in ready : ~Lex(y, x)
      source == state.active[ts[t].src]
      sink == state.active[ts[t].dst]
  IN IF ready = {} THEN [state EXCEPT !.pending = {}, !.ok = FALSE]
     ELSE [pending |-> state.pending \ {t},
           active |-> [state.active EXCEPT ![ts[t].src] = [con |-> {}, by |-> {}],
                                           ![ts[t].dst] = [con |-> source.con \cup sink.con, by |-> {t}]],
           ok |-> /\ state.ok /\ sink.con # {}
                  /\ source.con = ts[t].mem /\ source.con \cap sink.con = {}]
Aggregated(ts) ==
  LET ranks == UNION {{ts[t].src, ts[t].dst} : t \in DOMAIN ts}
      run[n \in Nat] == IF n = 0
                        THEN [pending |-> DOMAIN ts, ok |-> TRUE,
                              active |-> [r \in ranks |-> [con |-> OwnMembers(ts, r), by |-> {}]]]
                        ELSE Aggregate(ts, run[n - 1])
  IN run[Cardinality(DOMAIN ts)]

(* reverse_allgather_schedule: an output is complete with the REDUCE that  *)
(* produced the last sum of its tree.                                      *)
Terminal(transfers, arriving) ==
  LET k == (CHOOSE t \in arriving : TRUE)[1]
      ts == <<>> @@ [t \in {x \in DOMAIN transfers : x[1] = k} |-> transfers[t]]
  IN Aggregated(ts).active[ts[CHOOSE t \in arriving : TRUE].dst].by

UnitTransfers(req, k, u, pattern, inDeps) ==
  IF Lead(u).dual THEN ReduceTransfers(req, k, u, pattern, inDeps)
  ELSE SendTransfers(req, k, u, pattern, inDeps)

(* _output_matches and _passthrough_input: what has to be finished before  *)
(* an output slot of a node holds its value.                               *)
OutputDeps(req, i, slot, transfers, inDeps) ==
  LET node == req.nodes[i]
      arriving == {t \in DOMAIN transfers : /\ transfers[t].node = i
                                           /\ transfers[t].dst = slot[1]
                                           /\ transfers[t].con = node.out[slot]}
      own == {s \in DOMAIN node.in : s[1] = slot[1] /\ node.in[s] = node.out[slot]}
  IN IF arriving # {}
     THEN IF node.kind \in Reductions THEN Terminal(transfers, arriving) ELSE arriving
     ELSE UNION {inDeps[s] : s \in own}

(* _compose_schedules: transfers and output dependencies of all nodes, in  *)
(* plan order, from the routes of all units.                               *)
Compose(req, units, route) ==
  LET join(done, i) ==
        LET inDeps == [s \in DOMAIN req.nodes[i].in |->
                         IF <<i, s>> \in DOMAIN req.producers
                         THEN done.outs[<<req.producers[<<i, s>>], s>>] ELSE {}]
            mine == {k \in DOMAIN units : units[k].node = i}
            fresh == [k \in mine |-> <<>> @@ UnitTransfers(req, k, units[k], route[k], inDeps)] @@ <<>>
            added == UNION {DOMAIN fresh[k] : k \in mine}
            transfers == <<>> @@ [t \in added \cup DOMAIN done.transfers |->
                            IF t \in added THEN fresh[t[1]][t] ELSE done.transfers[t]]
            slots == {<<i, s>> : s \in DOMAIN req.nodes[i].out}
        IN [transfers |-> transfers,
            outs |-> [x \in slots \cup DOMAIN done.outs |->
                        IF x \in slots THEN OutputDeps(req, i, x[2], transfers, inDeps)
                        ELSE done.outs[x]]]
  IN FoldLeft(join, [transfers |-> [x \in {} |-> 0], outs |-> [x \in {} |-> {}]],
              [i \in DOMAIN req.nodes |-> i])

(* final_dependencies: the last node that outputs the slot with its value. *)
FinalDeps(req, outs, slot) ==
  LET nodes == {i \in DOMAIN req.nodes : slot \in DOMAIN req.nodes[i].out
                                          /\ req.nodes[i].out[slot] = req.final[slot]}
  IN outs[<<Max(nodes), slot>>]

(* dependency_time_lower_bound: no schedule is faster than the fastest     *)
(* path of any demand.                                                     *)
DependencyBound(req) ==
  LET fastest(d, e) ==
        LET l == Physical(d, e)
            all == {req.links[l]} \cup {req.resources[x] : x \in req.links[l].res}
        IN Min({Max({CurveDuration(c, k) : c \in all})
                : k \in 1..Min({req.channels} \cup {c.max : c \in all})})
      length(d, p) == SumFunction([e \in Edges(p) |-> fastest(d, e)])
      shortest(d) == Min({length(d, p) : p \in SimplePaths(d.legal, d.root, d.leaf)})
  IN Max({0} \cup UNION {{shortest(d) : d \in Demands(req, i)} : i \in DOMAIN req.nodes})

(* The resource bound counts bytes against the capacity of a curve, which  *)
(* drops the startup: a slice takes a link or a resource at least b.  The  *)
(* least tau of the program for the given transfers.                       *)
ResourceTime(req, transfers) ==
  LET on(l) == {t \in DOMAIN transfers : <<transfers[t].src, transfers[t].dst>> = l}
      through(x) == {t \in DOMAIN transfers : x \in req.links[<<transfers[t].src, transfers[t].dst>>].res}
  IN Max({0} \cup {Cardinality(on(l)) * req.links[l].b : l \in DOMAIN req.links}
             \cup {Cardinality(through(x)) * req.resources[x].b : x \in DOMAIN req.resources})
=============================================================================
