--------------------------- MODULE ScheduleLowering ---------------------------
(***************************************************************************)
(* The version 5 lowering of a network candidate, xml/v5_buffers.py,       *)
(* xml/v5_program.py and xml/v5_lower.py: storage plan, native thread      *)
(* blocks, and the checks a program has to pass before it may run.         *)
(*                                                                         *)
(* A request is a record: the collective (kind, root, inplace, ranks, n    *)
(* slices per rank), the scratch slots of a rank, the thread block layout, *)
(* the directed links, the edge bans, and the candidate's operations.      *)
(* A value's data is the set of its contributors, the slices summed in it; *)
(* a byte range is a slice number.  Identities are triples: <<"in",r,l>>   *)
(* an input, <<"net",i,0>> an operation of the candidate and the state it  *)
(* produces, <<"out",r,o>> a copy into an output slot.                     *)
(***************************************************************************)
EXTENDS Integers, SequencesExt

CONSTANTS StepsPerTb,  \* RuntimeLimits.steps_per_tb
          DepIds       \* RuntimeLimits.dependency_id + 1

ASSUME LimitsAssumption == StepsPerTb \in Nat \ {0} /\ DepIds \in Nat \ {0}

Ranks(req) == 0..(req.ranks - 1)

\* all_contributors: the slices of one logical position
Everyone(req, l) == {r * req.n + l : r \in Ranks(req)}

(* required_outputs: what every output slot <<rank, offset>> must contain. *)
RequiredOutputs(req) ==
  LET n == req.n  q == req.n \div req.ranks
      local == 0..(n - 1)  all == 0..(n * req.ranks - 1)
  IN CASE req.kind = "broadcast" ->
            [s \in Ranks(req) \X local |-> {req.root * n + s[2]}]
       [] req.kind = "reduce" ->
            [s \in {req.root} \X local |-> Everyone(req, s[2])]
       [] req.kind = "scatter" ->
            [s \in Ranks(req) \X (0..(q - 1)) |-> {req.root * n + s[1] * q + s[2]}]
       [] req.kind = "gather" -> [s \in {req.root} \X all |-> {s[2]}]
       [] req.kind = "allgather" -> [s \in Ranks(req) \X all |-> {s[2]}]
       [] req.kind = "allreduce" ->
            [s \in Ranks(req) \X local |-> Everyone(req, s[2])]
       [] req.kind = "alltoall" ->
            [s \in Ranks(req) \X local |-> {(s[2] \div q) * n + s[1] * q + (s[2] % q)}]
       [] req.kind = "reduce_scatter" ->
            [s \in Ranks(req) \X (0..(q - 1)) |-> Everyone(req, s[1] * q + s[2])]

(* canonical_region: the memory an address <<rank, buffer, offset>> means; *)
(* in place, input and output are one buffer.                              *)
Region(req, a) ==
  IF a[2] = "s" \/ ~req.inplace THEN a
  ELSE LET base == CASE req.kind = "allgather" /\ a[2] = "i" -> a[1] * req.n
                     [] req.kind = "reduce_scatter" /\ a[2] = "o" ->
                          a[1] * (req.n \div req.ranks)
                     [] OTHER -> 0
       IN <<a[1], "data", base + a[3]>>

-----------------------------------------------------------------------------
(* Orders *)

\* a set in the order of a total relation, as sorted() returns it
Sorted(S, before(_, _)) ==
  [k \in 1..Cardinality(S) |->
     CHOOSE x \in S : Cardinality({y \in S : before(y, x)}) = k - 1]

(* _fixed_priority_order: again and again the ready element of least key;  *)
(* shorter than the set when its precedence has a cycle.                   *)
PriorityOrder(S, prec(_), key(_, _)) ==
  FoldLeft(LAMBDA done, i :
             LET ready == {x \in S \ ToSet(done) : prec(x) \subseteq ToSet(done)}
             IN IF ready = {} THEN done
                ELSE Append(done, CHOOSE x \in ready : \A y \in ready :
                                    key(x, done) <= key(y, done)),
           <<>>, [i \in 1..Cardinality(S) |-> i])

\* the transitive predecessors of every vertex
Ancestry(g) ==
  FoldLeft(LAMBDA a, i : [x \in DOMAIN g |-> g[x] \cup UNION {a[y] : y \in a[x]}],
           g, [i \in 1..Cardinality(DOMAIN g) |-> i])

\* _dependency_order succeeds: Kahn's order takes every vertex
Acyclic(g) == \A x \in DOMAIN g : x \notin Ancestry(g)[x]

OpById(ops, id) == CHOOSE op \in ToSet(ops) : op.id = id
Shares(a, b) == {a.src, a.dst} \cap {b.src, b.dst} # {}

(* _network_order: data dependencies, and the reference dependencies that  *)
(* meet on a rank.                                                         *)
NetworkOrder(req) ==
  LET prec(x) == LET op == OpById(req.ops, x)
                 IN op.deps \cup {y \in op.refs : Shares(op, OpById(req.ops, y))}
  IN PriorityOrder({op.id : op \in ToSet(req.ops)}, prec,
                   LAMBDA x, done : OpById(req.ops, x).prio)

-----------------------------------------------------------------------------
(* build_storage_plan *)

InputRanks(req) == IF req.kind = "broadcast" THEN {req.root} ELSE Ranks(req)
Inputs(req) == {[id |-> <<"in", r, l>>, rank |-> r, pos |-> l,
                 data |-> {r * req.n + l}, by |-> {}] :
                  <<r, l>> \in InputRanks(req) \X (0..(req.n - 1))}

At(vals, r, l) == {i \in DOMAIN vals : vals[i].rank = r /\ vals[i].pos = l}

(* The operation keeps to the topology, the channels, its role group and   *)
(* the edge bans.                                                          *)
Allowed(req, op) ==
  /\ op.data # {}
  /\ \A s, t \in op.data : s % req.n = t % req.n
  /\ <<op.src, op.dst>> \in req.links
  /\ op.chan \in 0..(req.channels - 1)
  /\ {op.src, op.dst} \subseteq op.role
  /\ \A s \in op.data : <<s, op.src, op.dst>> \notin req.bans

(* One iteration of the loop over the ordered operations: the newest       *)
(* matching source state, for rrc the largest disjoint state of the        *)
(* destination, and the dependencies of the instruction.                   *)
ResolveOp(req, acc, op) ==
  LET pos == (CHOOSE s \in op.data : TRUE) % req.n
      sources == {i \in At(acc.vals, op.src, pos) : acc.vals[i].data = op.data}
      possible == {i \in At(acc.vals, op.dst, pos) :
                     /\ acc.vals[i].data \cap op.data = {}
                     /\ acc.vals[i].data \subseteq op.target}
      accum == CHOOSE i \in possible : \A j \in possible :
                 LET a == Cardinality(acc.vals[i].data)
                     b == Cardinality(acc.vals[j].data)
                 IN a > b \/ (a = b /\ i >= j)
      reads == IF op.kind = "rrc" THEN <<Max(sources), accum>> ELSE <<Max(sources)>>
      needed == op.deps \cup UNION {acc.vals[reads[k]].by : k \in DOMAIN reads}
      ordered == {x \in op.refs \ needed : Shares(op, OpById(req.ops, x))}
  IN IF \/ ~acc.ok \/ ~Allowed(req, op) \/ sources = {}
        \/ op.kind = "rrc" /\ possible = {}
     THEN [acc EXCEPT !.ok = FALSE]
     ELSE [acc EXCEPT
            !.vals = Append(@, [id |-> op.id, rank |-> op.dst, pos |-> pos,
                                data |-> UNION {acc.vals[reads[k]].data : k \in DOMAIN reads},
                                by |-> {op.id}]),
            !.instr = Append(@, [id |-> op.id, kind |-> op.kind,
                                 reads |-> [k \in DOMAIN reads |-> acc.vals[reads[k]].id],
                                 rank |-> op.dst, chan |-> op.chan,
                                 deps |-> needed \cup ordered, key |-> op.prio])]

Resolved(req) ==
  FoldLeft(LAMBDA acc, id : ResolveOp(req, acc, OpById(req.ops, id)),
           [vals |-> Sorted(Inputs(req), LAMBDA a, b :
                       a.rank < b.rank \/ (a.rank = b.rank /\ a.pos < b.pos)),
            instr |-> <<>>, ok |-> Len(NetworkOrder(req)) = Len(req.ops)],
           NetworkOrder(req))

Readers(instr, v) == {op.id : op \in {o \in ToSet(instr) : v \in ToSet(o.reads)}}

(* Every transfer was resolved, and every output is some value.            *)
Available(req, res) ==
  LET need == RequiredOutputs(req)
  IN res.ok /\ \A s \in DOMAIN need : \E v \in ToSet(res.vals) : v.rank = s[1] /\ v.data = need[s]

(* The outputs: a value that is already in its slot, one written straight  *)
(* into it (out of place), or a copy that waits for the readers of the     *)
(* input stored there.                                                     *)
Bound(req, res) ==
  LET need == RequiredOutputs(req)
      held(s) == {i \in DOMAIN res.vals : res.vals[i].rank = s[1] /\ res.vals[i].data = need[s]}
      value(s) == res.vals[Max(held(s))]
      slot(s) == <<s[1], "o", s[2]>>
      there(s) == /\ value(s).by = {}
                  /\ Region(req, <<s[1], "i", value(s).pos>>) = Region(req, slot(s))
      direct(s) == ~there(s) /\ value(s).by # {} /\ ~req.inplace
      copied == {s \in DOMAIN need : ~there(s) /\ ~direct(s)}
      last == Max({0} \cup {op.prio : op \in ToSet(req.ops)})
      copy(s) ==
        [id |-> <<"out", s[1], s[2]>>, kind |-> "copy", reads |-> <<value(s).id>>,
         rank |-> s[1], chan |-> -1, key |-> last + 1 + s[1] * req.n * req.ranks + s[2],
         deps |-> value(s).by]
      instr == res.instr \o [k \in 1..Cardinality(copied) |->
                 copy(Sorted(copied, LAMBDA s, t : s[1] < t[1] \/ (s[1] = t[1] /\ s[2] < t[2]))[k])]
      inputAt(r) == {v.id : v \in {u \in Inputs(req) : Region(req, <<u.rank, "i", u.pos>>) = r}}
      protect(op) ==
        IF op.kind # "copy" THEN op
        ELSE [op EXCEPT !.deps = @ \cup
               (UNION {Readers(instr, v) : v \in
                         inputAt(Region(req, <<op.id[2], "o", op.id[3]>>))} \ {op.id})]
  IN [vals |-> res.vals,
      direct |-> [v \in {value(s).id : s \in {t \in DOMAIN need : direct(t)}} |->
                    slot(CHOOSE s \in DOMAIN need : direct(s) /\ value(s).id = v)],
      out |-> [s \in DOMAIN need |-> IF s \in copied THEN copy(s).id ELSE value(s).id],
      instr |-> [k \in DOMAIN instr |-> protect(instr[k])]]

(* The execution order: by priority, or, when scratch is tight, first the  *)
(* instruction that consumes most of the intermediates.                    *)
StorageOrder(req, b) ==
  LET ids == {op.id : op \in ToSet(b.instr)}
      scratch == {x \in ids : x[1] = "net"} \ DOMAIN b.direct
      tight == req.scratch < Max({1, Cardinality(scratch)})
      releases(x, done) ==
        Cardinality({v \in ToSet(OpById(b.instr, x).reads) \cap scratch :
                       Cardinality(Readers(b.instr, v) \ ToSet(done)) = 1})
      big == 1 + Max({0} \cup {op.key : op \in ToSet(b.instr)})
  IN PriorityOrder(ids, LAMBDA x : OpById(b.instr, x).deps,
       LAMBDA x, done : OpById(b.instr, x).key -
                        (IF tight THEN big * releases(x, done) ELSE 0))

\* the readers a writer must wait for before it takes over a scratch slot
ReuseReaders(b, op, prior) ==
  Readers(b.instr, prior) \ (IF op.kind = "rrc" /\ prior \in ToSet(op.reads)
                             THEN {op.id} ELSE {})

(* One iteration of the allocation loop: a slot whose readers all come     *)
(* before (preferably already waited for), else a new one, else failure.   *)
AllocateOp(req, b, order, acc, op) ==
  LET up == op.deps \cup UNION {acc.anc[d] : d \in op.deps}
      pool == acc.pool[op.rank]
      prior(i) == ReuseReaders(b, op, pool[i])
      before(x) == SelectInSeq(order, LAMBDA y : y = x) < SelectInSeq(order, LAMBDA y : y = op.id)
      free == {i \in DOMAIN pool : \A x \in prior(i) : before(x)}
      causal == {i \in free : prior(i) \subseteq up}
      full == Len(pool) >= req.scratch
      slot == IF causal # {} THEN Min(causal)
              ELSE IF full THEN Min(free) ELSE Len(pool) + 1
      waits == IF slot \in DOMAIN pool THEN prior(slot) ELSE {}
      deps == op.deps \cup waits
      done(a, d, p) == [acc EXCEPT !.addr = @ @@ (op.id :> a), !.pool[op.rank] = p,
                          !.anc = @ @@ (op.id :> d \cup UNION {acc.anc[x] : x \in d}),
                          !.instr = Append(@, [op EXCEPT !.deps = d])]
  IN IF ~acc.ok THEN acc
     ELSE CASE op.kind = "copy" -> done(<<op.rank, "o", op.id[3]>>, op.deps, pool)
       [] op.kind # "copy" /\ op.id \in DOMAIN b.direct ->
            done(b.direct[op.id], op.deps, pool)
       [] op.kind # "copy" /\ op.id \notin DOMAIN b.direct /\ full /\ free = {} ->
            [acc EXCEPT !.ok = FALSE]
       [] OTHER -> done(<<op.rank, "s", slot - 1>>, deps,
                        IF slot \in DOMAIN pool THEN [pool EXCEPT ![slot] = op.id]
                        ELSE Append(pool, op.id))

StoragePlan(req) ==
  LET allocated(b, order) ==
        FoldLeft(LAMBDA acc, id : AllocateOp(req, b, order, acc, OpById(b.instr, id)),
                 [addr |-> [v \in {i.id : i \in Inputs(req)} |-> <<v[2], "i", v[3]>>],
                  pool |-> [r \in Ranks(req) |-> <<>>], anc |-> <<>>, instr |-> <<>>,
                  ok |-> Len(order) = Len(b.instr)],
                 order)
      plan(b, a) ==
        IF ~a.ok THEN [ok |-> FALSE]
        ELSE [ok |-> TRUE, instr |-> a.instr, addr |-> a.addr, out |-> b.out,
              scratch |-> [r \in Ranks(req) |-> Len(a.pool[r])],
              data |-> [v \in DOMAIN a.addr |->
                          IF v[1] = "out" THEN RequiredOutputs(req)[<<v[2], v[3]>>]
                          ELSE (CHOOSE u \in ToSet(b.vals) : u.id = v).data]]
      from(b) == plan(b, allocated(b, StorageOrder(req, b)))
      when(res) == IF Available(req, res) THEN from(Bound(req, res)) ELSE [ok |-> FALSE]
  IN when(Resolved(req))

-----------------------------------------------------------------------------
(* lower_program: a program is a function from block keys <<rank,          *)
(* direction, peer, channel>> to sequences of steps; a wait names a step   *)
(* <<key, index>> of the same rank, <<>> is none.                          *)

\* a mutant of Endpoints: rrc adds to the sent state's address
MutantAccumulator(plan, op) ==
  LET src == plan.addr[op.reads[1]]  dst == plan.addr[op.id]
      e(r, dir, peer, ch, kind) ==
        [rank |-> r, dir |-> dir, peer |-> peer, chan |-> ch, kind |-> kind, src |-> src, dst |-> dst]
  IN IF op.kind = "copy" THEN <<e(op.rank, "copy", -1, -1, "cpy")>>
     ELSE <<e(src[1], "send", dst[1], op.chan, "s"),
            e(dst[1], "recv", src[1], op.chan, IF op.kind = "rrc" THEN "rrc" ELSE "r")>>

\* _endpoints
Endpoints(plan, op) ==
  LET src == plan.addr[op.reads[1]]  dst == plan.addr[op.id]
      e(r, dir, peer, ch, kind, s) ==
        [rank |-> r, dir |-> dir, peer |-> peer, chan |-> ch, kind |-> kind, src |-> s, dst |-> dst]
  IN IF op.kind = "copy" THEN <<e(op.rank, "copy", -1, -1, "cpy", src)>>
     ELSE <<e(src[1], "send", dst[1], op.chan, "s", src),
            IF op.kind = "rrc" THEN e(dst[1], "recv", src[1], op.chan, "rrc", plan.addr[op.reads[2]])
                               ELSE e(dst[1], "recv", src[1], op.chan, "r", src)>>

BlockKey(req, e) ==
  <<e.rank, IF req.layout = "fused" /\ e.dir # "copy" THEN "fused" ELSE e.dir, e.peer, e.chan>>

\* a mutant of ReducedWaits: only the newest wait is kept
MutantReducedWaits(acc, key, wanted) ==
  LET newest == Sorted(wanted, LAMBDA s, t : acc.seq[s] > acc.seq[t])
      old == IF key \in DOMAIN acc.prior THEN acc.prior[key] ELSE {}
  IN IF wanted = {} THEN [waits |-> <<>>, covered |-> old]
     ELSE [waits |-> <<newest[1]>>, covered |-> old \cup acc.anc[newest[1]]]

(* The waits an endpoint needs: newest first, leaving out what its block   *)
(* or an earlier wait already implies on this GPU.                         *)
ReducedWaits(acc, key, wanted) ==
  FoldLeft(LAMBDA w, t : IF t \in w.covered THEN w
                         ELSE [waits |-> Append(w.waits, t), covered |-> w.covered \cup acc.anc[t]],
           [waits |-> <<>>, covered |-> IF key \in DOMAIN acc.prior THEN acc.prior[key] ELSE {}],
           Sorted(wanted, LAMBDA s, t : acc.seq[s] > acc.seq[t]))

LowerEndpoint(req, acc, op, e) ==
  LET key == BlockKey(req, e)
      old == IF key \in DOMAIN acc.blocks THEN acc.blocks[key] ELSE <<>>
      wanted == {acc.at[<<d, e.rank>>] : d \in {x \in op.deps : <<x, e.rank>> \in DOMAIN acc.at}}
      w == ReducedWaits(acc, key, wanted)
      k == Len(w.waits)
      step(kind, wait) == [op |-> op.id, kind |-> kind, src |-> e.src, dst |-> e.dst, wait |-> wait]
      steps == [i \in 1..(IF k = 0 THEN 1 ELSE k) |->
                  IF i < k THEN step("nop", w.waits[i])
                  ELSE step(e.kind, IF k = 0 THEN <<>> ELSE w.waits[k])]
      here == <<key, Len(old) + Len(steps)>>
      anc == w.covered \cup {here}
  IN [acc EXCEPT !.blocks = (key :> old \o steps) @@ @, !.at = (<<op.id, e.rank>> :> here) @@ @,
                 !.seq = (here :> Cardinality(DOMAIN acc.at)) @@ @,
                 !.anc = (here :> anc) @@ @, !.prior = (key :> anc) @@ @]

LowerOp(req, plan, acc, op) ==
  LET es == Endpoints(plan, op)
      homeless == \E d \in op.deps : \A i \in DOMAIN es : <<d, es[i].rank>> \notin DOMAIN acc.at
  IN IF ~acc.ok \/ homeless THEN [acc EXCEPT !.ok = FALSE]
     ELSE FoldLeft(LAMBDA a, e : LowerEndpoint(req, a, op, e), acc, es)

\* has_dependence: a step that some other step waits for publishes its completion
Waited(blocks) == {blocks[k][i].wait : <<k, i>> \in UNION {{k} \X DOMAIN blocks[k] : k \in DOMAIN blocks}}

LowerProgram(req, plan) ==
  LET program(l) ==
        IF ~l.ok THEN [ok |-> FALSE]
        ELSE [ok |-> TRUE,
              blocks |-> [k \in DOMAIN l.blocks |-> [i \in DOMAIN l.blocks[k] |->
                           l.blocks[k][i] @@ [pub |-> <<k, i>> \in Waited(l.blocks)]]]]
  IN program(FoldLeft(LAMBDA acc, op : LowerOp(req, plan, acc, op),
                      [blocks |-> <<>>, at |-> <<>>, anc |-> <<>>, prior |-> <<>>, seq |-> <<>>, ok |-> TRUE],
                      plan.instr))

-----------------------------------------------------------------------------
(* The checks *)

Steps(p) == UNION {{k} \X DOMAIN p[k] : k \in DOMAIN p}
Work(p) == {x \in Steps(p) : p[x[1]][x[2]].kind # "nop"}
At2(p, x) == p[x[1]][x[2]]
OpsOf(p) == {At2(p, x).op : x \in Work(p)}
\* the earlier work of a step's block, and the NOP chain that leads to it
PrevWork(p, x) == LET w == {i \in 1..(x[2] - 1) : <<x[1], i>> \in Work(p)}
                  IN IF w = {} THEN 0 ELSE Max(w)
Chain(p, x) == (PrevWork(p, x) + 1)..x[2]

(* execution_dependencies: NOP chains are collapsed onto the work that     *)
(* follows them; an operation waits for the one before it in either block. *)
ExecDeps(p) ==
  [o \in OpsOf(p) |->
     UNION {LET prev == PrevWork(p, x)
            IN {At2(p, At2(p, <<x[1], i>>).wait).op :
                  i \in {j \in Chain(p, x) : At2(p, <<x[1], j>>).wait # <<>>}}
               \cup (IF prev = 0 THEN {} ELSE {At2(p, <<x[1], prev>>).op} \ {o}) :
            x \in {y \in Work(p) : At2(p, y).op = o}}]

\* a mutant of WaitsWellFormed: the target need not publish its completion
MutantWaitsWellFormed(p) ==
  \A x \in Steps(p) : At2(p, x).wait # <<>> =>
    LET t == At2(p, x).wait IN t \in Work(p) /\ (t[1] = x[1] => t[2] < x[2])

WaitsWellFormed(p) ==
  /\ \A x \in Steps(p) : At2(p, x).wait # <<>> =>
       LET t == At2(p, x).wait
       IN /\ t \in Work(p) /\ t[1][1] = x[1][1]
          /\ At2(p, t).pub
          /\ t[1] = x[1] => t[2] < x[2]
  /\ \A x \in Steps(p) : At2(p, x).kind = "nop" =>
       At2(p, x).wait # <<>> /\ \E y \in Work(p) : y[1] = x[1] /\ y[2] > x[2]
  /\ \A x \in Work(p) : PrevWork(p, x) + 1 < x[2] => At2(p, x).wait # <<>>

EndpointsPaired(p) ==
  \A o \in OpsOf(p) :
    LET mine == {x \in Work(p) : At2(p, x).op = o}
    IN \/ Cardinality(mine) = 1 /\ \A x \in mine : At2(p, x).kind = "cpy"
       \/ \E s, r \in mine :
            /\ mine = {s, r} /\ s # r
            /\ At2(p, s).kind = "s" /\ At2(p, r).kind \in {"r", "rrc"}
            /\ s[1][1] = r[1][3] /\ s[1][3] = r[1][1] /\ s[1][4] = r[1][4]

NoDeadlock(p) ==
  /\ WaitsWellFormed(p)
  /\ EndpointsPaired(p)
  /\ Acyclic(ExecDeps(p))

\* the order a GPU keeps by itself: block order and waits
LocalEdges(p) ==
  [x \in Steps(p) |-> (IF x[2] = 1 THEN {} ELSE {<<x[1], x[2] - 1>>})
                      \cup (IF At2(p, x).wait = <<>> THEN {} ELSE {At2(p, x).wait})]

(* Every endpoint of an operation comes, on its own GPU, after the local   *)
(* endpoints of the operations it depends on.                              *)
LocalOrderKept(p, plan) ==
  LET anc == Ancestry(LocalEdges(p))
  IN \A op \in ToSet(plan.instr) : \A x \in {y \in Work(p) : At2(p, y).op = op.id} :
       \A y \in {z \in Work(p) : At2(p, z).op \in op.deps /\ z[1][1] = x[1][1]} : y \in anc[x]

\* a mutant of BindingsValid: a writer need not wait for the readers of what it overwrites
MutantBindingsValid(req, plan, p) ==
  LET anc == Ancestry(LocalEdges(p))
  IN /\ OpsOf(p) = {op.id : op \in ToSet(plan.instr)}
     /\ \A op \in ToSet(plan.instr) : \A x \in {y \in Work(p) : At2(p, y).op = op.id} :
          \A y \in {z \in Work(p) : At2(p, z).op \in ToSet(op.reads) /\ z[1][1] = x[1][1]} : y \in anc[x]

(* _validate_bindings *)
BindingsValid(req, plan, p) ==
  LET anc == Ancestry(ExecDeps(p))
  IN /\ OpsOf(p) = {op.id : op \in ToSet(plan.instr)}
     /\ \A op \in ToSet(plan.instr) : op.deps \subseteq anc[op.id]
     /\ LocalOrderKept(p, plan)
     /\ \A op \in ToSet(plan.instr) :
          LET mine == {x \in Work(p) : At2(p, x).op = op.id}
          IN {<<x[1][1], At2(p, x).kind, At2(p, x).src, At2(p, x).dst>> : x \in mine}
             = {<<e.rank, e.kind, e.src, e.dst>> : e \in ToSet(Endpoints(plan, op))}
             /\ op.kind # "copy" => \A x \in mine : x[1][4] = op.chan

(* check_capacity and _launch_geometry, for the limits a program this      *)
(* small can reach; blocks somebody waits for are numbered first, so their *)
(* number per rank bounds the dependency IDs.                              *)
WithinTables(req, p) ==
  /\ \A k \in DOMAIN p : Len(p[k]) <= StepsPerTb
  /\ \A r \in Ranks(req) :
       Cardinality({At2(p, x).wait[1] : x \in {y \in Steps(p) : y[1][1] = r /\ At2(p, y).wait # <<>>}}) <= DepIds
Launchable(req, plan, p) ==
  /\ WithinTables(req, p)
  /\ \A r \in Ranks(req) : plan.scratch[r] <= req.scratch
  /\ \A k \in DOMAIN p : k[2] # "copy" => k[4] \in 0..(req.channels - 1)

(* The times of the replay: every operation starts when the operations it  *)
(* waits for have ended (predict, or the untimed ticks).                   *)
StartTimes(deps, dur) ==
  LET pass(t) == [o \in DOMAIN deps |-> Max({0} \cup {t[d] + dur[d] : d \in deps[o]})]
  IN FoldLeft(LAMBDA t, i : pass(t), [o \in DOMAIN deps |-> 0],
              [i \in 1..Cardinality(DOMAIN deps) |-> i])

(* replay_version_schedule over the VersionLedger: operations in the order *)
(* of their start times; a state is readable until its region is           *)
(* rewritten, and a region may be rewritten only when its writer and its   *)
(* readers have ended.                                                     *)
ReplayOp(req, plan, deps, st, en, acc, op) ==
  LET region == Region(req, plan.addr[op.id])
      gone == {v \in acc.active : Region(req, plan.addr[v]) = region}
      reads == ToSet(op.reads)
      data == {plan.data[v] : v \in reads}
      good == /\ \A d \in deps[op.id] : d \in DOMAIN acc.read /\ en[d] <= st[op.id]
              /\ reads \subseteq acc.active
              /\ \A v \in reads : v \in DOMAIN en => en[v] <= st[op.id]
              /\ \A v \in gone : (v \in DOMAIN en => en[v] <= st[op.id])
                                 /\ acc.read[v] <= st[op.id]
              /\ op.kind = "rrc" =>
                   plan.data[op.reads[1]] \cap plan.data[op.reads[2]] = {}
              /\ plan.data[op.id] = UNION data
  IN IF ~acc.ok \/ ~good THEN [acc EXCEPT !.ok = FALSE]
     ELSE [ok |-> TRUE, active |-> (acc.active \ gone) \cup {op.id},
           read |-> [v \in DOMAIN acc.read \cup {op.id} |->
                       IF v \in reads THEN Max({acc.read[v], en[op.id]})
                       ELSE IF v = op.id THEN 0 ELSE acc.read[v]]]

ReplayValid(req, plan, deps, dur) ==
  LET st == StartTimes(deps, dur)
      en == [o \in DOMAIN deps |-> st[o] + dur[o]]
      inputs == {i.id : i \in Inputs(req)}
      key(x) == OpById(plan.instr, x).key
      order == Sorted(DOMAIN deps, LAMBDA a, b :
                 \/ st[a] < st[b]
                 \/ st[a] = st[b] /\ en[a] < en[b]
                 \/ st[a] = st[b] /\ en[a] = en[b] /\ key(a) < key(b))
      r == FoldLeft(LAMBDA acc, x : ReplayOp(req, plan, deps, st, en, acc, OpById(plan.instr, x)),
                    [ok |-> TRUE, active |-> inputs, read |-> [v \in inputs |-> 0]], order)
      need == RequiredOutputs(req)
  IN /\ r.ok
     /\ \A s \in DOMAIN need :
          /\ plan.out[s] \in r.active /\ plan.data[plan.out[s]] = need[s]
          /\ Region(req, plan.addr[plan.out[s]]) = Region(req, <<s[1], "o", s[2]>>)
===============================================================================
