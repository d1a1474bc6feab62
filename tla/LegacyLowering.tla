---------------------------- MODULE LegacyLowering ----------------------------
(***************************************************************************)
(* The lowering of an imported or legacy schedule, whose transfers carry   *)
(* the solver's times: verification/semantics.py and constraints.py before *)
(* it, then xml/buffers.py, liveness.py, dependencies.py, list_scheduler.py*)
(* and deadlock.py.                                                        *)
(*                                                                         *)
(* A request is as in ScheduleLowering; a transfer also has st and ed, the *)
(* predecessors preds it was scheduled after, its semantic predecessors    *)
(* sem, and hops, the transfers before it on the paths of its atoms.       *)
(* Shared resources are left out.                                          *)
(***************************************************************************)
EXTENDS ScheduleLowering

CONSTANT Forever   \* later than every time of a schedule

ASSUME ForeverAssumption == Forever \in Nat

Earlier(a, b) == \E i \in DOMAIN a : a[i] < b[i] /\ \A j \in 1..(i - 1) : a[j] = b[j]
Ids(req) == {t.id : t \in ToSet(req.ops)}
Transfer(req, id) == OpById(req.ops, id)
Pos(req, t) == (CHOOSE s \in t.data : TRUE) % req.n

\* the ready element that is least by its key tuple, again and again
InOrder(S, prec(_), key(_)) ==
  LET by == Sorted(S, LAMBDA x, y : Earlier(key(x), key(y)))
  IN PriorityOrder(S, prec, LAMBDA x, done : SelectInSeq(by, LAMBDA y : y = x))

-----------------------------------------------------------------------------
(* semantics.py: a replay over the PayloadLedger *)

\* _source_state: the only active state with these contributors
Source(ledger, t) == {i \in DOMAIN ledger : /\ ledger[i].active /\ ledger[i].rank = t.src
                                            /\ ledger[i].data = t.data}

\* an active aggregate occupies its rank and address
Occupied(ledger, rank, pos) ==
  {i \in DOMAIN ledger : /\ ledger[i].active /\ Cardinality(ledger[i].data) > 1
                         /\ ledger[i].rank = rank /\ ledger[i].pos = pos}

Payload(t, pos, data, ready) ==
  [rank |-> t.dst, pos |-> pos, data |-> data, ready |-> ready, active |-> TRUE, by |-> t.id]

Retire(ledger, S) == [i \in DOMAIN ledger |-> [ledger[i] EXCEPT !.active = @ /\ i \notin S]]

\* _required_contributors: the outputs a transfer may be part of
RequiredContributors(req, t) == {c \in Range(RequiredOutputs(req)) : t.data \subseteq c}

(* PayloadLedger.send: an incomplete state moves, a complete one is copied. *)
LedgerSend(req, acc, t) ==
  LET from == Source(acc.ledger, t)
      src == CHOOSE i \in from : TRUE
      wider == RequiredContributors(req, t)
      good == /\ Cardinality(from) = 1 /\ acc.ledger[src].ready <= t.st /\ wider # {}
              /\ Cardinality(t.data) > 1 => Occupied(acc.ledger, t.dst, Pos(req, t)) = {}
  IN IF ~good THEN [acc EXCEPT !.ok = FALSE]
     ELSE [acc EXCEPT !.ledger = Append(Retire(@, IF t.data \in wider THEN {} ELSE {src}),
                                        Payload(t, Pos(req, t), t.data, t.ed))]

(* _concurrent_reduce_group: the reductions into one accumulator that      *)
(* overlap in time.                                                        *)
ReduceGroup(req, first, later, done) ==
  FoldLeft(LAMBDA g, id :
             LET t == Transfer(req, id)
             IN IF /\ t.kind = "rrc" /\ t.dst = first.dst /\ Pos(req, t) = Pos(req, first)
                   /\ t.preds \subseteq done /\ t.st < g.end
                THEN [ids |-> Append(g.ids, id), end |-> Max({g.end, t.ed})] ELSE g,
           [ids |-> <<first.id>>, end |-> first.ed], later)

\* _destination_state: the widest of the accumulators with none of t's data
DestinationStates(req, L, t) ==
  LET into == {i \in DOMAIN L : /\ L[i].active /\ L[i].rank = t.dst
                                /\ L[i].pos = Pos(req, t) /\ L[i].data \cap t.data = {}}
      before(i, j) == \/ Cardinality(L[i].data) > Cardinality(L[j].data)
                      \/ Cardinality(L[i].data) = Cardinality(L[j].data) /\ i <= j
  IN {i \in into : \A j \in into : before(i, j)}

(* _apply_reduce_group: all sources and the accumulator are ready and      *)
(* disjoint; the results are available when the last one has ended.        *)
LedgerReduce(req, acc, g) ==
  LET ts == [k \in DOMAIN g.ids |-> Transfer(req, g.ids[k])]
      L == acc.ledger
      from(k) == Source(L, ts[k])
      into == DestinationStates(req, L, ts[1])
      dst == CHOOSE i \in into : TRUE
      good == /\ \A k \in DOMAIN ts : Cardinality(from(k)) = 1
              /\ \A k \in DOMAIN ts : \A i \in from(k) : L[i].ready <= ts[k].st
              /\ \A k, l \in DOMAIN ts : k # l => ts[k].data \cap ts[l].data = {}
              /\ into # {}
              /\ \A k \in DOMAIN ts : L[dst].data \cap ts[k].data = {} /\ L[dst].ready <= ts[k].st
              /\ Occupied(L, ts[1].dst, Pos(req, ts[1])) \subseteq {dst} \cup from(1)
      add(l, k) == Append(Retire(l, from(k) \cup (IF k = 1 THEN {dst} ELSE {Len(l)})),
                          Payload(ts[k], Pos(req, ts[1]),
                                  ts[k].data \cup (IF k = 1 THEN L[dst].data ELSE l[Len(l)].data), g.end))
  IN IF ~good THEN [acc EXCEPT !.ok = FALSE]
     ELSE [acc EXCEPT !.ledger = FoldLeft(add, @, [k \in DOMAIN ts |-> k])]

\* _ordered_transfers: a shorter sequence when the dependencies are a cycle
OrderedTransfers(req) ==
  InOrder(Ids(req), LAMBDA x : Transfer(req, x).preds,
          LAMBDA x : <<Transfer(req, x).st, Transfer(req, x).ed, x[2]>>)

(* _state_result: every transfer finds its states, and every output slot   *)
(* one final state (or the one its final dependency names).                *)
StatesValid(req) ==
  LET order == OrderedTransfers(req)
      start == Sorted({[rank |-> r, pos |-> l, data |-> {r * req.n + l}, ready |-> 0, active |-> TRUE,
                        by |-> <<"in", r, l>>] : <<r, l>> \in Ranks(req) \X (0..(req.n - 1))},
                      LAMBDA a, b : Earlier(<<a.rank, a.pos>>, <<b.rank, b.pos>>))
      step(acc, i) ==
        IF ~acc.ok \/ acc.left = <<>> THEN acc
        ELSE LET t == Transfer(req, Head(acc.left))
                 g == IF t.kind = "rrc" THEN ReduceGroup(req, t, Tail(acc.left), acc.done)
                      ELSE [ids |-> <<t.id>>]
                 next == IF t.kind = "rrc" THEN LedgerReduce(req, acc, g) ELSE LedgerSend(req, acc, t)
             IN [next EXCEPT !.done = @ \cup ToSet(g.ids),
                             !.left = SelectSeq(@, LAMBDA x : x \notin ToSet(g.ids))]
      \* the states at the end that have what output slot s needs
      at(ledger, s) == {i \in DOMAIN ledger : /\ ledger[i].active /\ ledger[i].rank = s[1]
                                              /\ ledger[i].data = RequiredOutputs(req)[s]}
      filled(ledger, here) ==
        Cardinality(here) = 1 \/ Cardinality({i \in here : ledger[i].by \in req.finals}) = 1
      valid(end) == end.ok /\ \A s \in DOMAIN RequiredOutputs(req) : filled(end.ledger, at(end.ledger, s))
  IN /\ Len(order) = Len(req.ops)
     /\ valid(FoldLeft(step, [ledger |-> start, ok |-> TRUE, done |-> {}, left |-> order],
                       [i \in DOMAIN req.ops |-> i]))

-----------------------------------------------------------------------------
(* constraints.py, and what simulator.py needs to make progress *)

TopologyValid(req) ==
  \A t \in ToSet(req.ops) : /\ <<t.src, t.dst>> \in req.links /\ t.chan \in 0..(req.channels - 1)
                            /\ \A s \in t.data : <<s, t.src, t.dst>> \notin req.bans

\* the order of a lane's queue
LaneBefore(a, b) == /\ <<a.src, a.dst, a.chan>> = <<b.src, b.dst, b.chan>>
                    /\ Earlier(<<a.st, a.ed, a.id[2]>>, <<b.st, b.ed, b.id[2]>>)

(* _timing_result: a transfer starts when its predecessors and the earlier *)
(* hops of its atoms have ended; a lane carries one transfer at a time.    *)
TimingValid(req) ==
  /\ \A t \in ToSet(req.ops) : \A x \in t.preds \cup t.hops : Transfer(req, x).ed <= t.st
  /\ \A t, u \in ToSet(req.ops) : LaneBefore(u, t) => u.ed <= t.st

(* simulate_schedule, without its times: a transfer may start when its     *)
(* predecessors have completed and it is at the head of its lane.          *)
Simulated(req) ==
  LET open(t, done) == /\ t.preds \cup t.sem \subseteq done
                       /\ \A u \in ToSet(req.ops) : LaneBefore(u, t) => u.id \in done
  IN FoldLeft(LAMBDA done, i : done \cup {t.id : t \in {u \in ToSet(req.ops) : open(u, done)}},
              {}, [i \in DOMAIN req.ops |-> i])

PreLoweringValid(req) == StatesValid(req) /\ TopologyValid(req) /\ TimingValid(req)

-----------------------------------------------------------------------------
(* buffers.py.  An occurrence is a value in one place for a time; a value  *)
(* is its contributors and, for an aggregate, its version.  A token is an  *)
(* address <<rank, "i" or "o", offset>>, or <<rank, "s", k>> for the k-th  *)
(* scratch allocation, which is given its offset at the end.               *)

Occurrence(data, ver, tok, from) ==
  [data |-> data, ver |-> ver, tok |-> tok, from |-> from, use |-> from,
   closed |-> -1, final |-> FALSE, fixed |-> FALSE]
Touch(occs, i, time) == [occs EXCEPT ![i].use = Max({@, time})]
Close(occs, i, time) == [Touch(occs, i, time) EXCEPT ![i].closed = time]
ValidUntil(o) == IF o.final \/ o.fixed THEN Forever ELSE IF o.closed >= 0 THEN o.closed ELSE o.use
ValueOf(o) == <<o.data, o.ver>>

\* _alias_pairs, as a function from input tokens to output tokens
Aliases(req) ==
  LET q == req.n \div req.ranks
      pairs == IF ~req.inplace \/ req.kind \in {"scatter", "gather"} THEN {} ELSE
               CASE req.kind = "reduce" -> {<<req.root, l, l>> : l \in 0..(req.n - 1)}
                 [] req.kind = "allgather" -> {<<r, l, r * req.n + l>> : <<r, l>> \in Ranks(req) \X (0..(req.n - 1))}
                 [] req.kind = "reduce_scatter" -> {<<r, r * q + o, o>> : <<r, o>> \in Ranks(req) \X (0..(q - 1))}
                 [] OTHER -> {<<r, l, l>> : <<r, l>> \in Ranks(req) \X (0..(req.n - 1))}
  IN [i \in {<<p[1], "i", p[2]>> : p \in pairs} |->
        (CHOOSE o \in {<<p[1], "o", p[3]>> : p \in {x \in pairs : <<x[1], "i", x[2]>> = i}} : TRUE)]

(* The inputs; in place, except for AllToAll, the effective occurrence of  *)
(* an input is the output it is aliased with.                              *)
InitialBuffers(req) ==
  LET slice(i) == <<(i - 1) \div req.n, (i - 1) % req.n>>
      slices == [i \in 1..(req.ranks * req.n) |-> i]
      alias == Aliases(req)
      tok(i) == <<slice(i)[1], "i", slice(i)[2]>>
      moved == SelectSeq(slices, LAMBDA i : tok(i) \in DOMAIN alias /\ req.kind # "alltoall")
      occ(i) == IF i \in ToSet(moved) THEN Len(slices) + SelectInSeq(moved, LAMBDA j : j = i) ELSE i
  IN [occs |-> [i \in DOMAIN slices |-> [Occurrence({i - 1}, 0, tok(i), 0) EXCEPT !.fixed = ~req.inplace]]
               \o [k \in DOMAIN moved |-> Occurrence({moved[k] - 1}, 0, alias[tok(moved[k])], 0)],
      states |-> [i \in DOMAIN slices |-> [rank |-> slice(i)[1], pos |-> slice(i)[2], data |-> {i - 1}, ver |-> 0,
                                           occ |-> occ(i), ready |-> 0, by |-> <<"in", slice(i)[1], slice(i)[2]>>]],
      copies |-> <<>>, bind |-> <<>>, slots |-> 0, vers |-> [l \in 0..(req.n - 1) |-> 0], ok |-> TRUE]

\* find_state: indices into states; the newest one
Matching(b, rank, data) == {i \in DOMAIN b.states : b.states[i].rank = rank /\ b.states[i].data = data}
FindState(b, rank, data) ==
  CHOOSE i \in Matching(b, rank, data) : \A j \in Matching(b, rank, data) :
    LET key(k) == <<b.states[k].ready, b.states[k].by[2]>> IN ~Earlier(key(i), key(j))

FinalSlot(req, rank, data) == {s \in DOMAIN RequiredOutputs(req) : s[1] = rank /\ RequiredOutputs(req)[s] = data}

(* copy_state: the state's value also in tok from that time on *)
CopyState(b, s, tok, time, why) ==
  [b EXCEPT !.occs = Append(Touch(@, s.occ, time), Occurrence(s.data, s.ver, tok, time)),
            !.copies = Append(@, [rank |-> s.rank, src |-> s.occ, dst |-> Len(b.occs) + 1,
                                  by |-> s.by, at |-> time, why |-> why])]

(* An in-place AllToAll whose output slot still holds an input somebody    *)
(* reads later: the input moves to scratch, with the reads under way.      *)
Preserve(req, b, tok, time) ==
  LET raw == {tok[1] * req.n + tok[3]}
      readers == {t \in ToSet(req.ops) : t.data = raw /\ t.src = tok[1]}
      s == b.states[FindState(b, tok[1], raw)]
      c == CopyState(b, s, <<tok[1], "s", b.slots>>, time, "preserve")
      new == Len(b.occs) + 1
      late == {x \in DOMAIN b.bind : /\ b.bind[x].in = <<raw, 0>> /\ Transfer(req, x).src = tok[1]
                                     /\ b.bind[x].ed > time}
  IN IF \/ ~req.inplace \/ req.kind # "alltoall" \/ tok[2] # "o"
        \/ Max({0} \cup {t.ed : t \in readers}) <= time \/ b.occs[s.occ].tok[2] # "i"
     THEN b
     ELSE [c EXCEPT !.slots = @ + 1,
             !.occs = Touch(Close(@, s.occ, time), new, Max({time} \cup {b.bind[x].ed : x \in late})),
             !.bind = [x \in DOMAIN @ |-> IF x \in late THEN [@[x] EXCEPT !.src = new] ELSE @[x]],
             !.states = [i \in DOMAIN @ |-> IF @[i] = s THEN [s EXCEPT !.occ = new, !.ready = time] ELSE @[i]]]

Binding(src, dst, acc, in, held, out, st, ed) ==
  [src |-> src, dst |-> dst, acc |-> acc, in |-> in, held |-> held, out |-> out, st |-> st, ed |-> ed]

(* A SEND: into its output slot if it is a final value, else into scratch. *)
BufferSend(req, b, t) ==
  LET s == b.states[FindState(b, t.src, t.data)]
      st == Max({t.st, s.ready})
      ed == st + t.ed - t.st
      slot == FinalSlot(req, t.dst, t.data)
      tok == IF slot = {} THEN <<t.dst, "s", b.slots>> ELSE LET o == CHOOSE x \in slot : TRUE IN <<t.dst, "o", o[2]>>
      used == [b EXCEPT !.occs = Touch(@, s.occ, ed), !.slots = @ + 1]
      v == <<s.data, s.ver>>
      sent(p, new) ==
        [p EXCEPT !.occs = Append(@, Occurrence(s.data, s.ver, tok, ed)),
           !.bind = @ @@ (t.id :> Binding(s.occ, new, 0, v, v, v, st, ed)),
           !.states = Append(SelectSeq(@, LAMBDA x : ~(x.rank = t.dst /\ x.data = t.data)),
                             [s EXCEPT !.rank = t.dst, !.occ = new, !.ready = ed, !.by = t.id])]
      after(p) == sent(p, Len(p.occs) + 1)
  IN IF Matching(b, t.src, t.data) = {} THEN [b EXCEPT !.ok = FALSE]
     ELSE after(Preserve(req, used, tok, st))

(* A REDUCE: the largest disjoint state, moved to where the sum will be.   *)
BufferReduce(req, b, t) ==
  LET pos == Pos(req, t)
      s == b.states[FindState(b, t.src, t.data)]
      possible == {i \in DOMAIN b.states : /\ b.states[i].rank = t.dst /\ b.states[i].pos = pos
                                           /\ b.states[i].data \cap t.data = {}}
      key(i) == <<Cardinality(b.states[i].data), IF (t.dst * req.n + pos) \in b.states[i].data THEN 1 ELSE 0,
                  b.states[i].ready, b.states[i].by[2]>>
      which == CHOOSE i \in possible : \A j \in possible : ~Earlier(key(i), key(j))
      a == b.states[which]
      st == Max({t.st, s.ready, a.ready})
      ed == st + t.ed - t.st
      sum == a.data \cup t.data
      slot == FinalSlot(req, t.dst, sum)
      there == b.occs[a.occ].tok
      tok == CASE slot # {} -> LET o == CHOOSE x \in slot : TRUE IN <<t.dst, "o", o[2]>>
               [] slot = {} /\ there[2] = "s" -> there
               [] OTHER -> <<t.dst, "s", b.slots>>
      used == [b EXCEPT !.occs = Touch(@, s.occ, ed), !.slots = @ + 1]
      aliased == tok \in Range(Aliases(req)) /\ a.ver = 0
      closed(occs, acc) == Close(IF aliased THEN Close(occs, (CHOOSE x \in a.data : TRUE) + 1, ed) ELSE occs, acc, ed)
      ver == b.vers[pos] + 1
      \* the sum replaces the accumulator acc, new in occs
      reduced(c, acc, new) ==
        [c EXCEPT !.occs = Append(closed(@, acc), Occurrence(sum, ver, tok, ed)), !.vers[pos] = ver,
           !.bind = @ @@ (t.id :> Binding(s.occ, new, acc, <<s.data, s.ver>>, <<a.data, a.ver>>, <<sum, ver>>, st, ed)),
           !.states = Append(RemoveAt(@, which),
                             [a EXCEPT !.data = sum, !.ver = ver, !.occ = new, !.ready = ed, !.by = t.id])]
      into(c) == reduced(c, IF there = tok THEN a.occ ELSE Len(c.occs), Len(c.occs) + 1)
  IN IF Matching(b, t.src, t.data) = {} \/ possible = {} THEN [b EXCEPT !.ok = FALSE]
     ELSE into(IF there = tok THEN used ELSE CopyState(used, a, tok, st, "initialize"))

(* The final value of an output slot: there, in the aliased input, or      *)
(* copied.                                                                 *)
PlaceOutput(req, b, slot) ==
  LET i == FindState(b, slot[1], RequiredOutputs(req)[slot])
      s == b.states[i]
      tok == <<slot[1], "o", slot[2]>>
      there == b.occs[s.occ].tok
      alias == there \in DOMAIN Aliases(req) /\ Aliases(req)[there] = tok
      c == CopyState(b, s, tok, s.ready, "output")
  IN IF Matching(b, slot[1], RequiredOutputs(req)[slot]) = {} THEN [b EXCEPT !.ok = FALSE]
     ELSE CASE there = tok -> [b EXCEPT !.occs[s.occ].final = TRUE]
       [] there # tok /\ alias -> [b EXCEPT !.occs = Append([@ EXCEPT ![s.occ].final = TRUE],
                                             [Occurrence(s.data, s.ver, tok, s.ready) EXCEPT !.final = TRUE])]
       [] OTHER -> [c EXCEPT !.occs[Len(c.occs)].final = TRUE]

(* _allocate_scratch: by planned time; the first slot whose last value has *)
(* ended gets the next one.                                                *)
ScratchOffsets(req, occs) ==
  LET toks == {o.tok : o \in {x \in ToSet(occs) : x.tok[2] = "s"}}
      of(tok) == {o \in ToSet(occs) : o.tok = tok}
      start == [tok \in toks |-> Min({o.from : o \in of(tok)})]
      end == [tok \in toks |-> Max({ValidUntil(o) : o \in of(tok)})]
      place(acc, tok) ==
        LET free == {i \in DOMAIN acc.ends[tok[1]] : acc.ends[tok[1]][i] <= start[tok]}
            at == IF free = {} THEN Len(acc.ends[tok[1]]) + 1 ELSE Min(free)
        IN [off |-> acc.off @@ (tok :> at - 1),
            ends |-> [acc.ends EXCEPT ![tok[1]] = IF free = {} THEN Append(@, end[tok]) ELSE [@ EXCEPT ![at] = end[tok]]]]
  IN FoldLeft(place, [off |-> <<>>, ends |-> [r \in Ranks(req) |-> <<>>]],
              Sorted(toks, LAMBDA x, y : Earlier(<<start[x], end[x], x[1], x[3]>>, <<start[y], end[y], y[1], y[3]>>)))

BufferOrder(req) ==
  InOrder(Ids(req), LAMBDA x : Transfer(req, x).preds \cup Transfer(req, x).sem,
          LAMBDA x : LET t == Transfer(req, x) IN <<t.st, t.ed, t.src, t.dst, t.chan, x[2]>>)

(* build_buffer_plan; a ref is <<rank, buffer, offset, from, until>>.      *)
BufferPlan(req) ==
  LET step(b, id) == LET t == Transfer(req, id)
                     IN IF ~b.ok THEN b ELSE IF t.kind = "rrc" THEN BufferReduce(req, b, t) ELSE BufferSend(req, b, t)
      moved == FoldLeft(step, InitialBuffers(req), BufferOrder(req))
      slots == Sorted(DOMAIN RequiredOutputs(req), LAMBDA a, c : Earlier(a, c))
      plan(b, scratch) ==
        [ok |-> TRUE, occs |-> b.occs, copies |-> b.copies, bind |-> b.bind,
         scratch |-> [r \in Ranks(req) |-> Len(scratch.ends[r])],
         ref |-> <<>> \o [i \in DOMAIN b.occs |->
                    LET o == b.occs[i]
                    IN <<o.tok[1], o.tok[2], IF o.tok[2] = "s" THEN scratch.off[o.tok] ELSE o.tok[3],
                         o.from, ValidUntil(o)>>]]
      from(b) == IF ~b.ok \/ Len(BufferOrder(req)) # Len(req.ops) THEN [ok |-> FALSE]
                 ELSE plan(b, ScratchOffsets(req, b.occs))
  IN from(FoldLeft(LAMBDA x, s : IF x.ok THEN PlaceOutput(req, x, s) ELSE x, moved, slots))

-----------------------------------------------------------------------------
(* liveness.py *)

Cell(req, ref) == Region(req, <<ref[1], ref[2], ref[3]>>)
Covers(ref, st, ed) == ref[4] <= st /\ ref[5] >= ed
Meets(ref, st, ed) == ref[4] < ed /\ st < ref[5]

(* verify_buffer_liveness: different values never share a place at one     *)
(* time, what is read is live, and a transfer overwrites nothing live but  *)
(* its accumulator.                                                        *)
BuffersLive(req, bp) ==
  LET O == DOMAIN bp.occs
      cell == [i \in O |-> Cell(req, bp.ref[i])]
      val == [i \in O |-> ValueOf(bp.occs[i])]
  IN /\ \A i, j \in O : cell[i] = cell[j] /\ val[i] # val[j] => ~Meets(bp.ref[i], bp.ref[j][4], bp.ref[j][5])
     /\ \A x \in DOMAIN bp.bind :
          LET d == bp.bind[x]
              summand(v) == v[1] \cap d.in[1] = {} /\ v[1] \cup d.in[1] = d.out[1]
          IN /\ Covers(bp.ref[d.src], d.st, d.ed) /\ bp.ref[d.dst][4] <= d.ed
             /\ d.acc # 0 => cell[d.acc] = cell[d.dst] /\ Covers(bp.ref[d.acc], d.st, d.ed) /\ summand(d.held)
             /\ ~req.inplace => bp.ref[d.dst][2] # "i"
             /\ \A i \in O : cell[i] = cell[d.dst] /\ Meets(bp.ref[i], d.st, d.ed) =>
                  val[i] = d.out \/ (d.acc # 0 /\ summand(val[i])) \/ i = d.acc
     /\ \A c \in ToSet(bp.copies) : /\ Covers(bp.ref[c.src], c.at, c.at) /\ bp.ref[c.dst][4] <= c.at
                                    /\ ~req.inplace => bp.ref[c.dst][2] # "i"

-----------------------------------------------------------------------------
(* dependencies.py *)

CopyId(k) == <<"copy", k, 0>>
Nodes(req, bp) == Ids(req) \cup {CopyId(k) : k \in DOMAIN bp.copies}

\* the transfers that put this value into exactly this place
Producers(bp, val, i) == {x \in DOMAIN bp.bind : bp.bind[x].out = val /\ bp.ref[bp.bind[x].dst] = bp.ref[i]}
CopiesInto(bp, i) == {CopyId(k) : k \in {c \in DOMAIN bp.copies : bp.ref[bp.copies[c].dst] = bp.ref[i]}}

\* edges with a reason that binds the receiving side as well
BufferEdges(req, bp, x) ==
  IF x[1] = "copy" THEN {}
  ELSE LET d == bp.bind[x]
           preserved == {k \in DOMAIN bp.copies :
                           /\ bp.copies[k].why = "preserve" /\ bp.copies[k].rank = bp.ref[d.dst][1]
                           /\ Cell(req, bp.ref[bp.copies[k].src]) = Cell(req, bp.ref[d.dst]) /\ d.st >= bp.copies[k].at}
       IN Producers(bp, d.in, d.src) \cup CopiesInto(bp, d.src) \cup {CopyId(k) : k \in preserved}
          \cup (IF d.acc = 0 THEN {}
                ELSE {y \in DOMAIN bp.bind : bp.bind[y].out = d.held} \cup CopiesInto(bp, d.acc))

\* semantic, path and copy_source
DataEdges(req, bp, x) ==
  IF x[1] = "copy" THEN {bp.copies[x[2]].by} \cap Ids(req)
  ELSE LET t == Transfer(req, x)
           last == {h \in t.hops : \A g \in t.hops : Transfer(req, g).st <= Transfer(req, h).st}
       IN t.sem \cup (IF bp.bind[x].in[2] > 0 THEN Producers(bp, bp.bind[x].in, bp.bind[x].src) ELSE last)

Edges(req, bp, x) ==
  BufferEdges(req, bp, x) \cup DataEdges(req, bp, x) \cup (IF x[1] = "copy" THEN {} ELSE Transfer(req, x).preds)

-----------------------------------------------------------------------------
(* list_scheduler.py *)

EffectiveSt(bp, x) == IF x[1] = "copy" THEN bp.copies[x[2]].at ELSE bp.bind[x].st
EffectiveEd(bp, x) == IF x[1] = "copy" THEN bp.copies[x[2]].at ELSE bp.bind[x].ed

\* _critical_paths, from the last nodes back
CriticalPaths(bp, edges) ==
  FoldLeft(LAMBDA len, i :
             <<>> @@ [x \in DOMAIN edges |-> EffectiveEd(bp, x) - EffectiveSt(bp, x)
                                     + Max({0} \cup {len[y] : y \in {z \in DOMAIN edges : x \in edges[z]}})],
           [x \in DOMAIN edges |-> 0], [i \in 1..Cardinality(DOMAIN edges) |-> i])

NodePriority(req, bp, critical, x) ==
  IF x[1] = "copy" THEN LET c == bp.copies[x[2]] IN <<c.at, -critical[x], c.at, -1, c.rank, c.rank, -1, x[2]>>
  ELSE LET t == Transfer(req, x) IN <<t.st, -critical[x], t.ed, Pos(req, t), t.src, t.dst, t.chan, x[2]>>

\* lower_endpoints: the sender first; rrc adds to its own destination
LegacyEndpoints(req, bp, x) ==
  LET addr(i) == <<bp.ref[i][1], bp.ref[i][2], bp.ref[i][3]>>
      e(key, kind, s, d) == [key |-> key, kind |-> kind, src |-> addr(s), dst |-> addr(d)]
  IN IF x[1] = "copy" THEN LET c == bp.copies[x[2]] IN <<e(<<c.rank, "copy", -1, -1>>, "cpy", c.src, c.dst)>>
     ELSE LET t == Transfer(req, x)  d == bp.bind[x]
          IN <<e(<<t.src, "send", t.dst, t.chan>>, "s", d.src, d.dst),
               e(<<t.dst, "recv", t.src, t.chan>>, IF t.kind = "rrc" THEN "rrc" ELSE "r", d.dst, d.dst)>>

(* predecessor_assignments: a predecessor on the sender's rank is waited   *)
(* for there; only one that is not, and is about the buffer, is waited for *)
(* by the receiver.                                                        *)
Assignments(req, bp, at, es, x) ==
  LET on(p, i) == <<p, es[i].key[1]>> \in DOMAIN at
      sent == {p \in Edges(req, bp, x) : on(p, 1)}
      recv == {p \in BufferEdges(req, bp, x) \ sent : Len(es) = 2 /\ on(p, 2)}
      wait(p, i) == <<p, at[<<p, es[i].key[1]>>]>>
  IN [i \in DOMAIN es |-> IF i = 1 THEN {wait(p, 1) : p \in sent} ELSE {wait(p, 2) : p \in recv}]

\* a predecessor that matters has a step on a rank of the node
Representable(req, bp, at, es, x) ==
  \A p \in Edges(req, bp, x) :
    \/ <<p, es[1].key[1]>> \in DOMAIN at
    \/ Len(es) = 2 /\ p \in BufferEdges(req, bp, x) /\ <<p, es[2].key[1]>> \in DOMAIN at
    \/ Len(es) = 2 /\ p \notin BufferEdges(req, bp, x) \cup DataEdges(req, bp, x)

(* append_endpoint: the step waits for the latest of its predecessors, a   *)
(* NOP before it for each of the others.                                   *)
AppendEndpoint(bp, critical, acc, x, e, waits) ==
  LET old == IF e.key \in DOMAIN acc.blocks THEN acc.blocks[e.key] ELSE <<>>
      key(w) == <<-EffectiveEd(bp, w[1]), -critical[w[1]], IF w[1][1] = "copy" THEN 0 ELSE 1, w[1][2]>>
      order == Sorted({w \in waits : w[2][1] # e.key}, LAMBDA v, w : Earlier(key(v), key(w)))
      step(kind, wait) == [op |-> x, kind |-> kind, src |-> e.src, dst |-> e.dst, wait |-> wait]
      others == IF order = <<>> THEN <<>> ELSE Tail(order)
      new == [i \in DOMAIN others |-> step("nop", others[i][2])]
             \o <<step(e.kind, IF order = <<>> THEN <<>> ELSE order[1][2])>>
  IN [acc EXCEPT !.blocks = (e.key :> old \o new) @@ @,
                 !.at = @ @@ (<<x, e.key[1]>> :> <<e.key, Len(old) + Len(new)>>)]

(* schedule_threadblocks *)
Threadblocks(req, bp) ==
  LET edges == <<>> @@ [x \in Nodes(req, bp) |-> Edges(req, bp, x)]
      critical == CriticalPaths(bp, edges)
      order == InOrder(Nodes(req, bp), LAMBDA x : edges[x], LAMBDA x : NodePriority(req, bp, critical, x))
      add(acc, x) ==
        LET es == LegacyEndpoints(req, bp, x)
            w == Assignments(req, bp, acc.at, es, x)
        IN IF ~acc.ok \/ ~Representable(req, bp, acc.at, es, x) THEN [acc EXCEPT !.ok = FALSE]
           ELSE FoldLeft(LAMBDA a, i : AppendEndpoint(bp, critical, a, x, es[i], w[i]), acc, [i \in DOMAIN es |-> i])
      published(l, waited) ==
        IF ~l.ok THEN [ok |-> FALSE]
        ELSE [ok |-> TRUE,
              blocks |-> <<>> @@ [k \in DOMAIN l.blocks |-> <<>> \o [i \in DOMAIN l.blocks[k] |->
                l.blocks[k][i] @@ [pub |-> <<k, i>> \in waited]]]]
      from(l) == published(l, Waited(l.blocks))
  IN from(FoldLeft(add, [blocks |-> <<>>, at |-> <<>>, ok |-> Len(order) = Cardinality(Nodes(req, bp))], order))

(* simulate_endpoint_execution: copies and NOPs as they come, a transfer   *)
(* when both of its endpoints are at the heads of their blocks.            *)
Rendezvous(p) ==
  LET open(done) == {x \in Steps(p) \ done : /\ x[2] > 1 => <<x[1], x[2] - 1>> \in done
                                             /\ At2(p, x).wait # <<>> => At2(p, x).wait \in done}
      met(o, x) == \/ At2(p, x).kind \in {"cpy", "nop"}
                   \/ \E y \in o \ {x} : At2(p, y).op = At2(p, x).op /\ At2(p, y).kind # "nop"
      pass(done) == LET o == open(done) IN done \cup {x \in o : met(o, x)}
      after[i \in 0..Cardinality(Steps(p))] == IF i = 0 THEN {} ELSE pass(after[i - 1])
  IN after[Cardinality(Steps(p))]

\* the plan in the form the interpreter's bindings take
LegacyPlan(req, bp) ==
  LET name(i) == IF i <= req.ranks * req.n THEN <<"in", (i - 1) \div req.n, (i - 1) % req.n>> ELSE <<"occ", i, 0>>
      at(v) == IF v[1] = "in" THEN v[2] * req.n + v[3] + 1 ELSE v[2]
      names == {name(i) : i \in DOMAIN bp.occs}
      order == [k \in DOMAIN bp.copies |-> CopyId(k)] \o [k \in DOMAIN req.ops |-> req.ops[k].id]
      op(x) == [id |-> x, reads |-> IF x[1] = "copy" THEN <<name(bp.copies[x[2]].src)>>
                                    ELSE <<name(bp.bind[x].src), name(Max({1, bp.bind[x].acc}))>>]
  IN [ok |-> TRUE, instr |-> [k \in DOMAIN order |-> op(order[k])], scratch |-> bp.scratch,
      addr |-> [v \in names |-> <<bp.ref[at(v)][1], bp.ref[at(v)][2], bp.ref[at(v)][3]>>],
      data |-> [v \in names |-> bp.occs[at(v)].data]]

(* lower_to_xml up to the emitter; refused is any of its errors.           *)
LowerToXml(req) ==
  LET xml(bp, l) ==
        IF l.ok /\ \A p \in {l.blocks} : Acyclic(LocalEdges(p)) /\ Rendezvous(p) = Steps(p)
        THEN [ok |-> TRUE, plan |-> LegacyPlan(req, bp), blocks |-> l.blocks]
        ELSE [ok |-> FALSE]
      from(bp) == IF PreLoweringValid(req) /\ bp.ok /\ BuffersLive(req, bp)
                  THEN xml(bp, Threadblocks(req, bp)) ELSE [ok |-> FALSE]
  IN from(BufferPlan(req))

===============================================================================
