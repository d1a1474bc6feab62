---------------------------- MODULE TemplateSearch ----------------------------
(***************************************************************************)
(* One call of solver/orchestrator.py solve(): the template search of      *)
(* solver/template_search.py with its pool of route models and its two     *)
(* deadlines, the global resource scheduler (solver/global_scheduler.py)   *)
(* step by step, the AUTO second search and the candidate cache.           *)
(***************************************************************************)
EXTENDS GlobalScheduler

CONSTANTS Requests,      \* sequence of requests, see Planner
          Workers,       \* max_parallel_models
          Second,        \* ticks of the clock in a second
          ModelTimeout,  \* per_model_timeout_s, in ticks
          Calls,         \* number of solve() calls in a row
          CoarseBatch    \* coarse_batch_size

ASSUME SearchAssumption ==
  /\ Workers \in Nat \ {0} /\ ModelTimeout \in Nat \ {0} /\ Calls \in Nat \ {0}
  /\ CoarseBatch \in Nat \ {0} /\ Second \in Nat \ {0}
  /\ \A i \in DOMAIN Requests : Requests[i].budgets \subseteq Nat \ {0}

VARIABLES prep,      \* the plan searched, with what is computed before the search
          stream,    \* the state of a candidate stream
          strict,    \* the search of a call that requires a proof of optimality
          calls,     \* calls started
          mode,      \* where solve() stands
          objective, \* the search under way
          clock, deadline,
          next,      \* next_work
          running,   \* submitted models: work item -> its deadline
          finished,  \* completed futures not yet collected: item -> outcome
          patterns,  \* work item -> pattern
          k,         \* channel count being composed
          outs,      \* the output dependencies of its composition
          work,      \* the state of its scheduling
          cands,     \* candidates found
          cache,     \* the cached candidate
          result

given == <<prep, stream>>
pool == <<next, running, finished, patterns, strict>>
sched == <<k, outs, work>>
vars == <<given, calls, mode, objective, clock, deadline, pool, sched, cands, cache, result>>

ByTemplate(r, ts, F(_, _)) ==
  FoldLeft(LAMBDA done, t : Append(done, {p : p \in F(r, t[1])}), <<>>, ts)

\* the plans of a call or of its streams, and each with the range of its own
Series(r) == IF r.search THEN Streams(r) ELSE <<<<BuildPlan(r)>>>>
InRange(done, plans) ==
  done \o [i \in DOMAIN plans |-> [at |-> Len(done) + i, first |-> Len(done) + 1,
                                   last |-> Len(done) + Len(plans)] @@ plans[i]]
PlanOf == FoldLeft(InRange, <<>>, FoldLeft(LAMBDA done, r : done \o Series(r), <<>>, Requests))

\* construct_route_pattern and solve_route_milp, for the unit that represents
\* a template: all that either may return
ConstructedRoutes(r, ts) == ByTemplate(r, ts, ConstructivePatterns)
SolvedRoutes(r, ts) == ByTemplate(r, ts, RoutePatterns)

\* what solve() computes before it searches: the templates and their units,
\* the patterns either backend may return, the nodes with a feasible model
Prepare(r, us, ts) ==
  [plan |-> r, templates |-> ts, units |-> us,
   milp |-> SolvedRoutes(r, ts), greedy |-> ConstructedRoutes(r, ts),
   solvable |-> {i : i \in {x \in DOMAIN r.nodes : ~NodeInfeasible(r, x)}},
   bound |-> IF Infeasible(r) THEN 0 ELSE DependencyBound(r)]
PrepareUnits(r, us) == Prepare(r, us, Templates(r, us))
Prepared == FoldLeft(LAMBDA done, r : Append(done, PrepareUnits(r, Units(r))), <<>>, PlanOf)

req == prep.plan
q == req.at
templates == prep.templates
units == prep.units

\* work_items: by channel count, then by template; a strict call searches
\* the channel counts of one plan node at a time
Items == (1..req.channels) \X (IF req.strict THEN DOMAIN req.nodes ELSE DOMAIN templates)
ItemAt(i) == IF req.strict THEN <<i, strict.node>>
             ELSE <<((i - 1) \div Len(templates)) + 1, ((i - 1) % Len(templates)) + 1>>
ItemCount == req.channels * (IF req.strict THEN 1 ELSE Len(templates))

\* the deadline of the pool at work
PoolEnd == IF req.strict THEN strict.limit ELSE deadline

Empty == [x \in {} |-> 0]

Idle == [status |-> None, cands |-> {}, selected |-> None]
NoWork == [k |-> 0, transfers |-> Empty, done |-> <<>>, queue |-> Empty, path |-> Empty]
NoNode == [node |-> 0, limit |-> 0, lost |-> 0, models |-> Empty]
NoStream == [phase |-> "fine", pending |-> <<>>, later |-> 1, coarse |-> <<>>, failed |-> <<>>, tried |-> <<>>]

-----------------------------------------------------------------------------
(* Starting a call *)

Search == IF req.strict THEN "node" ELSE "fill"

Fresh == /\ next' = 1 /\ running' = Empty /\ finished' = Empty /\ patterns' = Empty
         /\ strict' = [NoNode EXCEPT !.limit = clock']
         /\ k' = 1 /\ outs' = Empty /\ work' = NoWork

Init == /\ prep \in {p \in ToSet(Prepared) : p.plan.first = p.plan.at}
        /\ stream = [NoStream EXCEPT !.later = q]
        /\ calls = 0 /\ mode = "idle" /\ objective = "latency"
        /\ clock = 0 /\ deadline = 0
        /\ next = 1 /\ running = Empty /\ finished = Empty /\ patterns = Empty
        /\ strict = NoNode
        /\ k = 1 /\ outs = Empty /\ work = NoWork
        /\ cands = {} /\ cache = None /\ result = Idle

(* solve() up to the search: plan, cache lookup, then disabled backends.   *)
(* The cached entry may have passed its hour.                              *)
Solve ==
  /\ mode = "idle" /\ calls < Calls /\ ~req.search
  /\ calls' = calls + 1
  /\ clock' = 0
  /\ \E b \in req.budgets : deadline' = b
  /\ cands' = {} /\ objective' = "latency" /\ Fresh
  /\ \E live \in BOOLEAN :
       IF live /\ cache # None /\ (req.strict => cache.proven)
       THEN /\ mode' = "done"
            /\ result' = [status |-> "ok", cands |-> {cache}, selected |-> cache]
            /\ cache' = cache
       ELSE /\ cache' = None
            /\ IF req.plan # "ok"
               THEN mode' = "done" /\ result' = [Idle EXCEPT !.status = req.plan]
               ELSE IF IF req.strict THEN req.milp ELSE req.milp \/ req.greedy
               THEN mode' = Search /\ result' = Idle
               ELSE /\ mode' = "done"
                    /\ result' = [Idle EXCEPT !.status =
                                     IF req.milp \/ req.greedy THEN "error" ELSE "not_run"]
  /\ UNCHANGED given

-----------------------------------------------------------------------------
(* The pool of route models *)

InFlight == Cardinality(DOMAIN running \cup DOMAIN finished)

(* Variant: the last item is left out. *)
CanSubmitAllButLast == /\ InFlight < Workers
                       /\ next < ItemCount
                       /\ clock < PoolEnd

CanSubmit == /\ InFlight < Workers
             /\ next <= ItemCount
             /\ clock < PoolEnd

(* submit_one: a model gets its timeout, never past the search's deadline. *)
Submit ==
  /\ mode = "fill" /\ req.milp /\ CanSubmit
  /\ running' = [w \in DOMAIN running \cup {ItemAt(next)} |->
                   IF w = ItemAt(next) THEN Min({clock + ModelTimeout, PoolEnd})
                   ELSE running[w]]
  /\ next' = next + 1
  /\ UNCHANGED <<given, calls, mode, objective, clock, deadline, finished, patterns, strict, sched,
                 cands, cache, result>>

StopSubmitting ==
  /\ mode = "fill" /\ req.milp /\ ~CanSubmit
  /\ mode' = IF InFlight # 0 THEN "wait" ELSE IF req.strict THEN "node" ELSE "compose"
  /\ UNCHANGED <<given, calls, objective, clock, deadline, pool, sched, cands, cache, result>>

(* What solve_route_milp may select for an item or, in a strict call,      *)
(* solve_milp for a plan node: an optimal schedule, or the incumbent it    *)
(* had at its time limit.                                                  *)
Selections(w) ==
  IF ~req.strict THEN {[kind |-> "pattern", pattern |-> p] : p \in prep.milp[w[2]]}
  ELSE {[kind |-> x, pattern |-> None] : x \in IF w[2] \in prep.solvable THEN {"optimal", "incumbent"} ELSE {}}

(* A model ends in a worker thread with a selection; with no incumbent     *)
(* (infeasible, or out of time); with BudgetExhausted, raised by the       *)
(* adapter while it still builds a model whose time is over; or with the   *)
(* loss of SCIP.                                                           *)
WorkerEnds(w) ==
  /\ \E outcome \in Selections(w)
                    \cup {[kind |-> x, pattern |-> None] : x \in {"none", "late", "unavailable"}} :
       /\ outcome.kind = "none" => (clock >= running[w] \/ Selections(w) = {})
       /\ outcome.kind \in {"late", "incumbent"} => clock >= running[w]
       /\ outcome.kind = "unavailable" => req.flaky
       /\ finished' = [x \in DOMAIN finished \cup {w} |-> IF x = w THEN outcome ELSE finished[x]]
  /\ running' = [x \in DOMAIN running \ {w} |-> running[x]]
  /\ UNCHANGED <<given, calls, mode, objective, clock, deadline, next, patterns, strict, sched,
                 cands, cache, result>>

(* Variant: a model without a pattern is run again. *)
CollectAndRetry ==
  LET broken == {w \in DOMAIN finished : finished[w].kind \in {"late", "unavailable"}}
      got == {w \in DOMAIN finished : finished[w].kind = "pattern"}
      again == DOMAIN finished \ (got \cup broken)
  IN /\ mode = "wait" /\ finished # Empty
     /\ finished' = Empty
     /\ mode' = IF broken = {} THEN "fill" ELSE "drain"
     /\ patterns' = [w \in DOMAIN patterns \cup got |->
                       IF w \in got THEN finished[w].pattern ELSE patterns[w]]
     /\ running' = [w \in DOMAIN running \cup again |-> IF w \in again THEN clock ELSE running[w]]
     /\ UNCHANGED <<given, calls, objective, clock, deadline, next, strict, sched, cands, cache, result>>

\* _is_complete: what a strict call keeps of a node
CompleteModels == {w \in DOMAIN finished : finished[w].kind \in {"optimal", "incumbent"}}

(* The main thread takes every future that is done.  An exception ends the *)
(* search, after the executor has waited for the models still running; a   *)
(* model without a pattern gets a constructive one where that is enabled.  *)
Collect ==
  LET broken == {w \in DOMAIN finished : finished[w].kind \in {"late", "unavailable"}}
      choices(w) == IF finished[w].kind = "pattern" THEN {finished[w].pattern}
                    ELSE IF req.greedy /\ ~req.strict THEN prep.greedy[w[2]] ELSE {}
      got == {w \in DOMAIN finished : choices(w) # {}}
  IN /\ mode = "wait" /\ finished # Empty
     /\ finished' = Empty
     /\ IF broken # {}
        THEN /\ mode' = "drain" /\ patterns' = patterns
             /\ \E w \in broken : /\ \A v \in broken : ~Lex(v, w)
                                  /\ result' = [Idle EXCEPT !.status =
                                       IF finished[w].kind = "late" THEN "error" ELSE "unavailable"]
        ELSE /\ mode' = "fill" /\ result' = result
             /\ \E f \in [got -> UNION {choices(w) : w \in got}] :
                  /\ \A w \in got : f[w] \in choices(w)
                  /\ patterns' = [w \in DOMAIN patterns \cup got |->
                                    IF w \in got THEN f[w] ELSE patterns[w]]
     /\ strict' = [strict EXCEPT !.models = [w \in CompleteModels |-> finished[w].kind] @@ @]
     /\ UNCHANGED <<given, calls, objective, clock, deadline, next, running, sched, cands, cache>>

\* ThreadPoolExecutor.__exit__ after an exception
Drained ==
  /\ mode = "drain" /\ running = Empty
  /\ mode' = "done" /\ finished' = Empty
  /\ UNCHANGED <<given, calls, objective, clock, deadline, next, running, patterns, strict, sched,
                 cands, cache, result>>

(* Without the MILP backend: construct_route_pattern item after item until *)
(* the deadline.                                                           *)
ConstructNext ==
  /\ mode = "fill" /\ ~req.milp /\ next <= ItemCount /\ clock < deadline
  /\ LET w == ItemAt(next) IN
       IF prep.greedy[w[2]] = {} THEN patterns' = patterns
       ELSE \E p \in prep.greedy[w[2]] :
              patterns' = [x \in DOMAIN patterns \cup {w} |-> IF x = w THEN p ELSE patterns[x]]
  /\ next' = next + 1
  /\ UNCHANGED <<given, calls, mode, objective, clock, deadline, running, finished, strict, sched,
                 cands, cache, result>>

StopConstructing ==
  /\ mode = "fill" /\ ~req.milp /\ (next <= ItemCount => clock >= deadline)
  /\ mode' = "compose"
  /\ UNCHANGED <<given, calls, objective, clock, deadline, pool, sched, cands, cache, result>>

\* bound: one tick past the deadline, where every time limit is over
Tick ==
  /\ mode \in {"node", "fill", "wait", "drain", "ranked"} /\ clock <= deadline
  /\ clock' = clock + 1
  /\ UNCHANGED <<given, calls, mode, objective, deadline, pool, sched, cands, cache, result>>

-----------------------------------------------------------------------------
(* A call that requires a proof of optimality: node after node *)

NodeCount == Len(req.nodes)

\* node_seconds: whole seconds, at least one
Share(remaining) == Second * Max({1, remaining \div (Second * (NodeCount - strict.node))})

\* what the search has spent beyond the shares of its nodes
Lost == strict.lost + Max({0, clock - strict.limit})

\* less than a second for the nodes that are left: they are not searched
NoTimeLeft == deadline - clock < Second

SearchNode ==
  /\ mode = "node" /\ strict.node < NodeCount /\ ~NoTimeLeft
  /\ strict' = [strict EXCEPT !.node = @ + 1, !.limit = clock + Share(deadline - clock),
                              !.lost = Lost]
  /\ next' = 1 /\ mode' = "fill"
  /\ UNCHANGED <<given, calls, objective, clock, deadline, running, finished, patterns, sched,
                 cands, cache, result>>

(* Variant: a schedule found at a time limit counts as proven. *)
FeasibleIsProven(c) == NodeCount = 1 /\ ~req.shortest

\* proven_optimal of solve_milp and _combine_node_candidates
Proven(c) == NodeCount = 1 /\ strict.models[<<c, 1>>] = "optimal" /\ ~req.shortest

(* common_channels, over the nodes that were searched; a combination that  *)
(* lacks a node is an error.  The makespan of the combined schedule is     *)
(* left open.                                                              *)
CombineNodes ==
  LET common == {c \in 1..req.channels : \A i \in 1..strict.node : <<c, i>> \in DOMAIN strict.models}
  IN /\ mode = "node" /\ (strict.node < NodeCount => NoTimeLeft)
     /\ IF strict.node < NodeCount /\ common # {}
        THEN /\ mode' = "done" /\ cands' = cands
             /\ result' = [Idle EXCEPT !.status = "error"]
        ELSE /\ mode' = "ranked" /\ result' = result
             /\ \E time \in [common -> {prep.bound, prep.bound + 1}] :
                  cands' = cands \cup {[plan |-> q, objective |-> objective, channels |-> c, makespan |-> time[c],
                                      operations |-> 0, proven |-> Proven(c)]
                                     : c \in common}
     /\ UNCHANGED <<given, calls, objective, clock, deadline, pool, sched, cache>>

-----------------------------------------------------------------------------
(* Composition and global scheduling, one channel count after the other *)

RouteOf(channels, u) ==
  LET t == CHOOSE x \in DOMAIN templates : units[u] \in ToSet(templates[x])
  IN Instantiate(req, templates[t][1], units[u], patterns[<<channels, t>>])

(* One channel count: skipped unless every template has a pattern, then    *)
(* instantiated, composed, and its initial choices enqueued.               *)
ComposeNext ==
  /\ mode = "compose" /\ k <= req.channels
  /\ IF \A t \in DOMAIN templates : <<k, t>> \in DOMAIN patterns
     THEN \E plan \in {Compose(req, units, [u \in DOMAIN units |-> RouteOf(k, u)])} :
            /\ mode' = "schedule" /\ k' = k
            /\ outs' = plan.outs
            /\ work' = InitialState(req, k, plan.transfers)
     ELSE mode' = "compose" /\ k' = k + 1 /\ UNCHANGED <<outs, work>>
  /\ UNCHANGED <<given, calls, objective, clock, deadline, pool, cands, cache, result>>

(* One heappop: an entry out of date is pushed again, a current one        *)
(* assigns its transfer.                                                   *)
PopStale(lane) ==
  /\ mode = "schedule" /\ Least(work, lane) /\ ~Current(req, work, lane)
  /\ work' = Enqueue(req, work, {lane})
  /\ UNCHANGED <<given, calls, mode, objective, clock, deadline, pool, k, outs, cands, cache, result>>

Assign(lane) ==
  /\ mode = "schedule" /\ Least(work, lane) /\ Current(req, work, lane)
  /\ work' = AssignAt(req, work, lane)
  /\ UNCHANGED <<given, calls, mode, objective, clock, deadline, pool, k, outs, cands, cache, result>>

(* The heap is empty: a transfer left over means a cycle, which is an      *)
(* error; else the schedule is a candidate.                                *)
Scheduled ==
  /\ mode = "schedule" /\ work.queue = Empty
  /\ IF Assigned(work) = DOMAIN work.transfers
     THEN /\ mode' = IF req.search THEN "stream" ELSE "compose"
          /\ k' = k + 1 /\ result' = result
          /\ cands' = cands \cup {[plan |-> q, objective |-> objective, channels |-> k,
                                   makespan |-> Makespan(work), operations |-> Len(work.done),
                                   proven |-> FALSE]}
          /\ stream' = IF req.search /\ stream.phase = "coarse"
                       THEN [stream EXCEPT !.coarse = Append(@, [plan |-> q, estimate |-> Makespan(work)])]
                       ELSE stream
     ELSE /\ mode' = "done" /\ k' = k /\ cands' = cands /\ stream' = stream
          /\ result' = [Idle EXCEPT !.status = "error"]
  /\ outs' = Empty /\ work' = NoWork
  /\ UNCHANGED <<prep, calls, objective, clock, deadline, pool, cache>>

Ranked ==
  /\ mode = "compose" /\ k > req.channels
  /\ mode' = "ranked"
  /\ UNCHANGED <<given, calls, objective, clock, deadline, pool, sched, cands, cache, result>>

-----------------------------------------------------------------------------
(* The end of solve() *)

(* _auto_ranking_key and, for the latency objective, _ranking_key; ties,    *)
(* broken by hops, objective and identifier, are left open.                *)
Better(a, b) == Lex(<<a.makespan, a.operations>>, <<b.makespan, b.operations>>)

(* AUTO goes on to a throughput search unless the latency search found     *)
(* nothing, its time is up, or the bound shows that too little could be    *)
(* gained; that decision, taken from calibration data, is left open.       *)
SearchThroughput ==
  /\ mode = "ranked" /\ req.auto /\ objective = "latency"
  /\ cands # {} /\ clock < deadline
  /\ objective' = "throughput" /\ mode' = Search /\ clock' = clock /\ Fresh
  /\ UNCHANGED <<given, calls, deadline, cands, cache, result>>

Eligible == {c \in cands : req.strict => c.proven}

(* The selected candidate is returned and cached. *)
Finish ==
  /\ mode = "ranked"
  /\ mode' = "done"
  /\ IF cands = {}
     THEN /\ result' = [Idle EXCEPT !.status = IF Infeasible(req) THEN "infeasible" ELSE "error"]
          /\ cache' = cache
     ELSE IF Eligible = {}
     THEN result' = [Idle EXCEPT !.status = "error"] /\ cache' = cache
     ELSE \E best \in Eligible :
            /\ \A c \in Eligible : ~Better(c, best)
            /\ result' = [status |-> "ok", cands |-> cands, selected |-> best]
            /\ cache' = best
  /\ UNCHANGED <<given, calls, objective, clock, deadline, pool, sched, cands>>

Return == /\ mode = "done" /\ calls < Calls /\ ~req.search
          /\ mode' = "idle"
          /\ UNCHANGED <<given, calls, objective, clock, deadline, pool, sched, cands, cache, result>>

Stopped == mode = "done" /\ (calls < Calls => req.search) /\ UNCHANGED vars

-----------------------------------------------------------------------------
(* CandidateStream: the plans of a request in batches, a coarse model of   *)
(* each for a ranking, then a finer one of each                            *)

Streaming(what) ==
  /\ stream' = what
  /\ UNCHANGED <<calls, objective, clock, deadline, cache>>

OpenStream ==
  /\ mode = "idle" /\ req.search
  /\ mode' = "stream" /\ Streaming(stream)
  /\ UNCHANGED <<prep, pool, sched, cands, result>>

\* islice(plans, coarse_batch_size)
NextBatch ==
  /\ mode = "stream" /\ stream.pending = <<>> /\ stream.phase = "fine"
  /\ LET end == Min({req.last, stream.later + CoarseBatch - 1}) IN
     IF stream.later > req.last
     THEN /\ mode' = "done" /\ Streaming(stream)
          /\ result' = [status |-> "initial_grammar_exhausted", cands |-> cands, selected |-> None]
     ELSE /\ mode' = mode /\ result' = result
          /\ Streaming([stream EXCEPT !.phase = "coarse", !.later = end + 1, !.coarse = <<>>, !.failed = <<>>,
                                      !.pending = [i \in 1..(end - stream.later + 1) |-> stream.later + i - 1]])
  /\ UNCHANGED <<prep, pool, sched, cands>>

\* by estimate, then the plans whose coarse model had no incumbent
Refinements(coarse, failed) ==
  LET order == SortedBy(DOMAIN coarse, LAMBDA i : <<coarse[i].estimate, i>>)
  IN [i \in DOMAIN order |-> coarse[order[i]].plan] \o failed

RankBatch ==
  /\ mode = "stream" /\ stream.pending = <<>> /\ stream.phase = "coarse"
  /\ Streaming([stream EXCEPT !.phase = "fine", !.pending = Refinements(stream.coarse, stream.failed)])
  /\ UNCHANGED <<prep, mode, pool, sched, cands, result>>

\* no candidate of this phase
Without(s, plan) == IF s.phase = "coarse" THEN [s EXCEPT !.failed = Append(@, plan)] ELSE s

(* _solve: demands without a path are given up at once, else one model     *)
(* after the other.                                                        *)
SolvePlan ==
  /\ mode = "stream" /\ stream.pending # <<>>
  /\ prep' = Prepared[Head(stream.pending)]
  /\ LET s == [stream EXCEPT !.pending = Tail(@), !.tried = Append(@, <<stream.phase, Head(stream.pending)>>)] IN
     IF Infeasible(prep'.plan) THEN mode' = mode /\ Streaming(Without(s, Head(stream.pending)))
     ELSE mode' = "model" /\ Streaming(s)
  /\ next' = 1 /\ patterns' = Empty
  /\ UNCHANGED <<running, finished, strict, sched, cands, result>>

\* solve_route_milp or solve_fine_pattern with the time of its child lease
SolveModel ==
  /\ mode = "model" /\ next <= Len(templates)
  /\ \E p \in prep.milp[next] : patterns' = (<<req.channels, next>> :> p) @@ patterns
  /\ next' = next + 1 /\ Streaming(stream)
  /\ UNCHANGED <<prep, mode, running, finished, strict, sched, cands, result>>
ModelWithoutIncumbent ==
  /\ mode = "model" /\ next <= Len(templates)
  /\ mode' = "stream" /\ Streaming(Without(stream, q))
  /\ UNCHANGED <<prep, pool, sched, cands, result>>

ComposePlan ==
  /\ mode = "model" /\ next > Len(templates)
  /\ k' = req.channels /\ mode' = "schedule" /\ Streaming(stream)
  /\ \E plan \in {Compose(req, units, [u \in DOMAIN units |-> RouteOf(req.channels, u)])} :
       outs' = plan.outs /\ work' = InitialState(req, req.channels, plan.transfers)
  /\ UNCHANGED <<prep, pool, cands, result>>

\* BudgetExhausted, from the parent lease or, while a model is still built,
\* from the time of that model alone
StreamExpires ==
  /\ mode \in {"stream", "model"}
  /\ mode' = "done" /\ Streaming(stream)
  /\ result' = [status |-> "initial_synthesis_budget", cands |-> cands, selected |-> None]
  /\ UNCHANGED <<prep, pool, sched, cands>>

StreamStep == OpenStream \/ NextBatch \/ RankBatch \/ SolvePlan \/ SolveModel \/ ModelWithoutIncumbent
              \/ ComposePlan \/ StreamExpires

PoolStep == Submit \/ StopSubmitting \/ Collect \/ Drained \/ ConstructNext \/ StopConstructing
            \/ SearchNode \/ CombineNodes
SomeWorkerEnds == \E w \in DOMAIN running : WorkerEnds(w)

Next == \/ Solve \/ PoolStep \/ SomeWorkerEnds \/ Tick
        \/ ComposeNext \/ (\E lane \in DOMAIN work.queue : PopStale(lane) \/ Assign(lane))
        \/ Scheduled \/ Ranked \/ SearchThroughput \/ Finish \/ Return \/ Stopped
        \/ StreamStep

(* The main thread goes on with its pool, and workers stop at the time     *)
(* limit they gave to the solver; a search submits finitely many models,   *)
(* so that fairness for the workers as a whole ends each of them.          *)
Spec == Init /\ [][Next]_vars /\ WF_vars(PoolStep) /\ WF_vars(SomeWorkerEnds) /\ WF_vars(Tick)

-----------------------------------------------------------------------------
(* Properties *)

STypeOK ==
  /\ mode \in {"idle", "node", "fill", "wait", "drain", "compose", "schedule", "ranked", "done", "stream", "model"}
  /\ clock \in 0..(deadline + 1) /\ next \in 1..(ItemCount + 1)
  /\ DOMAIN running \subseteq Items /\ DOMAIN patterns \subseteq Items
  /\ InFlight <= Workers

\* the schedule under construction has all its transfers
Complete == mode = "schedule" /\ Assigned(work) = DOMAIN work.transfers

\* what rank r holds at a time: a set of contributor sets
Holds(r, time) ==
  LET at(i) == work.transfers[work.done[i].id]
      into == {i \in DOMAIN work.done : at(i).dst = r}
  IN {req.initial[s] : s \in {x \in DOMAIN req.initial : x[1] = r}}
     \cup {at(i).con : i \in {x \in into : at(x).kind = "SEND" /\ work.done[x].ed <= time}}
     \cup {at(i).con : i \in {x \in into :
             /\ at(x).kind = "REDUCE"
             /\ \E s \in DOMAIN req.nodes[at(x).node].out :
                  s[1] = r /\ req.nodes[at(x).node].out[s] = at(x).con
             /\ \A y \in into : (at(y).kind = "REDUCE" /\ work.done[y].id[1] = work.done[x].id[1])
                                  => work.done[y].ed <= time}}

(* Every reduction tree the models may return passes the ledger of partial *)
(* sums that the conversion from an AllGather keeps: each version of a sum *)
(* is taken once, by a REDUCE that expects exactly it, no contribution is  *)
(* added twice, and the last one at the root holds them all                *)
(* (_routing_aggregate_metadata).                                          *)
SumsTakenOnce == (mode = "schedule" /\ work.done = <<>>) =>
  \A u \in {t[1] : t \in {x \in DOMAIN work.transfers : work.transfers[x].kind = "REDUCE"}} :
    LET ts == [t \in {x \in DOMAIN work.transfers : x[1] = u} |-> work.transfers[t]]
        sums == Aggregated(ts)
    IN sums.ok /\ \E r \in DOMAIN sums.active : \A t \in DOMAIN ts : sums.active[r].con = ts[t].con

(* Whatever routes the models chose, the composed and timed schedule is a  *)
(* correct execution of the collective: when a SEND starts its sender has  *)
(* the value; when a REDUCE starts the sender's accumulator is exactly     *)
(* what is sent, both ranks' inputs have arrived from the stage before,    *)
(* and no other REDUCE is writing either accumulator; and an output is     *)
(* complete once its recorded final dependencies have ended                *)
(* (_compose_schedules, _chain_routing_accumulators).                      *)
Delivers == Complete =>
  LET at(i) == work.transfers[work.done[i].id]
      input(i, r) == UNION {req.nodes[at(i).node].in[s]
                            : s \in {x \in DOMAIN req.nodes[at(i).node].in :
                                       x[1] = r /\ req.nodes[at(i).node].in[x] \subseteq at(i).con}}
      sameTree(i, j) == work.done[i].id[1] = work.done[j].id[1]
  IN /\ \A i \in DOMAIN work.done :
          IF at(i).kind = "SEND" THEN at(i).con \in Holds(at(i).src, work.done[i].st)
          ELSE /\ \A r \in {at(i).src, at(i).dst} : input(i, r) \in Holds(r, work.done[i].st)
               /\ at(i).mem = input(i, at(i).src)
                    \cup UNION {at(j).mem : j \in {x \in DOMAIN work.done : /\ sameTree(x, i)
                                                                      /\ at(x).dst = at(i).src
                                                                      /\ work.done[x].ed <= work.done[i].st}}
               /\ \A j \in DOMAIN work.done \ {i} :
                    (sameTree(i, j) /\ at(j).dst \in {at(i).src, at(i).dst})
                      => work.done[j].ed <= work.done[i].st \/ work.done[i].ed <= work.done[j].st
     /\ \A s \in DOMAIN req.final :
          req.final[s] \in Holds(s[1], Max({0} \cup {EndOf(work, t) : t \in FinalDeps(req, outs, s)}))

(* No lane and no slot of a shared resource is used by two transfers at    *)
(* once, and the recorded waits alone enforce that: starting every         *)
(* transfer when its predecessors have ended, as the retiming after the    *)
(* assignment does, gives back the assigned times.                         *)
ResourcesExclusive == mode = "schedule" =>
  /\ \A j \in DOMAIN work.done : \A i \in 1..(j - 1) :
       (work.done[i].lane = work.done[j].lane \/ work.done[i].slots \cap work.done[j].slots # {})
         => work.done[i].ed <= work.done[j].st
  /\ \A i \in DOMAIN work.done : work.done[i].st = Max({0} \cup {EndOf(work, p) : p \in work.done[i].preds})

(* The lazy heap is exact: the transfer assigned next is the least choice  *)
(* over all ready transfers and all their lanes, although most entries of  *)
(* the heap are out of date ("Increasing resource frontiers and removing a *)
(* chosen transfer only increase a group's key").                          *)
LazyHeapExact ==
  [][Len(work'.done) > Len(work.done) =>
       LET a == Last(work'.done) IN
       \A t \in Ready(work) : \A l \in Lanes(req, work, t) :
         ~Lex(ChoiceKey(req, work, t, l), ChoiceKey(req, work, a.id, a.lane))]_vars

(* A route found for a template's representative is legal for every member *)
(* of the class, on the member's own links and bans, and what the model's  *)
(* constraints admit the extraction accepts, as a tree that may be         *)
(* reversed for a reduction: the member fallback is never needed.          *)
RoutesAccepted ==
  \A w \in DOMAIN patterns : \A u \in ToSet(templates[w[2]]) :
    LET route == Instantiate(req, templates[w[2]][1], u, patterns[w])
    IN RouteAccepted(req, u, route) /\ (Lead(u).dual => DualTreeAccepted(req, u, route))

(* The plan builders never make a plan that PlanDAG would refuse, and they *)
(* decline only what they say: a hierarchical AllReduce whose slices do    *)
(* not divide among the gateways, or a manual hierarchy.                   *)
BuiltPlansAccepted ==
  req.manual = <<>> =>
    /\ result.status # "invalid" /\ (req.search => req.plan = "ok")
    /\ result.status = "refused" => req.hierarchy /\ req.coll = "allreduce"

(* AUTO gives up a throughput search when the larger of two bounds shows   *)
(* that too little could be gained; no schedule the search makes is faster *)
(* than either.  The routes of a schedule are a point of the linear        *)
(* program behind the resource bound, so that its optimum is at most the   *)
(* service time these routes ask of their busiest link or resource         *)
(* (global_throughput_time_lower_bound).                                   *)
BoundHolds == Complete => /\ prep.bound <= Makespan(work)
                          /\ ResourceTime(req, work.transfers) <= Makespan(work)

(* A search that no deadline cut short loses nothing: every channel count  *)
(* is a candidate when all models are feasible.                            *)
UnhurriedSearchComplete ==
  (mode = "ranked" /\ clock < (IF req.strict THEN Second ELSE ModelTimeout)
     /\ clock < deadline /\ (req.strict => ~NoTimeLeft) /\ req.milp
     /\ \A t \in DOMAIN templates : prep.milp[t] # {})
    => \A c \in 1..req.channels : \E x \in cands : x.objective = objective /\ x.channels = c

(* The pool never hangs: whatever its models do, failures and time limits  *)
(* included, a search gets to its compositions or gives up.                *)
SearchEnds == mode = "fill" ~> mode \in {"compose", "ranked", "done"}

(* A call that requires a proof answers only with a schedule that was      *)
(* solved to optimality over an unrestricted search space, by one          *)
(* model for the whole collective, also when the answer comes from the     *)
(* cache (proven_optimal in solve_milp and _combine_node_candidates).      *)
StrictIsProven == (req.strict /\ result.status = "ok") =>
  /\ NodeCount = 1 /\ ~req.shortest
  /\ (strict.node = 1 /\ objective = result.selected.objective)
       => strict.models[<<result.selected.channels, 1>>] = "optimal"

(* The time of a strict call is divided so that every node gets a second   *)
(* or more although shares are whole seconds, as long as the call has      *)
(* time to spare: beyond a second for each node, as much for each of them  *)
(* as is lost between and after the searches.  A call with just a second   *)
(* for each node has none to lose, and ends in an error on the first tick  *)
(* that passes outside a model (node_seconds).                             *)
EveryNodeGetsTime ==
  (mode = "node" /\ strict.node < NodeCount /\ objective = "latency"
     /\ deadline - NodeCount * Second >= NodeCount * Lost)
    => deadline - clock >= (NodeCount - strict.node) * Second

(* A candidate stream that ends because nothing is left has refined every  *)
(* plan of the grammar once, after its coarse model and whatever became of *)
(* that ("The finite coarse batch only sets priority. It never certifies   *)
(* that a later candidate, or a route absent from coarse paths, loses").   *)
StreamExhaustive ==
  LET place(x) == {i \in DOMAIN stream.tried : stream.tried[i] = x} IN
  result.status = "initial_grammar_exhausted" =>
    \A p \in req.first..req.last :
      \E i, j \in DOMAIN stream.tried : /\ i < j /\ place(<<"coarse", p>>) = {i}
                                        /\ place(<<"fine", p>>) = {j}

(* The bounds by which initial_parameter_domain rules out a partition of   *)
(* the payload are necessary: no schedule has a rank that sends or         *)
(* receives less than they assume.                                         *)
PartitionBoundsNecessary == Complete =>
  \A x \in Ranks(req) :
    LET at(i) == work.transfers[work.done[i].id]
        sent == {i \in DOMAIN work.done : at(i).src = x}
        got == {i \in DOMAIN work.done : at(i).dst = x}
    IN /\ Count(req) * Cardinality(sent) >= req.n * MinimumRankWork(req, x)[1]
       /\ Count(req) * Cardinality(got) >= req.n * MinimumRankWork(req, x)[2]

(* Whatever routes the workers found, the composed schedule executes the   *)
(* collective: sums are complete, every value is there when it is used,    *)
(* and no lane or slot is used twice at a time (_compose_schedules,        *)
(* assign_global_resources).                                               *)
ScheduleCorrect == STypeOK /\ SumsTakenOnce /\ Delivers /\ ResourcesExclusive

(* What one stage of the solver produces the next one accepts: plans by    *)
(* PlanDAG, routes by the extraction on every member of their class.       *)
PlansAndRoutesAccepted == RoutesAccepted /\ BuiltPlansAccepted

(* No candidate is lost other than by time: the bounds that rule out       *)
(* partitions and throughput searches are true bounds, every node, channel *)
(* count and plan gets its turn.                                           *)
NothingOverlooked ==
  /\ BoundHolds
  /\ PartitionBoundsNecessary
  /\ UnhurriedSearchComplete
  /\ StreamExhaustive
  /\ EveryNodeGetsTime
=============================================================================
