---------------------------- MODULE GlobalScheduler ----------------------------
(***************************************************************************)
(* solver/global_scheduler.py: lanes, shared resource slots and times for  *)
(* the composed transfers.  A scheduling state x holds the channel count   *)
(* k, the transfers, the assignments done so far in order, and the queue,  *)
(* which maps a lane to the key of its one valid heap entry.  Frontiers    *)
(* move on and entries go stale, and an entry is only trusted when the     *)
(* key recomputed at the pop is the one it was pushed with.                *)
(***************************************************************************)
EXTENDS RouteSynthesis

CONSTANT None

Lanes(req, x, t) ==
  LET y == x.transfers[t]
  IN {<<y.src, y.dst, c>> : c \in 0..(Min({x.k, req.links[<<y.src, y.dst>>].max}) - 1)}

Assigned(x) == {x.done[i].id : i \in DOMAIN x.done}
EndOf(x, t) == LET i == CHOOSE j \in DOMAIN x.done : x.done[j].id = t IN x.done[i].ed

\* transfers whose semantic predecessors are all assigned
Ready(x) == {t \in DOMAIN x.transfers \ Assigned(x) : x.transfers[t].preds \subseteq Assigned(x)}

\* lane_last, resource_last: the last assignment that uses what P tests
LastUser(x, P(_)) ==
  LET S == {i \in DOMAIN x.done : P(x.done[i])} IN IF S = {} THEN {} ELSE {x.done[Max(S)]}
FreeAt(users) == Max({0} \cup {a.ed : a \in users})

LaneUser(x, lane) == LastUser(x, LAMBDA a : a.lane = lane)
SlotUser(x, slot) == LastUser(x, LAMBDA a : slot \in a.slots)

\* _resource_slot_counts
Slots(req, x, r) == {<<r, c>> : c \in 0..(Min({x.k, req.resources[r].max}) - 1)}

(* _earliest_resource_slots: the earliest start, and for every resource    *)
(* the first slot free by then.                                            *)
EarliestStart(req, x, lane, release) ==
  Max({release, FreeAt(LaneUser(x, lane))}
      \cup {Min({FreeAt(SlotUser(x, s)) : s \in Slots(req, x, r)})
            : r \in req.links[<<lane[1], lane[2]>>].res})

SlotsAt(req, x, lane, start) ==
  {CHOOSE s \in Slots(req, x, r) :
     /\ FreeAt(SlotUser(x, s)) <= start
     /\ \A o \in Slots(req, x, r) : o[2] < s[2] => FreeAt(SlotUser(x, o)) > start
   : r \in req.links[<<lane[1], lane[2]>>].res}

Release(x, t) == Max({0} \cup {EndOf(x, p) : p \in x.transfers[t].preds})

(* remaining_path: the longest way from the start of a transfer to the end *)
(* of all that waits for it.                                               *)
RemainingPath(req, channels, transfers) ==
  LET after(t) == {s \in DOMAIN transfers : t \in transfers[s].preds}
      cost(t) == Duration(req, <<transfers[t].src, transfers[t].dst>>, channels)
      path[t \in DOMAIN transfers] == cost(t) + Max({0} \cup {path[s] : s \in after(t)})
  IN path

(* The order of choices: earliest end first, then the tail of add_ready    *)
(* and the channel; under the event policy of the hierarchical planner the *)
(* earliest start, then the longest way to go.  Route priorities are not   *)
(* modelled.                                                               *)
ChoiceKey(req, x, t, lane) ==
  LET y == x.transfers[t]
      release == Release(x, t)
      start == EarliestStart(req, x, lane, release)
  IN IF req.search THEN <<start, -x.path[t], release, y.stage, y.pos>> \o t \o <<lane[3]>>
     ELSE <<start + Duration(req, <<y.src, y.dst>>, x.k), release, y.stage, y.pos, y.src, y.dst>>
            \o t \o <<lane[3]>>

(* _ReadyGroup.candidate: the least key among the lane's ready transfers.  *)
LeastKey(key) ==
  LET best == CHOOSE t \in DOMAIN key : \A o \in DOMAIN key : ~Lex(key[o], key[t])
  IN IF DOMAIN key = {} THEN None ELSE [id |-> best, key |-> key[best]]
Candidate(req, x, lane) ==
  LeastKey([t \in {y \in Ready(x) : lane \in Lanes(req, x, y)} |-> ChoiceKey(req, x, t, lane)])

\* heappush of the lanes' new versions, which invalidates their older entries
Pushed(x, new) ==
  LET kept == (DOMAIN x.queue \ DOMAIN new) \cup {l \in DOMAIN new : new[l] # None}
  IN [x EXCEPT !.queue = [l \in kept |-> IF l \in DOMAIN new THEN new[l].key ELSE x.queue[l]]]
Enqueue(req, x, lanes) == Pushed(x, [l \in lanes |-> Candidate(req, x, l)])

(* assign_global_resources up to its loop. *)
InitialState(req, channels, transfers) ==
  LET x == [k |-> channels, transfers |-> transfers, done |-> <<>>, queue |-> [l \in {} |-> <<>>],
            path |-> IF req.search THEN RemainingPath(req, channels, transfers) ELSE [t \in {} |-> 0]]
  IN Enqueue(req, x, UNION {Lanes(req, x, t) : t \in Ready(x)})

\* the heap's first entry
Least(x, lane) == \A l \in DOMAIN x.queue : ~Lex(x.queue[l], x.queue[lane])

(* Variant: a popped entry is not checked against the frontiers. *)
AlwaysCurrent(req, x, lane) == Candidate(req, x, lane) # None

\* the entry's key is still that of the lane's best transfer
Current(req, x, lane) == \E c \in {Candidate(req, x, lane)} : c # None /\ c.key = x.queue[lane]

(* A popped entry that is still current: the transfer gets the lane, its   *)
(* slots and times, and waits for their last users as well as for its      *)
(* semantic predecessors; the lane and those of the transfers this makes   *)
(* ready are enqueued.                                                     *)
Assignment(req, x, lane, t, start, slots) ==
  [id |-> t, lane |-> lane, slots |-> slots, st |-> start,
   ed |-> start + Duration(req, <<lane[1], lane[2]>>, x.k),
   preds |-> x.transfers[t].preds
             \cup {a.id : a \in LaneUser(x, lane) \cup UNION {SlotUser(x, s) : s \in slots}}]
WithAssignment(req, x, a) ==
  LET after == [x EXCEPT !.done = Append(@, a)]
  IN Enqueue(req, after, {a.lane} \cup UNION {Lanes(req, x, f) : f \in Ready(after) \ Ready(x)})
AssignFrom(req, x, lane, t, start) ==
  WithAssignment(req, x, Assignment(req, x, lane, t, start, SlotsAt(req, x, lane, start)))
AssignTransfer(req, x, lane, t) == AssignFrom(req, x, lane, t, EarliestStart(req, x, lane, Release(x, t)))
AssignAt(req, x, lane) == AssignTransfer(req, x, lane, Candidate(req, x, lane).id)

Makespan(x) == Max({0} \cup {x.done[i].ed : i \in DOMAIN x.done})
=============================================================================
