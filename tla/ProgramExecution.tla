--------------------------- MODULE ProgramExecution ---------------------------
(***************************************************************************)
(* A schedule from its lowering to its execution: lower_and_check builds   *)
(* the storage plan and the native program, evaluate_program admits or     *)
(* refuses it (also a program read back from a sidecar that somebody       *)
(* edited, check_xml_bundle), and the GPUs run the thread blocks of an     *)
(* admitted program, each at its own pace.                                 *)
(***************************************************************************)
EXTENDS LegacyLowering

CONSTANTS Requests,    \* the requests with their candidates
          FifoSlots,   \* slices a connection buffers, at least one (simple_payload_capacity)
          Durations    \* predicted durations of an operation, in ticks

ASSUME ExecutionAssumption ==
  FifoSlots \in Nat \ {0} /\ Durations \subseteq Nat \ {0} /\ Durations # {}

VARIABLES req, plan, prog,
          phase,       \* "request", "lowered", "failed", "refused", "running"
          edited,      \* the program is not the one lower_program returned
          pc, busy,    \* per block: next step, and whether it is under way
          mem,         \* contents of every memory region
          fifo         \* slices in flight per connection <<from, to, channel>>

gpu == <<pc, busy, mem, fifo>>
vars == <<req, plan, prog, phase, edited, gpu>>

Init ==
  /\ req \in Requests
  /\ phase = "request" /\ edited = FALSE
  /\ plan = <<>> /\ prog = <<>>
  /\ pc = <<>> /\ busy = {} /\ mem = <<>> /\ fifo = <<>>

(* lower_and_check up to evaluate_program *)
Lower ==
  /\ phase = "request" /\ req.path = "v5"
  /\ \E p \in {StoragePlan(req)} :
       \E l \in {IF p.ok THEN LowerProgram(req, p) ELSE [ok |-> FALSE]} :
         IF l.ok THEN plan' = p /\ prog' = l.blocks /\ phase' = "lowered"
                 ELSE phase' = "failed" /\ UNCHANGED <<plan, prog>>
  /\ UNCHANGED <<req, edited, gpu>>

(* lower_candidate of the legacy path, its checks before and during the    *)
(* lowering included.                                                      *)
LowerLegacy ==
  /\ phase = "request" /\ req.path = "legacy"
  /\ \E l \in {LowerToXml(req)} :
        IF l.ok THEN plan' = l.plan /\ prog' = l.blocks /\ phase' = "lowered"
                ELSE phase' = "failed" /\ UNCHANGED <<plan, prog>>
  /\ UNCHANGED <<req, edited, gpu>>

(* A sidecar read back for check_xml_bundle: one wait moved or dropped, or *)
(* two neighbouring steps of a block exchanged.                            *)
Edit ==
  /\ phase = "lowered" /\ req.path = "v5" /\ ~edited
  /\ \/ \E x \in Steps(prog) : \E t \in {<<>>} \cup {y \in Work(prog) : y[1][1] = x[1][1]} :
          prog' = [prog EXCEPT ![x[1]][x[2]].wait = t]
     \/ \E x \in Steps(prog) :
          /\ x[2] < Len(prog[x[1]])
          /\ prog' = [prog EXCEPT ![x[1]][x[2]] = prog[x[1]][x[2] + 1],
                                  ![x[1]][x[2] + 1] = prog[x[1]][x[2]]]
  /\ prog' # prog /\ edited' = TRUE
  /\ UNCHANGED <<req, plan, phase, gpu>>

(* The static dimensions of can_execute: deadlock, endpoint and launch. *)
Sound ==
  /\ NoDeadlock(prog)
  /\ BindingsValid(req, plan, prog)
  /\ Launchable(req, plan, prog)

(* The semantic dimension, on the timeline of one cost model: a service    *)
(* time for each rank an operation writes to (cost_key).                   *)
Replayed(cost) ==
  ReplayValid(req, plan, ExecDeps(prog),
              [o \in OpsOf(prog) |-> cost[OpById(plan.instr, o).rank]])

Connections == {<<k[1], k[3], k[4]>> : k \in {b \in DOMAIN prog : \E i \in DOMAIN prog[b] : prog[b][i].kind = "s"}}
Regions == {Region(req, plan.addr[v]) : v \in DOMAIN plan.addr}
\* what an input buffer holds; everything else is garbage
InitialData(r) == LET held == {v \in DOMAIN plan.addr : v[1] = "in" /\ Region(req, plan.addr[v]) = r}
                  IN UNION {plan.data[v] : v \in held}

(* evaluate_program, and the launch of what it admits *)
Check ==
  /\ phase = "lowered"
  /\ \/ /\ req.path = "v5" /\ Sound
        /\ \E cost \in [Ranks(req) -> Durations] :
             phase' = IF Replayed(cost) THEN "running" ELSE "refused"
     \/ req.path = "v5" /\ ~Sound /\ phase' = "refused"
     \/ /\ req.path = "legacy"
        /\ phase' = IF Launchable(req, plan, prog) THEN "running" ELSE "refused"
  /\ IF phase' = "running"
     THEN /\ pc' = [k \in DOMAIN prog |-> 1] /\ busy' = {}
          /\ mem' = [r \in Regions |-> InitialData(r)]
          /\ fifo' = [c \in Connections |-> <<>>]
     ELSE UNCHANGED gpu
  /\ UNCHANGED <<req, plan, prog, edited>>

-----------------------------------------------------------------------------
(* The MSCCL interpreter *)

Current(k) == prog[k][pc[k]]
Unfinished(k) == pc[k] <= Len(prog[k])
\* a published step of another block has completed
WaitOver(w) == w # <<>> => pc[w[1]] > w[2] /\ At2(prog, w).pub
Out(k) == <<k[1], k[3], k[4]>>
In(k) == <<k[3], k[1], k[4]>>

Ready(k) ==
  /\ Unfinished(k) /\ k \notin busy
  /\ WaitOver(Current(k).wait)
  /\ Current(k).kind = "s" => Len(fifo[Out(k)]) < FifoSlots
  /\ Current(k).kind \in {"r", "rrc"} => In(k) \in DOMAIN fifo /\ fifo[In(k)] # <<>>

Begin(k) ==
  /\ phase = "running" /\ Ready(k)
  /\ IF Current(k).kind = "nop"
     THEN pc' = [pc EXCEPT ![k] = @ + 1] /\ UNCHANGED busy
     ELSE busy' = busy \cup {k} /\ UNCHANGED pc
  /\ UNCHANGED <<req, plan, prog, phase, edited, mem, fifo>>

Finish(k) ==
  /\ phase = "running" /\ k \in busy
  /\ LET s == Current(k)
         src == mem[Region(req, s.src)]
         dst == Region(req, s.dst)
     IN \/ /\ s.kind = "s" /\ fifo' = [fifo EXCEPT ![Out(k)] = Append(@, src)]
           /\ UNCHANGED mem
        \/ /\ s.kind = "r" /\ mem' = [mem EXCEPT ![dst] = Head(fifo[In(k)])]
           /\ fifo' = [fifo EXCEPT ![In(k)] = Tail(@)]
        \/ /\ s.kind = "rrc" /\ mem' = [mem EXCEPT ![dst] = Head(fifo[In(k)]) \cup src]
           /\ fifo' = [fifo EXCEPT ![In(k)] = Tail(@)]
        \/ /\ s.kind = "cpy" /\ mem' = [mem EXCEPT ![dst] = src]
           /\ UNCHANGED fifo
  /\ pc' = [pc EXCEPT ![k] = @ + 1] /\ busy' = busy \ {k}
  /\ UNCHANGED <<req, plan, prog, phase, edited>>

Finished == phase = "running" /\ \A k \in DOMAIN prog : ~Unfinished(k)

Step == \E k \in DOMAIN prog : Begin(k) \/ Finish(k)
Next == Lower \/ LowerLegacy \/ Edit \/ Check \/ Step

\* the GPUs keep running: some block that can take a step takes it
Spec == Init /\ [][Next]_vars /\ WF_vars(Step)

-----------------------------------------------------------------------------
TypeOK ==
  /\ req \in Requests
  /\ phase \in {"request", "lowered", "failed", "refused", "running"}
  /\ edited \in BOOLEAN /\ busy \subseteq DOMAIN prog
  /\ phase \in {"lowered", "running"} => \A r \in Ranks(req) : plan.scratch[r] <= req.scratch
  /\ phase = "running" =>
       /\ \A k \in DOMAIN prog : pc[k] \in 1..(Len(prog[k]) + 1)
       /\ \A c \in DOMAIN fifo : Len(fifo[c]) <= FifoSlots

Touches(k) == LET s == Current(k)
              IN [reads |-> IF s.kind \in {"s", "rrc", "cpy"} THEN {Region(req, s.src)} ELSE {},
                  writes |-> IF s.kind \in {"r", "rrc", "cpy"} THEN {Region(req, s.dst)} ELSE {}]

(* No GPU writes memory that another of its thread blocks is reading or    *)
(* writing: the waits lower_program leaves after its reduction, and the    *)
(* ones the checks demand of an edited program, order every pair of        *)
(* conflicting steps, in place and with reused scratch too.                *)
RaceFree ==
  \A k, l \in busy : k # l /\ k[1] = l[1] =>
    Touches(k).writes \cap (Touches(l).reads \cup Touches(l).writes) = {}

(* A step that reads memory finds the state the storage plan bound there,  *)
(* whatever order the blocks of the GPUs ran in.                           *)
ReadsPlannedState ==
  \A k \in busy :
    LET op == OpById(plan.instr, Current(k).op)
        v == IF Current(k).kind = "rrc" THEN op.reads[2] ELSE op.reads[1]
    IN Touches(k).reads # {} => mem[Region(req, Current(k).src)] = plan.data[v]

(* When every block has ended, each output slot holds exactly the          *)
(* contributions the collective asks for.                                  *)
OutputsComputed ==
  Finished => \A s \in DOMAIN RequiredOutputs(req) :
    mem[Region(req, <<s[1], "o", s[2]>>)] = RequiredOutputs(req)[s]

(* The checks refuse nothing the lowering itself produced, except for the  *)
(* tables of a launch, which it does not count: the waits it removed as    *)
(* redundant are really implied, and its scratch is within the limit.      *)
LoweredIsAdmitted ==
  phase = "refused" /\ ~edited => ~WithinTables(req, prog)

(* A program the static deadlock check admits runs to its end, with the    *)
(* smallest connection buffers the launch check allows.                    *)
AdmittedFinishes == (phase = "running") ~> Finished

(* A legacy schedule the checks before lowering admit never stalls in the  *)
(* simulator: the order of the queues (link and channel) and the           *)
(* predecessors it waits for have no cycle.                                *)
AdmittedSimulates ==
  req.path = "legacy" /\ phase \in {"lowered", "running"} => Simulated(req) = Ids(req)

(* An admitted program computes the collective without a data race,        *)
(* whatever order the thread blocks of the GPUs run in.                    *)
ExecutesCorrectly == TypeOK /\ RaceFree /\ OutputsComputed

(* The checks before a launch agree with the lowerings: they refuse        *)
(* nothing sound that was lowered, and admit nothing that would stall.     *)
AdmissionSound == LoweredIsAdmitted /\ AdmittedSimulates
===============================================================================
