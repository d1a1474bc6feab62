--------------------------- MODULE NativeSession ---------------------------
(***************************************************************************)
(* The contexts of a group of ranks in the native runtime                  *)
(* (runtime/execution/api.cc, execute_impl.h): vericcl_execute and         *)
(* vericcl_close on a prepared workload.  submit() hands each operation to *)
(* a detached worker thread and waits for it; when the public wait times   *)
(* out the caller is told UNRESOLVED while the worker goes on.             *)
(*                                                                         *)
(* exchange() is an all-rank decision: a worker submits a body for its     *)
(* phase, and learns the bodies of all ranks or finds its control session  *)
(* broken (GroupDecision, implemented by ControlTransport).                *)
(***************************************************************************)
EXTENDS GroupDecision, FiniteSets

CONSTANT MaxRequests     \* bound: execute calls of one rank

ASSUME SessionAssumption == MaxRequests \in Nat /\ MaxSeq \in Nat

Phases == {"REQUEST_PREPARE", "EXECUTE_READY", "EXECUTE_ACK", "START",
           "START_ACK", "EXECUTION_OUTCOME", "COMPLETION_EVIDENCE",
           "COMPLETION_RELEASE"}

(* What one rank contributes to a decision: its request number and whether  *)
(* it reports an error.                                                     *)
SessionBodies == [phase : Phases, request : 1..(MaxRequests + 1), error : BOOLEAN]

VARIABLES
    pc,               \* rank -> the worker's phase, "idle" without a worker
    waiting,          \* ranks whose caller waits for the worker
    busy, uncertain, closed, buffersRetained, requestActive, guard,  \* State
    nextRequest, successes,                                          \* State
    ready, comm, gpuComplete, releaseFailed,                         \* Version
    hardware,         \* ranks whose GPU may still touch the caller's buffers
    launches,         \* rank -> requests whose collective it set out to enqueue
    notEnqueued       \* ranks for which the last of these failed

flags == <<busy, uncertain, closed, buffersRetained, requestActive, guard>>
version == <<ready, comm, gpuComplete, releaseFailed>>
counters == <<nextRequest, successes>>
gpu == <<hardware, launches, notEnqueued>>
nvars == <<gvars, pc, waiting, flags, version, counters, gpu>>

(* The collectives that rank r really has in its stream, or had. *)
Enqueues(r) == launches[r] - (IF r \in notEnqueued THEN 1 ELSE 0)

Identity(r, phase, err) ==
    [phase |-> phase, request |-> nextRequest[r], error |-> err]
-----------------------------------------------------------------------------
NInit ==
    /\ GInit
    /\ pc = [r \in Ranks |-> "idle"]
    /\ waiting = {}
    /\ busy = {} /\ uncertain = {} /\ closed = {}
    /\ buffersRetained = {} /\ requestActive = {} /\ guard = {}
    /\ nextRequest = [r \in Ranks |-> 1]
    /\ successes = [r \in Ranks |-> 0]
    /\ ready = Ranks /\ comm = Ranks /\ gpuComplete = Ranks
    /\ releaseFailed = {}
    /\ hardware = {}
    /\ launches = [r \in Ranks |-> 0]
    /\ notEnqueued = {}

(* submit() accepts an operation. *)
Admit(r) ==
    /\ r \notin closed /\ r \notin busy
    /\ busy' = busy \cup {r}
    /\ waiting' = waiting \cup {r}

(* vericcl_execute: the worker validates, takes the guard and submits       *)
(* REQUEST_PREPARE.  Validation may fail before the guard is taken, or      *)
(* after it (pointer attributes, a stream that does not stop).              *)
Execute(r) ==
    /\ r \notin uncertain
    /\ nextRequest[r] <= MaxRequests
    /\ Len(submitted[r]) + Cardinality(Phases) <= MaxSeq
    /\ Admit(r)
    /\ LET runnable == /\ r \in ready /\ r \in comm /\ r \in gpuComplete
                       /\ r \notin requestActive /\ r \notin guard
       IN  \E taken, err \in BOOLEAN :
               /\ taken => runnable
               /\ ~taken => err
               /\ guard' = IF taken THEN guard \cup {r} ELSE guard
               /\ buffersRetained' = IF taken THEN buffersRetained \cup {r}
                                     ELSE buffersRetained
               /\ Submit(r, Identity(r, "REQUEST_PREPARE", err))
    /\ pc' = [pc EXCEPT ![r] = "REQUEST_PREPARE"]
    /\ UNCHANGED <<uncertain, closed, requestActive, version, counters, gpu>>

(* The end of the worker in submit(): a failure is UNRESOLVED when buffers, *)
(* a request or a broken control session are left behind.                   *)
MutantLeftBehind(r) == r \in buffersRetained \/ r \in requestActive

LeftBehind(r) == r \in buffersRetained \/ r \in requestActive \/ r \in unresolved'

Fail(r) ==
    /\ pc' = [pc EXCEPT ![r] = "idle"]
    /\ busy' = busy \ {r}
    /\ uncertain' = IF LeftBehind(r) THEN uncertain \cup {r} ELSE uncertain
    /\ waiting' = waiting \ {r}
    /\ UNCHANGED <<closed, buffersRetained, requestActive, guard, version,
                   counters, gpu>>

(* The public deadline passes first: ownership stays with the worker. *)
PublicTimeout(r) ==
    /\ r \in waiting
    /\ waiting' = waiting \ {r}
    /\ uncertain' = uncertain \cup {r}
    /\ UNCHANGED <<gvars, pc, busy, closed, buffersRetained, requestActive,
                   guard, version, counters, gpu>>

(* exchange() returned decision learned[r] + 1; unanimous() inspects it. *)
Decision(r) == decisions[learned[r] + 1]

Unanimous(r) == \A q \in Ranks : /\ ~Decision(r)[q].error
                                 /\ Decision(r)[q].request = nextRequest[r]

(* The exchange of phase returned unanimously and the worker goes on to     *)
(* exchange the next one with body b.  Learning and submitting are one      *)
(* step: nothing but the worker touches the session in between.             *)
Advance(r, phase, b) ==
    /\ pc[r] = phase
    /\ r \notin unresolved
    /\ learned[r] < Len(submitted[r]) /\ learned[r] < Len(decisions)
    /\ Unanimous(r)
    /\ Len(submitted[r]) < MaxSeq
    /\ learned' = [learned EXCEPT ![r] = @ + 1]
    /\ submitted' = [submitted EXCEPT ![r] = Append(@, b)]
    /\ pc' = [pc EXCEPT ![r] = b.phase]
    /\ UNCHANGED <<decisions, unresolved>>

RequestPrepared(r) ==
    /\ Advance(r, "REQUEST_PREPARE", Identity(r, "EXECUTE_READY", FALSE))
    /\ requestActive' = requestActive \cup {r}
    /\ buffersRetained' = buffersRetained \cup {r}
    /\ UNCHANGED <<waiting, busy, uncertain, closed, guard, version,
                   counters, gpu>>

ExecuteReady(r) ==
    /\ Advance(r, "EXECUTE_READY", Identity(r, "EXECUTE_ACK", FALSE))
    /\ UNCHANGED <<waiting, flags, version, counters, gpu>>

ExecuteAck(r) ==
    /\ Advance(r, "EXECUTE_ACK", Identity(r, "START", FALSE))
    /\ UNCHANGED <<waiting, flags, version, counters, gpu>>

Start(r) ==
    /\ Advance(r, "START", Identity(r, "START_ACK", FALSE))
    /\ UNCHANGED <<waiting, flags, version, counters, gpu>>

(* START_ACK returned: the collective is enqueued. *)
Launch(r) ==
    /\ pc[r] = "START_ACK"
    /\ Learn(r)
    /\ Unanimous(r)
    /\ pc' = [pc EXCEPT ![r] = "GPU"]
    /\ gpuComplete' = gpuComplete \ {r}
    /\ hardware' = hardware \cup {r}
    /\ launches' = [launches EXCEPT ![r] = @ + 1]
    /\ UNCHANGED <<waiting, flags, ready, comm, releaseFailed, counters, notEnqueued>>

(* START_ACK returned, and recording the first event or enqueueing the      *)
(* collective fails: nothing is in the stream, and the error is exchanged   *)
(* as the outcome.                                                          *)
LaunchFails(r) ==
    /\ Advance(r, "START_ACK", Identity(r, "EXECUTION_OUTCOME", TRUE))
    /\ gpuComplete' = gpuComplete \ {r}
    /\ launches' = [launches EXCEPT ![r] = @ + 1]
    /\ notEnqueued' = notEnqueued \cup {r}
    /\ UNCHANGED <<waiting, flags, ready, comm, releaseFailed, counters, hardware>>

(* External: a collective completes once every rank has enqueued it. *)
GpuFinishes(r) ==
    /\ r \in hardware
    /\ \A q \in Ranks : Enqueues(q) >= Enqueues(r)
    /\ hardware' = hardware \ {r}
    /\ UNCHANGED <<gvars, pc, waiting, flags, version, counters, launches,
                   notEnqueued>>

(* A wait for the GPU without a deadline. *)
MutantWaitForever(r) ==
    /\ pc[r] = "GPU" /\ r \notin hardware
    /\ gpuComplete' = gpuComplete \cup {r}
    /\ Submit(r, Identity(r, "EXECUTION_OUTCOME", FALSE))
    /\ pc' = [pc EXCEPT ![r] = "EXECUTION_OUTCOME"]
    /\ UNCHANGED <<waiting, flags, ready, comm, releaseFailed, counters, gpu>>

(* wait_event sees completion, or recording the last event fails, or the    *)
(* attempt's deadline or an asynchronous error ends the wait, or reading    *)
(* the elapsed time fails after completion; in any case the outcome is      *)
(* exchanged.                                                               *)
ReportOutcome(r) ==
    /\ pc[r] = "GPU"
    /\ \E err, seen \in BOOLEAN :
           /\ err \/ seen
           /\ seen => r \notin hardware
           /\ gpuComplete' = IF seen THEN gpuComplete \cup {r} ELSE gpuComplete
           /\ Submit(r, Identity(r, "EXECUTION_OUTCOME", err))
    /\ pc' = [pc EXCEPT ![r] = "EXECUTION_OUTCOME"]
    /\ UNCHANGED <<waiting, flags, ready, comm, releaseFailed, counters, gpu>>

(* All ranks completed: the evidence file is written, or fails to be. *)
WriteEvidence(r) ==
    /\ \E err \in BOOLEAN : Advance(r, "EXECUTION_OUTCOME",
                                    Identity(r, "COMPLETION_EVIDENCE", err))
    /\ UNCHANGED <<waiting, flags, version, counters, gpu>>

(* The guard waits once more for the stream and is dropped. *)
ReleaseGuard(r) ==
    /\ \E err \in BOOLEAN :
           /\ Advance(r, "COMPLETION_EVIDENCE",
                      Identity(r, "COMPLETION_RELEASE", err))
           /\ ~err => r \notin hardware
           /\ guard' = IF err THEN guard ELSE guard \ {r}
    /\ UNCHANGED <<waiting, busy, uncertain, closed, buffersRetained,
                   requestActive, version, counters, gpu>>

Succeed(r) ==
    /\ pc[r] = "COMPLETION_RELEASE"
    /\ Learn(r)
    /\ Unanimous(r)
    /\ successes' = [successes EXCEPT ![r] = @ + 1]
    /\ nextRequest' = [nextRequest EXCEPT ![r] = @ + 1]
    /\ requestActive' = requestActive \ {r}
    /\ buffersRetained' = buffersRetained \ {r}
    /\ pc' = [pc EXCEPT ![r] = "idle"]
    /\ busy' = busy \ {r}
    /\ waiting' = waiting \ {r}
    /\ UNCHANGED <<uncertain, closed, guard, version, gpu>>

(* A decision that is not unanimous ends the worker.  START and START_ACK   *)
(* carry no error, and the identity they repeat was agreed before.          *)
Rejected(r) ==
    /\ pc[r] \in Phases \ {"START", "START_ACK"}
    /\ Learn(r)
    /\ ~Unanimous(r)
    /\ Fail(r)

(* The control session breaks.  A failed START or START_ACK is caught, but  *)
(* the exchange of the outcome that follows it fails on the broken session. *)
SessionBroken(r) ==
    /\ pc[r] \in Phases
    /\ Break(r)
    /\ Fail(r)

(* vericcl_close: allowed on an uncertain context, once no worker runs. *)
Close(r) ==
    /\ Admit(r)
    /\ pc' = [pc EXCEPT ![r] = "CLOSE"]
    /\ UNCHANGED <<gvars, uncertain, closed, buffersRetained,
                   requestActive, guard, version, counters, gpu>>

(* stop_schedule aborts the communicator and waits for the stream. *)
MutantNeedsStop(r) == FALSE
NeedsStop(r) == r \notin gpuComplete \/ (r \in uncertain /\ r \in comm)

Stopped(r) ==
    /\ hardware' = IF NeedsStop(r) THEN hardware \ {r} ELSE hardware
    /\ gpuComplete' = IF NeedsStop(r) THEN gpuComplete \cup {r} ELSE gpuComplete

CloseSucceeds(r) ==
    /\ pc[r] = "CLOSE"
    /\ r \notin releaseFailed
    /\ Stopped(r)
    /\ ready' = IF NeedsStop(r) THEN ready \ {r} ELSE ready
    /\ comm' = comm \ {r}
    /\ guard' = guard \ {r}
    /\ closed' = closed \cup {r}
    /\ buffersRetained' = buffersRetained \ {r}
    /\ requestActive' = requestActive \ {r}
    /\ pc' = [pc EXCEPT ![r] = "idle"]
    /\ busy' = busy \ {r}
    /\ waiting' = waiting \ {r}
    /\ UNCHANGED <<gvars, uncertain, releaseFailed, counters, launches, notEnqueued>>

(* close() throws: an earlier release failed; or the stream does not stop   *)
(* in time; or destroying the communicator or an event of it fails, which   *)
(* is final; or the communicator is gone but the deadline is over.          *)
CloseThrows(r) ==
    \/ /\ \/ r \in releaseFailed
          \/ NeedsStop(r)
       /\ UNCHANGED <<version, hardware>>
    \/ /\ r \notin releaseFailed
       /\ Stopped(r)
       /\ \E gone, failed \in BOOLEAN :
              /\ ~gone => failed /\ r \in comm
              /\ comm' = IF gone THEN comm \ {r} ELSE comm
              /\ ready' = IF gone /\ NeedsStop(r) THEN ready \ {r} ELSE ready
              /\ releaseFailed' = IF failed THEN releaseFailed \cup {r}
                                  ELSE releaseFailed

CloseFails(r) ==
    /\ pc[r] = "CLOSE"
    /\ CloseThrows(r)
    /\ pc' = [pc EXCEPT ![r] = "idle"]
    /\ busy' = busy \ {r}
    /\ UNCHANGED gvars
    /\ uncertain' = IF LeftBehind(r) THEN uncertain \cup {r} ELSE uncertain
    /\ waiting' = waiting \ {r}
    /\ UNCHANGED <<closed, buffersRetained, requestActive, guard, counters,
                   launches, notEnqueued>>

WorkerStep(r) ==
    \/ RequestPrepared(r) \/ ExecuteReady(r) \/ ExecuteAck(r)
    \/ Start(r) \/ Launch(r) \/ LaunchFails(r) \/ ReportOutcome(r)
    \/ WriteEvidence(r) \/ ReleaseGuard(r) \/ Succeed(r)
    \/ Rejected(r) \/ SessionBroken(r)
    \/ CloseSucceeds(r) \/ CloseFails(r)

NNext ==
    \/ Decide /\ UNCHANGED <<pc, waiting, flags, version, counters, gpu>>
    \/ \E r \in Ranks : \/ Execute(r) \/ Close(r) \/ PublicTimeout(r)
                        \/ GpuFinishes(r)
                        \/ WorkerStep(r)

NSpec == NInit /\ [][NNext]_nvars

(* Worker threads run; every exchange and every wait has a deadline. *)
FairNSpec == NSpec /\ \A r \in Ranks : WF_nvars(WorkerStep(r))
-----------------------------------------------------------------------------
(* Every variable has its type. *)
NTypeOK ==
    /\ pc \in [Ranks -> Phases \cup {"idle", "GPU", "CLOSE"}]
    /\ waiting \subseteq busy
    /\ busy \subseteq Ranks /\ uncertain \subseteq Ranks /\ closed \subseteq Ranks
    /\ buffersRetained \subseteq Ranks /\ requestActive \subseteq Ranks
    /\ guard \subseteq Ranks /\ ready \subseteq Ranks /\ comm \subseteq Ranks
    /\ gpuComplete \subseteq Ranks /\ releaseFailed \subseteq Ranks
    /\ hardware \subseteq Ranks /\ notEnqueued \subseteq Ranks
    /\ nextRequest \in [Ranks -> 1..(MaxRequests + 1)]
    /\ successes \in [Ranks -> 0..MaxRequests]
    /\ launches \in [Ranks -> 0..MaxRequests]

(* vericcl.h: enqueue is never reported as logical success.  A request that *)
(* succeeded anywhere was completed by the GPU of every rank.               *)
SuccessIsGroupWide ==
    \A r, q \in Ranks :
        /\ successes[r] <= Enqueues(q)
        /\ q \in hardware => successes[r] < Enqueues(q)

(* vericcl.h: the caller's buffers are never given back while the GPU may   *)
(* touch them: neither by status, nor by an error, nor by close.            *)
BuffersHeldWhileGpuRuns ==
    \A r \in hardware : r \in buffersRetained /\ r \in guard /\ r \notin closed

(* No rank enqueues a collective before every peer has committed itself to  *)
(* the same request: a peer that has not enqueued it has nothing left to    *)
(* learn but the last acknowledgement, or lost its control session, or      *)
(* failed to enqueue it.  In the last case it says so in its outcome or its *)
(* context is uncertain, so that it enqueues nothing any more.              *)
StartTogether ==
    /\ \A r, q \in Ranks :
           /\ Enqueues(r) <= Enqueues(q) + 1
           /\ Enqueues(r) > Enqueues(q) =>
                  pc[q] = "START_ACK" \/ q \in unresolved \/ q \in notEnqueued
    /\ \A q \in notEnqueued : pc[q] = "EXECUTION_OUTCOME" \/ q \in uncertain

(* Ranks that neither work nor are uncertain agree on what has succeeded:   *)
(* a failure that leaves the group divided is never reported as a plain     *)
(* rejection on both sides.                                                 *)
NoSilentDivergence ==
    \A r, q \in Ranks \ uncertain :
        pc[r] = "idle" /\ pc[q] = "idle" =>
            successes[r] = successes[q] /\ learned[r] = learned[q]

(* The ranks of a group move together: no launch before every peer is       *)
(* committed, no success before every GPU completed, also when one of them  *)
(* fails to enqueue, and no two ranks that part without one of them knowing *)
(* (execute_until, submit).                                                 *)
GroupInStep == NTypeOK /\ StartTogether /\ SuccessIsGroupWide /\ NoSilentDivergence

(* Every operation ends, also one whose peer never enqueues its part of the *)
(* collective.                                                              *)
OperationsEnd == \A r \in Ranks : []<>(r \notin busy)

=============================================================================
