-------------------------- MODULE NativeJob_proofs --------------------------
(***************************************************************************)
(* Proofs about a native job: the session of its ranks, and the process    *)
(* group it runs in.                                                       *)
(*                                                                         *)
(* NativeSession, for any number of ranks and requests.  A rank submits    *)
(* one body for each decision it learned and at most one more, and a       *)
(* decision needs a body of every rank; so no rank is more than one        *)
(* decision behind another.  What a rank has enqueued and completed        *)
(* depends only on the decisions it learned: two ranks that learned the    *)
(* same ones agree, and two that are one apart differ by what the last     *)
(* decision says.                                                          *)
(*                                                                         *)
(* OwnedProcess, for any number of processes.  An owned process group is   *)
(* never signalled after its identity is gone, and whoever acts on the end *)
(* of a job leaves behind only processes that the deciding scan of /proc   *)
(* cannot have listed.  Both hold whatever the job does.                   *)
(***************************************************************************)
EXTENDS NativeSession, OwnedProcess, TLAPS

Early == {"REQUEST_PREPARE", "EXECUTE_READY", "EXECUTE_ACK", "START", "START_ACK"}
Late == {"EXECUTION_OUTCOME", "COMPLETION_EVIDENCE", "COMPLETION_RELEASE"}

(* The bodies submitted, the decisions and how far each rank has learned. *)
HistoryTypes ==
    /\ submitted \in [Ranks -> Seq(SessionBodies)]
    /\ decisions \in Seq([Ranks -> SessionBodies])
    /\ learned \in [Ranks -> Nat]
    /\ unresolved \in SUBSET Ranks

OneAhead ==
    \A r \in Ranks :
        /\ learned[r] <= Len(submitted[r]) /\ Len(submitted[r]) <= learned[r] + 1
        /\ learned[r] <= Len(decisions) /\ Len(decisions) <= Len(submitted[r])

DecidedBySubmission ==
    \A k \in 1..Len(decisions) : \A r \in Ranks :
        /\ decisions[k][r] = submitted[r][k]
        /\ \A q \in Ranks : decisions[k][r].phase = decisions[k][q].phase

HistoryInv == OneAhead /\ DecidedBySubmission

(* The body a rank submitted and has not learned the decision of. *)
Pending(r) == Len(submitted[r]) = learned[r] + 1
Last(r) == submitted[r][learned[r] + 1]

(* A rank with a pending body waits for it, unless its session is broken;   *)
(* the body tells how far the request has come and what the rank vouches    *)
(* for with it.                                                             *)
PendingOK(r) ==
    /\ Pending(r) <=> pc[r] \in Phases \/ r \in unresolved
    /\ r \in unresolved => pc[r] \in {"idle", "CLOSE"} /\ r \in uncertain
    /\ Pending(r) =>
           /\ r \notin unresolved => pc[r] = Last(r).phase
           /\ Last(r).phase \in Early => launches[r] = successes[r]
           /\ Last(r).phase \in Late => launches[r] = successes[r] + 1
           /\ Last(r).phase = "COMPLETION_RELEASE" /\ ~Last(r).error =>
                  r \notin hardware
           /\ pc[r] = "REQUEST_PREPARE" /\ ~Last(r).error =>
                  r \in guard /\ r \in buffersRetained

(* What the flags of a context say of its worker and its GPU. *)
FlagsOK(r) ==
    /\ r \in busy <=> pc[r] # "idle"
    /\ r \in closed => pc[r] = "idle"
    /\ pc[r] \in (Phases \cup {"GPU"}) \ {"REQUEST_PREPARE", "COMPLETION_RELEASE"} =>
           r \in guard /\ r \in buffersRetained
    /\ pc[r] = "COMPLETION_RELEASE" => r \in buffersRetained
    /\ r \in hardware => /\ r \notin gpuComplete /\ launches[r] = successes[r] + 1
                         /\ r \in guard /\ r \in buffersRetained /\ r \notin closed

(* The counters of a context: a request is enqueued once. *)
CountersOK(r) ==
    /\ launches[r] = successes[r] \/ launches[r] = successes[r] + 1
    /\ pc[r] = "GPU" => launches[r] = successes[r] + 1
    /\ pc[r] \in {"idle", "CLOSE"} /\ r \notin uncertain => launches[r] = successes[r]
    /\ nextRequest[r] = successes[r] + 1
    /\ pc[r] \in Phases \cup {"GPU"} => nextRequest[r] <= MaxRequests
    /\ launches[r] <= MaxRequests

(* A rank that failed to enqueue told its peers, or will never work again.  *)
FailedOK(r) ==
    r \in notEnqueued =>
        /\ launches[r] = successes[r] + 1 /\ r \notin hardware
        /\ \/ pc[r] = "EXECUTION_OUTCOME"
           \/ pc[r] \in {"idle", "CLOSE"} /\ r \in uncertain
        /\ Pending(r) => Last(r).phase = "EXECUTION_OUTCOME" /\ Last(r).error

LocalOK(r) == PendingOK(r) /\ FlagsOK(r) /\ CountersOK(r) /\ FailedOK(r)

(* What learning decision d does to a rank that has s successes. *)
Enqueued(d, r) == IF d[r].phase = "START_ACK" THEN 1 ELSE 0
Completed(d, r, s) ==
    IF /\ d[r].phase = "COMPLETION_RELEASE"
       /\ \A p \in Ranks : ~d[p].error /\ d[p].request = s + 1
    THEN 1 ELSE 0

InStep(r, q) ==
    /\ learned[r] = learned[q] =>
           launches[r] = launches[q] /\ successes[r] = successes[q]
    /\ learned[r] = learned[q] + 1 =>
           /\ launches[r] = launches[q] + Enqueued(decisions[learned[r]], q)
           /\ successes[r] = successes[q]
                             + Completed(decisions[learned[r]], q, successes[q])

GroupInv == \A r, q \in Ranks : InStep(r, q)

SessionInv ==
    /\ NTypeOK /\ HistoryTypes /\ HistoryInv
    /\ \A r \in Ranks : LocalOK(r)
    /\ GroupInv
(* The exchanges, whatever the workers do with them. *)
LEMMA SubmitHistory ==
    ASSUME NEW r \in Ranks, NEW b \in SessionBodies,
           HistoryTypes, HistoryInv,
           Len(submitted[r]) = learned[r],
           submitted' = [submitted EXCEPT ![r] = Append(@, b)],
           UNCHANGED <<decisions, learned, unresolved>>
    PROVE  HistoryTypes' /\ HistoryInv'
<1>1. HistoryTypes'
  BY DEF HistoryTypes
<1>2. OneAhead'
  BY DEF HistoryTypes, HistoryInv, OneAhead
<1>3. DecidedBySubmission'
  BY DEF HistoryTypes, HistoryInv, OneAhead, DecidedBySubmission
<1> QED
  BY <1>1, <1>2, <1>3 DEF HistoryInv

LEMMA LearnHistory ==
    ASSUME NEW r \in Ranks,
           HistoryTypes, HistoryInv,
           learned[r] < Len(submitted[r]), learned[r] < Len(decisions),
           learned' = [learned EXCEPT ![r] = @ + 1],
           UNCHANGED <<submitted, decisions, unresolved>>
    PROVE  HistoryTypes' /\ HistoryInv'
<1>1. HistoryTypes'
  BY DEF HistoryTypes
<1>2. OneAhead'
  BY DEF HistoryTypes, HistoryInv, OneAhead
<1>3. DecidedBySubmission'
  BY DEF HistoryInv, DecidedBySubmission
<1> QED
  BY <1>1, <1>2, <1>3 DEF HistoryInv

LEMMA AdvanceHistory ==
    ASSUME NEW r \in Ranks, NEW b \in SessionBodies,
           HistoryTypes, HistoryInv,
           learned[r] < Len(submitted[r]), learned[r] < Len(decisions),
           learned' = [learned EXCEPT ![r] = @ + 1],
           submitted' = [submitted EXCEPT ![r] = Append(@, b)],
           UNCHANGED <<decisions, unresolved>>
    PROVE  HistoryTypes' /\ HistoryInv'
<1>1. HistoryTypes'
  BY DEF HistoryTypes
<1>2. OneAhead'
  BY DEF HistoryTypes, HistoryInv, OneAhead
<1>3. DecidedBySubmission'
  BY DEF HistoryTypes, HistoryInv, OneAhead, DecidedBySubmission
<1> QED
  BY <1>1, <1>2, <1>3 DEF HistoryInv

LEMMA DecideHistory ==
    ASSUME HistoryTypes, HistoryInv, Decide
    PROVE  HistoryTypes' /\ HistoryInv'
<1> DEFINE n == Len(decisions) + 1
           d == [r \in Ranks |-> submitted[r][n]]
<1>1. \A r \in Ranks : n \in 1..Len(submitted[r]) /\ submitted[r][n] \in SessionBodies
  BY DEF Decide, HistoryTypes
<1>2. d \in [Ranks -> SessionBodies]
  BY <1>1
<1>3. decisions' = Append(decisions, d) /\ UNCHANGED <<submitted, learned, unresolved>>
  BY DEF Decide
<1>4. HistoryTypes'
  BY <1>2, <1>3 DEF HistoryTypes
<1>5. OneAhead'
  <2> HIDE DEF d
  <2> QED
    BY <1>1, <1>2, <1>3 DEF HistoryTypes, HistoryInv, OneAhead
<1>6. DecidedBySubmission'
  <2> SUFFICES ASSUME NEW k \in 1..n, NEW r \in Ranks, NEW q \in Ranks
               PROVE  /\ decisions'[k][r] = submitted[r][k]
                      /\ decisions'[k][r].phase = decisions'[k][q].phase
    BY <1>2, <1>3 DEF DecidedBySubmission, HistoryTypes
  <2>1. CASE k = n
    <3>1. decisions'[k] = d
      BY <2>1, <1>2, <1>3 DEF HistoryTypes
    <3> QED
      BY <3>1, <2>1 DEF Decide
  <2>2. CASE k # n
    <3>1. k \in 1..Len(decisions) /\ decisions'[k] = decisions[k]
      BY <2>2, <1>2, <1>3 DEF HistoryTypes
    <3> QED
      BY <3>1 DEF HistoryInv, DecidedBySubmission
  <2> QED
    BY <2>1, <2>2
<1> QED
  BY <1>4, <1>5, <1>6 DEF HistoryInv

(* No rank is more than one decision behind another. *)
LEMMA OneApart ==
    ASSUME HistoryTypes, OneAhead, NEW r \in Ranks, NEW q \in Ranks
    PROVE  /\ learned[r] \in Nat /\ Len(decisions) \in Nat
           /\ learned[r] = Len(decisions) \/ learned[r] + 1 = Len(decisions)
           /\ learned[q] = Len(decisions) \/ learned[q] + 1 = Len(decisions)
  BY DEF HistoryTypes, OneAhead

(* A rank that learns a decision and does what it says keeps in step. *)
LEMMA LearnKeepsStep ==
    ASSUME NTypeOK, HistoryTypes, HistoryInv, GroupInv,
           NEW r \in Ranks,
           learned[r] < Len(decisions),
           learned' = [learned EXCEPT ![r] = @ + 1],
           decisions' = decisions,
           \A q \in Ranks \ {r} : launches'[q] = launches[q] /\ successes'[q] = successes[q],
           launches'[r] = launches[r] + Enqueued(decisions[learned[r] + 1], r),
           successes'[r] = successes[r]
                           + Completed(decisions[learned[r] + 1], r, successes[r])
    PROVE  GroupInv'
<1> DEFINE n == Len(decisions)
           D == decisions[n]
<1>0. learned[r] + 1 = n /\ learned'[r] = n /\ n \in Nat /\ n >= 1 /\ learned[r] \in Nat
  BY OneApart DEF HistoryTypes, HistoryInv
<1>1. \A p, q \in Ranks : D[p].phase = D[q].phase
  BY <1>0 DEF HistoryInv, DecidedBySubmission
<1>2. \A p \in Ranks : launches[p] \in Nat /\ successes[p] \in Nat
  BY SessionAssumption DEF NTypeOK
<1>3. \A p, q \in Ranks, s \in Nat :
          Enqueued(D, p) = Enqueued(D, q) /\ Completed(D, p, s) = Completed(D, q, s)
  BY <1>1 DEF Enqueued, Completed
<1>4. \A q \in Ranks, s \in Nat : Enqueued(D, q) \in Nat /\ Completed(D, q, s) \in Nat
  BY DEF Enqueued, Completed
<1>5. ASSUME NEW q \in Ranks \ {r}
      PROVE  InStep(r, q)' /\ InStep(q, r)'
  <2>1. learned'[q] = learned[q] /\ (learned[q] = n \/ learned[q] + 1 = n) /\ learned[q] \in Nat
    BY <1>0, OneApart DEF HistoryTypes, HistoryInv
  <2>2. CASE learned[q] + 1 = n
    <3>1. launches[q] = launches[r] /\ successes[q] = successes[r]
      BY <1>0, <2>1, <2>2 DEF GroupInv, InStep
    <3>2. InStep(r, q)'
      BY <1>0, <1>2, <1>3, <2>1, <2>2, <3>1 DEF InStep
    <3>3. InStep(q, r)'
      BY <1>0, <2>1, <2>2 DEF InStep
    <3> QED
      BY <3>2, <3>3
  <2>3. CASE learned[q] = n
    <3>1. /\ launches[q] = launches[r] + Enqueued(D, r)
          /\ successes[q] = successes[r] + Completed(D, r, successes[r])
      BY <1>0, <2>1, <2>3 DEF GroupInv, InStep
    <3>2. launches'[q] = launches'[r] /\ successes'[q] = successes'[r]
      BY <1>0, <3>1
    <3> QED
      BY <1>0, <2>1, <2>3, <3>2 DEF InStep
  <2> QED
    BY <2>1, <2>2, <2>3
<1>6. ASSUME NEW p \in Ranks \ {r}, NEW q \in Ranks \ {r} PROVE InStep(p, q)'
  <2>1. learned'[p] = learned[p] /\ learned'[q] = learned[q]
    BY DEF HistoryTypes
  <2> QED
    BY <2>1 DEF GroupInv, InStep
<1>7. InStep(r, r)'
  BY <1>0 DEF InStep
<1> QED
  BY <1>5, <1>6, <1>7 DEF GroupInv

(* Steps that learn nothing. *)
LEMMA KeepsStep ==
    ASSUME GroupInv, UNCHANGED <<decisions, learned, launches, successes>>
    PROVE  GroupInv'
  BY DEF GroupInv, InStep
-----------------------------------------------------------------------------
(* A rank that does not move keeps what is said of it. *)
Unmoved(q) ==
    /\ pc'[q] = pc[q] /\ submitted'[q] = submitted[q] /\ learned'[q] = learned[q]
    /\ launches'[q] = launches[q] /\ successes'[q] = successes[q]
    /\ nextRequest'[q] = nextRequest[q]
    /\ q \in unresolved' <=> q \in unresolved
    /\ q \in busy' <=> q \in busy
    /\ q \in uncertain' <=> q \in uncertain
    /\ q \in closed' <=> q \in closed
    /\ q \in buffersRetained' <=> q \in buffersRetained
    /\ q \in guard' <=> q \in guard
    /\ q \in gpuComplete' <=> q \in gpuComplete
    /\ q \in hardware' <=> q \in hardware
    /\ q \in notEnqueued' <=> q \in notEnqueued

LEMMA UnmovedKeeps ==
    ASSUME NEW q \in Ranks, LocalOK(q), Unmoved(q)
    PROVE  LocalOK(q)'
  BY DEF LocalOK, PendingOK, FlagsOK, CountersOK, FailedOK, Pending, Last, Unmoved

LEMMA Assemble ==
    ASSUME SessionInv, NEW r \in Ranks,
           NTypeOK', HistoryTypes', HistoryInv', GroupInv',
           LocalOK(r)', \A q \in Ranks \ {r} : Unmoved(q)
    PROVE  SessionInv'
<1>1. \A q \in Ranks \ {r} : LocalOK(q)'
  BY UnmovedKeeps DEF SessionInv
<1> QED
  BY <1>1 DEF SessionInv

(* What a rank learns of itself is what it submitted. *)
LEMMA LearnsOwn ==
    ASSUME HistoryTypes, HistoryInv, NEW r \in Ranks,
           learned[r] < Len(submitted[r]), learned[r] < Len(decisions)
    PROVE  Pending(r) /\ Decision(r)[r] = Last(r) /\ Last(r) \in SessionBodies
<1>1. learned[r] \in Nat /\ Len(decisions) \in Nat /\ Len(submitted[r]) \in Nat
  BY DEF HistoryTypes
<1>2. learned[r] + 1 \in 1..Len(decisions) /\ learned[r] + 1 \in 1..Len(submitted[r])
  BY <1>1
<1>3. Len(submitted[r]) = learned[r] + 1
  BY <1>1 DEF HistoryInv, OneAhead
<1> QED
  BY <1>2, <1>3 DEF HistoryTypes, HistoryInv, DecidedBySubmission, Decision, Pending, Last

LEMMA IdentityBody ==
    ASSUME NTypeOK, NEW r \in Ranks, NEW ph \in Phases, NEW err \in BOOLEAN
    PROVE  /\ Identity(r, ph, err) \in SessionBodies
           /\ Identity(r, ph, err).phase = ph /\ Identity(r, ph, err).error = err
           /\ Identity(r, ph, err).request = nextRequest[r]
  BY DEF NTypeOK, Identity, SessionBodies
-----------------------------------------------------------------------------
(* Steps without an exchange. *)
LEMMA QuietHistory ==
    ASSUME HistoryTypes, HistoryInv, UNCHANGED gvars
    PROVE  HistoryTypes' /\ HistoryInv'
<1>1. /\ submitted' = submitted /\ decisions' = decisions
      /\ learned' = learned /\ unresolved' = unresolved
  BY DEF gvars
<1>2. HistoryTypes'
  BY <1>1 DEF HistoryTypes
<1>3. OneAhead' /\ DecidedBySubmission'
  BY <1>1 DEF HistoryInv, OneAhead, DecidedBySubmission
<1> QED
  BY <1>2, <1>3 DEF HistoryInv

LEMMA CloseKeeps ==
    ASSUME SessionInv, NEW r \in Ranks, Close(r)
    PROVE  SessionInv'
<1>1. NTypeOK'
  BY DEF SessionInv, NTypeOK, Close, Admit, gvars, counters, gpu, version
<1>2. HistoryTypes' /\ HistoryInv'
  BY QuietHistory DEF SessionInv, Close
<1>3. GroupInv'
  BY KeepsStep DEF SessionInv, Close, Admit, gvars, counters, gpu, version
<1>4. LocalOK(r)'
  BY DEF SessionInv, NTypeOK, LocalOK, PendingOK, FlagsOK, CountersOK, FailedOK, Pending, Last, Phases,
         Close, Admit, gvars, counters, gpu, version
<1>5. \A q \in Ranks \ {r} : Unmoved(q)
  BY DEF SessionInv, NTypeOK, Unmoved, Close, Admit, gvars, counters, gpu, version
<1> QED
  BY <1>1, <1>2, <1>3, <1>4, <1>5, Assemble

LEMMA PublicTimeoutKeeps ==
    ASSUME SessionInv, NEW r \in Ranks, PublicTimeout(r)
    PROVE  SessionInv'
<1>1. NTypeOK'
  BY DEF SessionInv, NTypeOK, PublicTimeout, gvars, counters, gpu, version
<1>2. HistoryTypes' /\ HistoryInv'
  BY QuietHistory DEF SessionInv, PublicTimeout
<1>3. GroupInv'
  BY KeepsStep DEF SessionInv, PublicTimeout, gvars, counters, gpu, version
<1>4. LocalOK(r)'
  BY DEF SessionInv, NTypeOK, LocalOK, PendingOK, FlagsOK, CountersOK, FailedOK, Pending, Last, Phases,
         PublicTimeout, gvars, counters, gpu, version
<1>5. \A q \in Ranks \ {r} : Unmoved(q)
  BY DEF SessionInv, NTypeOK, Unmoved, gvars, PublicTimeout, gvars, counters, gpu, version
<1> QED
  BY <1>1, <1>2, <1>3, <1>4, <1>5, Assemble

LEMMA GpuFinishesKeeps ==
    ASSUME SessionInv, NEW r \in Ranks, GpuFinishes(r)
    PROVE  SessionInv'
<1>1. NTypeOK'
  BY DEF SessionInv, NTypeOK, GpuFinishes, gvars, counters, flags, version
<1>2. HistoryTypes' /\ HistoryInv'
  BY QuietHistory DEF SessionInv, GpuFinishes
<1>3. GroupInv'
  BY KeepsStep DEF SessionInv, GpuFinishes, gvars, counters, flags, version
<1>4. LocalOK(r)'
  BY DEF SessionInv, NTypeOK, LocalOK, PendingOK, FlagsOK, CountersOK, FailedOK, Pending, Last, Phases,
         GpuFinishes, gvars, counters, flags, version
<1>5. \A q \in Ranks \ {r} : Unmoved(q)
  BY DEF SessionInv, NTypeOK, Unmoved, gvars, GpuFinishes, gvars, counters, flags, version
<1> QED
  BY <1>1, <1>2, <1>3, <1>4, <1>5, Assemble

LEMMA CloseSucceedsKeeps ==
    ASSUME SessionInv, NEW r \in Ranks, CloseSucceeds(r)
    PROVE  SessionInv'
<1>1. NTypeOK'
  BY DEF SessionInv, NTypeOK, CloseSucceeds, Stopped, NeedsStop, gvars, counters
<1>2. HistoryTypes' /\ HistoryInv'
  BY QuietHistory DEF SessionInv, CloseSucceeds
<1>3. GroupInv'
  BY KeepsStep DEF SessionInv, CloseSucceeds, Stopped, NeedsStop, gvars, counters
<1>4. LocalOK(r)'
  BY DEF SessionInv, NTypeOK, LocalOK, PendingOK, FlagsOK, CountersOK, FailedOK, Pending, Last, Phases,
         CloseSucceeds, Stopped, NeedsStop, gvars, counters
<1>5. \A q \in Ranks \ {r} : Unmoved(q)
  BY DEF SessionInv, NTypeOK, Unmoved, gvars, CloseSucceeds, Stopped, NeedsStop, gvars, counters
<1> QED
  BY <1>1, <1>2, <1>3, <1>4, <1>5, Assemble

LEMMA CloseFailsKeeps ==
    ASSUME SessionInv, NEW r \in Ranks, CloseFails(r)
    PROVE  SessionInv'
<1>1. NTypeOK'
  BY DEF SessionInv, NTypeOK, CloseFails, CloseThrows, Stopped, NeedsStop, LeftBehind, gvars, counters, version
<1>2. HistoryTypes' /\ HistoryInv'
  BY QuietHistory DEF SessionInv, CloseFails
<1>3. GroupInv'
  BY KeepsStep DEF SessionInv, CloseFails, CloseThrows, Stopped, NeedsStop, LeftBehind, gvars, counters, version
<1>4. LocalOK(r)'
  BY DEF SessionInv, NTypeOK, LocalOK, PendingOK, FlagsOK, CountersOK, FailedOK, Pending, Last, Phases,
         CloseFails, CloseThrows, Stopped, NeedsStop, LeftBehind, gvars, counters, version
<1>5. \A q \in Ranks \ {r} : Unmoved(q)
  BY DEF SessionInv, NTypeOK, Unmoved, gvars, CloseFails, CloseThrows, Stopped, NeedsStop, LeftBehind, gvars, counters, version
<1> QED
  BY <1>1, <1>2, <1>3, <1>4, <1>5, Assemble

-----------------------------------------------------------------------------
(* Steps that submit a body. *)
LEMMA ExecuteKeeps ==
    ASSUME SessionInv, NEW r \in Ranks, Execute(r)
    PROVE  SessionInv'
<1> USE SessionAssumption
<1>a. PICK taken \in BOOLEAN, err \in BOOLEAN :
          /\ ~taken => err
          /\ guard' = IF taken THEN guard \cup {r} ELSE guard
          /\ buffersRetained' = IF taken THEN buffersRetained \cup {r}
                                ELSE buffersRetained
          /\ Submit(r, Identity(r, "REQUEST_PREPARE", err))
  BY DEF Execute
<1> DEFINE b == Identity(r, "REQUEST_PREPARE", err)
<1>b. b \in SessionBodies /\ b.phase = "REQUEST_PREPARE" /\ b.error = err
  BY IdentityBody DEF SessionInv, Phases
<1> HIDE DEF b
<1>c. /\ r \notin unresolved /\ Len(submitted[r]) = learned[r]
      /\ submitted' = [submitted EXCEPT ![r] = Append(@, b)]
      /\ UNCHANGED <<decisions, learned, unresolved>>
  BY <1>a DEF Submit, b
<1>d. Len(submitted'[r]) = learned'[r] + 1 /\ submitted'[r][learned'[r] + 1] = b
  BY <1>b, <1>c DEF SessionInv, HistoryTypes
<1>1. NTypeOK'
  BY <1>a, <1>b, <1>c, <1>d DEF SessionInv, NTypeOK, Phases,
                            Execute, Admit, version, counters, gpu
<1>2. HistoryTypes' /\ HistoryInv'
  BY <1>b, <1>c, SubmitHistory DEF SessionInv
<1>3. GroupInv'
  BY <1>c, KeepsStep DEF SessionInv, Execute, counters, gpu
<1>4. LocalOK(r)'
  BY <1>a, <1>b, <1>c, <1>d 
     DEF SessionInv, NTypeOK, HistoryTypes,
         LocalOK, PendingOK, FlagsOK, CountersOK, FailedOK, Pending, Last, Phases, Early, Late,
         Execute, Admit, version, counters, gpu
<1>5. \A q \in Ranks \ {r} : Unmoved(q)
  BY <1>a, <1>b, <1>c, <1>d DEF SessionInv, NTypeOK, HistoryTypes, Unmoved,
                                     Execute, Admit, version, counters, gpu
<1> QED
  BY <1>1, <1>2, <1>3, <1>4, <1>5, Assemble

LEMMA ReportOutcomeKeeps ==
    ASSUME SessionInv, NEW r \in Ranks, ReportOutcome(r)
    PROVE  SessionInv'
<1> USE SessionAssumption
<1>a. PICK err \in BOOLEAN, seen \in BOOLEAN :
          /\ seen => r \notin hardware
          /\ gpuComplete' = IF seen THEN gpuComplete \cup {r} ELSE gpuComplete
          /\ Submit(r, Identity(r, "EXECUTION_OUTCOME", err))
  BY DEF ReportOutcome
<1> DEFINE b == Identity(r, "EXECUTION_OUTCOME", err)
<1>b. b \in SessionBodies /\ b.phase = "EXECUTION_OUTCOME" /\ b.error = err
  BY IdentityBody DEF SessionInv, Phases
<1> HIDE DEF b
<1>c. /\ r \notin unresolved /\ Len(submitted[r]) = learned[r]
      /\ submitted' = [submitted EXCEPT ![r] = Append(@, b)]
      /\ UNCHANGED <<decisions, learned, unresolved>>
  BY <1>a DEF Submit, b
<1>d. Len(submitted'[r]) = learned'[r] + 1 /\ submitted'[r][learned'[r] + 1] = b
  BY <1>b, <1>c DEF SessionInv, HistoryTypes
<1>1. NTypeOK'
  BY <1>a, <1>b, <1>c, <1>d DEF SessionInv, NTypeOK, Phases,
                            ReportOutcome, flags, counters, gpu
<1>2. HistoryTypes' /\ HistoryInv'
  BY <1>b, <1>c, SubmitHistory DEF SessionInv
<1>3. GroupInv'
  BY <1>c, KeepsStep DEF SessionInv, ReportOutcome, counters, gpu
<1>4. LocalOK(r)'
  BY <1>a, <1>b, <1>c, <1>d 
     DEF SessionInv, NTypeOK, HistoryTypes,
         LocalOK, PendingOK, FlagsOK, CountersOK, FailedOK, Pending, Last, Phases, Early, Late,
         ReportOutcome, flags, counters, gpu
<1>5. \A q \in Ranks \ {r} : Unmoved(q)
  BY <1>a, <1>b, <1>c, <1>d DEF SessionInv, NTypeOK, HistoryTypes, Unmoved,
                                     ReportOutcome, flags, counters, gpu
<1> QED
  BY <1>1, <1>2, <1>3, <1>4, <1>5, Assemble

-----------------------------------------------------------------------------
(* Steps that learn a decision and submit the next body. *)
LEMMA AdvanceKeeps ==
    ASSUME SessionInv, NEW r \in Ranks,
           NEW phase \in Phases \ {"START_ACK", "COMPLETION_RELEASE"},
           NEW b \in SessionBodies, Advance(r, phase, b),
           UNCHANGED <<launches, successes>>
    PROVE  /\ HistoryTypes' /\ HistoryInv' /\ GroupInv'
           /\ Pending(r) /\ Last(r).phase = phase /\ ~Last(r).error
           /\ Pending(r)' /\ Last(r)' = b
<1> DEFINE d == decisions[learned[r] + 1]
<1>1. /\ pc[r] = phase /\ r \notin unresolved
      /\ learned[r] < Len(submitted[r]) /\ learned[r] < Len(decisions)
      /\ learned' = [learned EXCEPT ![r] = @ + 1]
      /\ submitted' = [submitted EXCEPT ![r] = Append(@, b)]
      /\ UNCHANGED <<decisions, unresolved>>
  BY DEF Advance
<1>2. HistoryTypes' /\ HistoryInv'
  BY <1>1, AdvanceHistory DEF SessionInv
<1>3. Pending(r) /\ d[r] = Last(r)
  BY <1>1, LearnsOwn DEF SessionInv, Decision
<1>4. Last(r).phase = phase /\ ~Last(r).error
  BY <1>1, <1>3 DEF SessionInv, LocalOK, PendingOK, Advance, Unanimous, Decision
<1>5. Enqueued(d, r) = 0 /\ Completed(d, r, successes[r]) = 0
  BY <1>3, <1>4 DEF Enqueued, Completed
<1>6. GroupInv'
  <2>1. launches[r] \in Nat /\ successes[r] \in Nat
    BY SessionAssumption DEF SessionInv, NTypeOK
  <2>2. /\ launches'[r] = launches[r] + Enqueued(d, r)
        /\ successes'[r] = successes[r] + Completed(d, r, successes[r])
        /\ \A q \in Ranks \ {r} : launches'[q] = launches[q] /\ successes'[q] = successes[q]
    BY <1>5, <2>1
  <2>3. NTypeOK /\ HistoryTypes /\ HistoryInv /\ GroupInv
    BY DEF SessionInv
  <2> QED
    BY <1>1, <2>2, <2>3, LearnKeepsStep
<1>7. Pending(r)' /\ Last(r)' = b
  BY <1>1, <1>3 DEF SessionInv, HistoryTypes, Pending, Last
<1> QED
  BY <1>2, <1>3, <1>4, <1>6, <1>7

LEMMA RequestPreparedKeeps ==
    ASSUME SessionInv, NEW r \in Ranks, RequestPrepared(r)
    PROVE  SessionInv'
<1> USE SessionAssumption
<1> DEFINE b == Identity(r, "EXECUTE_READY", FALSE)
<1>b. b \in SessionBodies /\ b.phase = "EXECUTE_READY" /\ b.error = FALSE
  <2>1. NTypeOK /\ "EXECUTE_READY" \in Phases /\ FALSE \in BOOLEAN
    BY DEF SessionInv, Phases
  <2> QED
    BY <2>1, IdentityBody, Zenon
<1> HIDE DEF b
<1>c. Advance(r, "REQUEST_PREPARE", b)
  BY DEF RequestPrepared, b
<1>d. UNCHANGED <<launches, successes>>
  BY DEF RequestPrepared, counters, gpu
<1>e. "REQUEST_PREPARE" \in Phases \ {"START_ACK", "COMPLETION_RELEASE"}
  BY DEF Phases
<1>f. /\ HistoryTypes' /\ HistoryInv' /\ GroupInv'
      /\ Pending(r) /\ Last(r).phase = "REQUEST_PREPARE" /\ ~Last(r).error
      /\ Pending(r)' /\ Last(r)' = b
  BY <1>b, <1>c, <1>d, <1>e, AdvanceKeeps
<1>g. /\ pc[r] = "REQUEST_PREPARE" /\ r \notin unresolved
      /\ pc' = [pc EXCEPT ![r] = "EXECUTE_READY"] /\ unresolved' = unresolved
      /\ \A q \in Ranks \ {r} : learned'[q] = learned[q] /\ submitted'[q] = submitted[q]
  BY <1>b, <1>c DEF Advance, SessionInv, HistoryTypes
<1>1. NTypeOK'
  BY <1>g DEF SessionInv, NTypeOK, Phases, RequestPrepared, version, counters, gpu
<1>2. LocalOK(r)'
  BY <1>b, <1>f, <1>g
     DEF SessionInv, NTypeOK, LocalOK, PendingOK, FlagsOK, CountersOK, FailedOK, Phases,
         Early, Late, RequestPrepared, version, counters, gpu
<1>3. \A q \in Ranks \ {r} : Unmoved(q)
  BY <1>g DEF SessionInv, NTypeOK, Unmoved, RequestPrepared, version, counters, gpu
<1> QED
  BY <1>f, <1>1, <1>2, <1>3, Assemble

LEMMA ExecuteReadyKeeps ==
    ASSUME SessionInv, NEW r \in Ranks, ExecuteReady(r)
    PROVE  SessionInv'
<1> USE SessionAssumption
<1> DEFINE b == Identity(r, "EXECUTE_ACK", FALSE)
<1>b. b \in SessionBodies /\ b.phase = "EXECUTE_ACK" /\ b.error = FALSE
  <2>1. NTypeOK /\ "EXECUTE_ACK" \in Phases /\ FALSE \in BOOLEAN
    BY DEF SessionInv, Phases
  <2> QED
    BY <2>1, IdentityBody, Zenon
<1> HIDE DEF b
<1>c. Advance(r, "EXECUTE_READY", b)
  BY DEF ExecuteReady, b
<1>d. UNCHANGED <<launches, successes>>
  BY DEF ExecuteReady, counters, gpu
<1>e. "EXECUTE_READY" \in Phases \ {"START_ACK", "COMPLETION_RELEASE"}
  BY DEF Phases
<1>f. /\ HistoryTypes' /\ HistoryInv' /\ GroupInv'
      /\ Pending(r) /\ Last(r).phase = "EXECUTE_READY" /\ ~Last(r).error
      /\ Pending(r)' /\ Last(r)' = b
  BY <1>b, <1>c, <1>d, <1>e, AdvanceKeeps
<1>g. /\ pc[r] = "EXECUTE_READY" /\ r \notin unresolved
      /\ pc' = [pc EXCEPT ![r] = "EXECUTE_ACK"] /\ unresolved' = unresolved
      /\ \A q \in Ranks \ {r} : learned'[q] = learned[q] /\ submitted'[q] = submitted[q]
  BY <1>b, <1>c DEF Advance, SessionInv, HistoryTypes
<1>1. NTypeOK'
  BY <1>g DEF SessionInv, NTypeOK, Phases, ExecuteReady, flags, version, counters, gpu
<1>2. LocalOK(r)'
  BY <1>b, <1>f, <1>g
     DEF SessionInv, NTypeOK, LocalOK, PendingOK, FlagsOK, CountersOK, FailedOK, Phases,
         Early, Late, ExecuteReady, flags, version, counters, gpu
<1>3. \A q \in Ranks \ {r} : Unmoved(q)
  BY <1>g DEF SessionInv, NTypeOK, Unmoved, ExecuteReady, flags, version, counters, gpu
<1> QED
  BY <1>f, <1>1, <1>2, <1>3, Assemble

LEMMA ExecuteAckKeeps ==
    ASSUME SessionInv, NEW r \in Ranks, ExecuteAck(r)
    PROVE  SessionInv'
<1> USE SessionAssumption
<1> DEFINE b == Identity(r, "START", FALSE)
<1>b. b \in SessionBodies /\ b.phase = "START" /\ b.error = FALSE
  <2>1. NTypeOK /\ "START" \in Phases /\ FALSE \in BOOLEAN
    BY DEF SessionInv, Phases
  <2> QED
    BY <2>1, IdentityBody, Zenon
<1> HIDE DEF b
<1>c. Advance(r, "EXECUTE_ACK", b)
  BY DEF ExecuteAck, b
<1>d. UNCHANGED <<launches, successes>>
  BY DEF ExecuteAck, counters, gpu
<1>e. "EXECUTE_ACK" \in Phases \ {"START_ACK", "COMPLETION_RELEASE"}
  BY DEF Phases
<1>f. /\ HistoryTypes' /\ HistoryInv' /\ GroupInv'
      /\ Pending(r) /\ Last(r).phase = "EXECUTE_ACK" /\ ~Last(r).error
      /\ Pending(r)' /\ Last(r)' = b
  BY <1>b, <1>c, <1>d, <1>e, AdvanceKeeps
<1>g. /\ pc[r] = "EXECUTE_ACK" /\ r \notin unresolved
      /\ pc' = [pc EXCEPT ![r] = "START"] /\ unresolved' = unresolved
      /\ \A q \in Ranks \ {r} : learned'[q] = learned[q] /\ submitted'[q] = submitted[q]
  BY <1>b, <1>c DEF Advance, SessionInv, HistoryTypes
<1>1. NTypeOK'
  BY <1>g DEF SessionInv, NTypeOK, Phases, ExecuteAck, flags, version, counters, gpu
<1>2. LocalOK(r)'
  BY <1>b, <1>f, <1>g
     DEF SessionInv, NTypeOK, LocalOK, PendingOK, FlagsOK, CountersOK, FailedOK, Phases,
         Early, Late, ExecuteAck, flags, version, counters, gpu
<1>3. \A q \in Ranks \ {r} : Unmoved(q)
  BY <1>g DEF SessionInv, NTypeOK, Unmoved, ExecuteAck, flags, version, counters, gpu
<1> QED
  BY <1>f, <1>1, <1>2, <1>3, Assemble

LEMMA StartKeeps ==
    ASSUME SessionInv, NEW r \in Ranks, Start(r)
    PROVE  SessionInv'
<1> USE SessionAssumption
<1> DEFINE b == Identity(r, "START_ACK", FALSE)
<1>b. b \in SessionBodies /\ b.phase = "START_ACK" /\ b.error = FALSE
  BY IdentityBody DEF SessionInv, Phases
<1> HIDE DEF b
<1>c. Advance(r, "START", b)
  BY DEF Start, b
<1>d. UNCHANGED <<launches, successes>>
  BY DEF Start, counters, gpu
<1>e. "START" \in Phases \ {"START_ACK", "COMPLETION_RELEASE"}
  BY DEF Phases
<1>f. /\ HistoryTypes' /\ HistoryInv' /\ GroupInv'
      /\ Pending(r) /\ Last(r).phase = "START" /\ ~Last(r).error
      /\ Pending(r)' /\ Last(r)' = b
  BY <1>b, <1>c, <1>d, <1>e, AdvanceKeeps
<1>g. /\ pc[r] = "START" /\ r \notin unresolved
      /\ pc' = [pc EXCEPT ![r] = "START_ACK"] /\ unresolved' = unresolved
      /\ \A q \in Ranks \ {r} : learned'[q] = learned[q] /\ submitted'[q] = submitted[q]
  BY <1>b, <1>c DEF Advance, SessionInv, HistoryTypes
<1>1. NTypeOK'
  BY <1>g DEF SessionInv, NTypeOK, Phases, Start, flags, version, counters, gpu
<1>2. LocalOK(r)'
  BY <1>b, <1>f, <1>g
     DEF SessionInv, NTypeOK, LocalOK, PendingOK, FlagsOK, CountersOK, FailedOK, Phases,
         Early, Late, Start, flags, version, counters, gpu
<1>3. \A q \in Ranks \ {r} : Unmoved(q)
  BY <1>g DEF SessionInv, NTypeOK, Unmoved, Start, flags, version, counters, gpu
<1> QED
  BY <1>f, <1>1, <1>2, <1>3, Assemble

LEMMA WriteEvidenceKeeps ==
    ASSUME SessionInv, NEW r \in Ranks, WriteEvidence(r)
    PROVE  SessionInv'
<1> USE SessionAssumption
<1>a. PICK err \in BOOLEAN :
          Advance(r, "EXECUTION_OUTCOME", Identity(r, "COMPLETION_EVIDENCE", err))
  BY DEF WriteEvidence
<1> DEFINE b == Identity(r, "COMPLETION_EVIDENCE", err)
<1>b. b \in SessionBodies /\ b.phase = "COMPLETION_EVIDENCE" /\ b.error = err
  BY IdentityBody DEF SessionInv, Phases
<1> HIDE DEF b
<1>c. Advance(r, "EXECUTION_OUTCOME", b)
  BY <1>a DEF WriteEvidence, b
<1>d. UNCHANGED <<launches, successes>>
  BY DEF WriteEvidence, counters, gpu
<1>e. "EXECUTION_OUTCOME" \in Phases \ {"START_ACK", "COMPLETION_RELEASE"}
  BY DEF Phases
<1>f. /\ HistoryTypes' /\ HistoryInv' /\ GroupInv'
      /\ Pending(r) /\ Last(r).phase = "EXECUTION_OUTCOME" /\ ~Last(r).error
      /\ Pending(r)' /\ Last(r)' = b
  BY <1>b, <1>c, <1>d, <1>e, AdvanceKeeps
<1>g. /\ pc[r] = "EXECUTION_OUTCOME" /\ r \notin unresolved
      /\ pc' = [pc EXCEPT ![r] = "COMPLETION_EVIDENCE"] /\ unresolved' = unresolved
      /\ \A q \in Ranks \ {r} : learned'[q] = learned[q] /\ submitted'[q] = submitted[q]
  BY <1>b, <1>c DEF Advance, SessionInv, HistoryTypes
<1>1. NTypeOK'
  BY <1>a, <1>g DEF SessionInv, NTypeOK, Phases, WriteEvidence, flags, version, counters, gpu
<1>2. LocalOK(r)'
  BY <1>a, <1>b, <1>f, <1>g
     DEF SessionInv, NTypeOK, LocalOK, PendingOK, FlagsOK, CountersOK, FailedOK, Phases,
         Early, Late, WriteEvidence, flags, version, counters, gpu
<1>3. \A q \in Ranks \ {r} : Unmoved(q)
  BY <1>a, <1>g DEF SessionInv, NTypeOK, Unmoved, WriteEvidence, flags, version, counters, gpu
<1> QED
  BY <1>f, <1>1, <1>2, <1>3, Assemble

LEMMA ReleaseGuardKeeps ==
    ASSUME SessionInv, NEW r \in Ranks, ReleaseGuard(r)
    PROVE  SessionInv'
<1> USE SessionAssumption
<1>a. PICK err \in BOOLEAN :
          /\ Advance(r, "COMPLETION_EVIDENCE", Identity(r, "COMPLETION_RELEASE", err))
          /\ ~err => r \notin hardware
          /\ guard' = IF err THEN guard ELSE guard \ {r}
  BY DEF ReleaseGuard
<1> DEFINE b == Identity(r, "COMPLETION_RELEASE", err)
<1>b. b \in SessionBodies /\ b.phase = "COMPLETION_RELEASE" /\ b.error = err
  BY IdentityBody DEF SessionInv, Phases
<1> HIDE DEF b
<1>c. Advance(r, "COMPLETION_EVIDENCE", b)
  BY <1>a DEF ReleaseGuard, b
<1>d. UNCHANGED <<launches, successes>>
  BY DEF ReleaseGuard, counters, gpu
<1>e. "COMPLETION_EVIDENCE" \in Phases \ {"START_ACK", "COMPLETION_RELEASE"}
  BY DEF Phases
<1>f. /\ HistoryTypes' /\ HistoryInv' /\ GroupInv'
      /\ Pending(r) /\ Last(r).phase = "COMPLETION_EVIDENCE" /\ ~Last(r).error
      /\ Pending(r)' /\ Last(r)' = b
  BY <1>b, <1>c, <1>d, <1>e, AdvanceKeeps
<1>g. /\ pc[r] = "COMPLETION_EVIDENCE" /\ r \notin unresolved
      /\ pc' = [pc EXCEPT ![r] = "COMPLETION_RELEASE"] /\ unresolved' = unresolved
      /\ \A q \in Ranks \ {r} : learned'[q] = learned[q] /\ submitted'[q] = submitted[q]
  BY <1>b, <1>c DEF Advance, SessionInv, HistoryTypes
<1>1. NTypeOK'
  BY <1>a, <1>g DEF SessionInv, NTypeOK, Phases, ReleaseGuard, version, counters, gpu
<1>2. LocalOK(r)'
  BY <1>a, <1>b, <1>f, <1>g
     DEF SessionInv, NTypeOK, LocalOK, PendingOK, FlagsOK, CountersOK, FailedOK, Phases,
         Early, Late, ReleaseGuard, version, counters, gpu
<1>3. \A q \in Ranks \ {r} : Unmoved(q)
  BY <1>a, <1>g DEF SessionInv, NTypeOK, Unmoved, ReleaseGuard, version, counters, gpu
<1> QED
  BY <1>f, <1>1, <1>2, <1>3, Assemble

-----------------------------------------------------------------------------
(* Steps that learn a decision and submit nothing. *)
LEMMA LaunchFailsKeeps ==
    ASSUME SessionInv, NEW r \in Ranks, LaunchFails(r)
    PROVE  SessionInv'
<1> USE SessionAssumption
<1> DEFINE b == Identity(r, "EXECUTION_OUTCOME", TRUE)
           d == decisions[learned[r] + 1]
<1>b. b \in SessionBodies /\ b.phase = "EXECUTION_OUTCOME" /\ b.error = TRUE
  <2>1. NTypeOK /\ "EXECUTION_OUTCOME" \in Phases /\ TRUE \in BOOLEAN
    BY DEF SessionInv, Phases
  <2> QED
    BY <2>1, IdentityBody, Zenon
<1> HIDE DEF b
<1>a. /\ r \notin unresolved /\ pc[r] = "START_ACK" /\ Unanimous(r)
      /\ learned[r] < Len(submitted[r]) /\ learned[r] < Len(decisions)
      /\ learned' = [learned EXCEPT ![r] = @ + 1]
      /\ submitted' = [submitted EXCEPT ![r] = Append(@, b)]
      /\ pc' = [pc EXCEPT ![r] = "EXECUTION_OUTCOME"]
      /\ UNCHANGED <<decisions, unresolved>>
  BY <1>b DEF LaunchFails, Advance, b
<1>c. Pending(r) /\ d[r] = Last(r)
  BY <1>a, LearnsOwn DEF SessionInv, Decision
<1>d. /\ learned[r] \in Nat /\ launches[r] \in Nat /\ successes[r] \in Nat
      /\ nextRequest[r] = successes[r] + 1
  BY DEF SessionInv, HistoryTypes, NTypeOK, LocalOK, CountersOK
<1>e. Last(r).phase = "START_ACK"
  BY <1>a, <1>c DEF SessionInv, LocalOK, PendingOK
<1>f. Enqueued(d, r) = 1 /\ Completed(d, r, successes[r]) = 0
  BY <1>c, <1>d, <1>e DEF Enqueued, Completed
<1>g. /\ launches[r] = successes[r] /\ nextRequest[r] <= MaxRequests /\ r \notin hardware
      /\ r \in guard /\ r \in buffersRetained
  BY <1>a, <1>c, <1>d, <1>e
     DEF SessionInv, LocalOK, PendingOK, FlagsOK, CountersOK, Phases, Early
<1>h. Pending(r)' /\ Last(r)' = b
  BY <1>a, <1>b, <1>c DEF SessionInv, HistoryTypes, Pending, Last
<1>1. NTypeOK'
  BY <1>a, <1>d, <1>g DEF SessionInv, NTypeOK, Phases, LaunchFails, flags, counters
<1>2. HistoryTypes' /\ HistoryInv'
  BY <1>a, <1>b, AdvanceHistory DEF SessionInv
<1>3. GroupInv'
  <2>1. /\ launches'[r] = launches[r] + Enqueued(d, r)
        /\ successes'[r] = successes[r] + Completed(d, r, successes[r])
        /\ \A q \in Ranks \ {r} : launches'[q] = launches[q] /\ successes'[q] = successes[q]
    BY <1>d, <1>f DEF SessionInv, NTypeOK, LaunchFails, flags, counters
  <2>2. NTypeOK /\ HistoryTypes /\ HistoryInv /\ GroupInv
    BY DEF SessionInv
  <2> QED
    BY <1>a, <2>1, <2>2, LearnKeepsStep
<1>4. LocalOK(r)'
  <2> HIDE DEF d
  <2>1. /\ launches'[r] = successes'[r] + 1 /\ pc'[r] = "EXECUTION_OUTCOME"
        /\ nextRequest' = nextRequest /\ successes' = successes /\ hardware' = hardware
        /\ guard' = guard /\ buffersRetained' = buffersRetained /\ unresolved' = unresolved
        /\ busy' = busy /\ closed' = closed /\ uncertain' = uncertain
    BY <1>a, <1>d, <1>g DEF SessionInv, NTypeOK, LaunchFails, flags, counters
  <2>2. r \in busy /\ r \notin closed
    BY <1>a DEF SessionInv, LocalOK, FlagsOK
  <2>3. PendingOK(r)'
    BY <1>a, <1>b, <1>h, <2>1 DEF PendingOK, Phases, Early, Late
  <2>4. FlagsOK(r)'
    BY <1>a, <1>g, <2>1, <2>2 DEF FlagsOK
  <2>5. CountersOK(r)'
    BY <1>d, <1>g, <2>1 DEF CountersOK
  <2>6. FailedOK(r)'
    BY <1>b, <1>g, <1>h, <2>1 DEF FailedOK
  <2> QED
    BY <2>3, <2>4, <2>5, <2>6 DEF LocalOK
<1>5. \A q \in Ranks \ {r} : Unmoved(q)
  BY <1>a DEF SessionInv, NTypeOK, HistoryTypes, Unmoved, LaunchFails, flags, counters
<1> QED
  BY <1>1, <1>2, <1>3, <1>4, <1>5, Assemble

LEMMA LaunchKeeps ==
    ASSUME SessionInv, NEW r \in Ranks, Launch(r)
    PROVE  SessionInv'
<1> USE SessionAssumption
<1> DEFINE d == decisions[learned[r] + 1]
<1>a. /\ r \notin unresolved /\ pc[r] = "START_ACK"
      /\ learned[r] < Len(submitted[r]) /\ learned[r] < Len(decisions)
      /\ learned' = [learned EXCEPT ![r] = @ + 1]
      /\ UNCHANGED <<submitted, decisions, unresolved>>
  BY DEF Launch, Learn
<1>b. Pending(r) /\ d[r] = Last(r)
  BY <1>a, LearnsOwn DEF SessionInv, Decision
<1>c. Last(r).phase = pc[r]
  BY <1>a, <1>b DEF SessionInv, LocalOK, PendingOK
<1>d. /\ learned[r] \in Nat /\ launches[r] \in Nat /\ successes[r] \in Nat
      /\ nextRequest[r] = successes[r] + 1
  BY DEF SessionInv, HistoryTypes, NTypeOK, LocalOK, CountersOK
<1>e. Enqueued(d, r) = 1 /\ Completed(d, r, successes[r]) = 0
  BY <1>a, <1>b, <1>c, <1>d DEF Launch, Enqueued, Completed, Unanimous, Decision
<1>f. ~Pending(r)'
  BY <1>a, <1>b, <1>d DEF SessionInv, HistoryTypes, Pending
<1>g. /\ pc[r] \in Early => launches[r] = successes[r]
      /\ pc[r] \in Late => launches[r] = successes[r] + 1
      /\ nextRequest[r] <= MaxRequests
  BY <1>a, <1>b, <1>c DEF SessionInv, LocalOK, PendingOK, CountersOK, Phases
<1>h. ~Last(r).error
  BY <1>b DEF Launch, Unanimous, Decision
<1>1. NTypeOK'
  BY <1>a, <1>d, <1>g DEF SessionInv, NTypeOK, Phases, Early, Late, Launch, flags, counters
<1>2. HistoryTypes' /\ HistoryInv'
  BY <1>a, LearnHistory DEF SessionInv
<1>3. GroupInv'
  <2>1. /\ launches'[r] = launches[r] + Enqueued(d, r)
        /\ successes'[r] = successes[r] + Completed(d, r, successes[r])
        /\ \A q \in Ranks \ {r} : launches'[q] = launches[q] /\ successes'[q] = successes[q]
    BY <1>d, <1>e DEF SessionInv, NTypeOK, Launch, flags, counters
  <2>2. NTypeOK /\ HistoryTypes /\ HistoryInv /\ GroupInv
    BY DEF SessionInv
  <2> QED
    BY <1>a, <2>1, <2>2, LearnKeepsStep
<1>4. LocalOK(r)'
  <2> HIDE DEF d
  <2> QED
    BY <1>a, <1>b, <1>c, <1>d, <1>f, <1>g, <1>h
       DEF SessionInv, NTypeOK, LocalOK, PendingOK, FlagsOK, CountersOK, FailedOK, Phases,
           Early, Late, Launch, flags, counters
<1>5. \A q \in Ranks \ {r} : Unmoved(q)
  BY <1>a DEF SessionInv, NTypeOK, HistoryTypes, Unmoved, Launch, flags, counters
<1> QED
  BY <1>1, <1>2, <1>3, <1>4, <1>5, Assemble

LEMMA SucceedKeeps ==
    ASSUME SessionInv, NEW r \in Ranks, Succeed(r)
    PROVE  SessionInv'
<1> USE SessionAssumption
<1> DEFINE d == decisions[learned[r] + 1]
<1>a. /\ r \notin unresolved /\ pc[r] = "COMPLETION_RELEASE"
      /\ learned[r] < Len(submitted[r]) /\ learned[r] < Len(decisions)
      /\ learned' = [learned EXCEPT ![r] = @ + 1]
      /\ UNCHANGED <<submitted, decisions, unresolved>>
  BY DEF Succeed, Learn
<1>b. Pending(r) /\ d[r] = Last(r)
  BY <1>a, LearnsOwn DEF SessionInv, Decision
<1>c. Last(r).phase = pc[r]
  BY <1>a, <1>b DEF SessionInv, LocalOK, PendingOK
<1>d. /\ learned[r] \in Nat /\ launches[r] \in Nat /\ successes[r] \in Nat
      /\ nextRequest[r] = successes[r] + 1
  BY DEF SessionInv, HistoryTypes, NTypeOK, LocalOK, CountersOK
<1>e. Enqueued(d, r) = 0 /\ Completed(d, r, successes[r]) = 1
  BY <1>a, <1>b, <1>c, <1>d DEF Succeed, Enqueued, Completed, Unanimous, Decision
<1>f. ~Pending(r)'
  BY <1>a, <1>b, <1>d DEF SessionInv, HistoryTypes, Pending
<1>g. /\ pc[r] \in Early => launches[r] = successes[r]
      /\ pc[r] \in Late => launches[r] = successes[r] + 1
      /\ nextRequest[r] <= MaxRequests
  BY <1>a, <1>b, <1>c DEF SessionInv, LocalOK, PendingOK, CountersOK, Phases
<1>h. ~Last(r).error
  BY <1>b DEF Succeed, Unanimous, Decision
<1>1. NTypeOK'
  BY SMTT(30), <1>a, <1>d, <1>g DEF SessionInv, NTypeOK, Phases, Early, Late, Succeed, version, gpu
<1>2. HistoryTypes' /\ HistoryInv'
  BY <1>a, LearnHistory DEF SessionInv
<1>3. GroupInv'
  <2>1. /\ launches'[r] = launches[r] + Enqueued(d, r)
        /\ successes'[r] = successes[r] + Completed(d, r, successes[r])
        /\ \A q \in Ranks \ {r} : launches'[q] = launches[q] /\ successes'[q] = successes[q]
    BY <1>d, <1>e DEF SessionInv, NTypeOK, Succeed, version, gpu
  <2>2. NTypeOK /\ HistoryTypes /\ HistoryInv /\ GroupInv
    BY DEF SessionInv
  <2> QED
    BY <1>a, <2>1, <2>2, LearnKeepsStep
<1>4. LocalOK(r)'
  <2> HIDE DEF d
  <2> QED
    BY <1>a, <1>b, <1>c, <1>d, <1>f, <1>g, <1>h
       DEF SessionInv, NTypeOK, LocalOK, PendingOK, FlagsOK, CountersOK, FailedOK, Phases,
           Early, Late, Succeed, version, gpu
<1>5. \A q \in Ranks \ {r} : Unmoved(q)
  BY <1>a DEF SessionInv, NTypeOK, HistoryTypes, Unmoved, Succeed, version, gpu
<1> QED
  BY <1>1, <1>2, <1>3, <1>4, <1>5, Assemble

LEMMA RejectedKeeps ==
    ASSUME SessionInv, NEW r \in Ranks, Rejected(r)
    PROVE  SessionInv'
<1> USE SessionAssumption
<1> DEFINE d == decisions[learned[r] + 1]
<1>a. /\ r \notin unresolved /\ pc[r] \in Phases \ {"START", "START_ACK"}
      /\ learned[r] < Len(submitted[r]) /\ learned[r] < Len(decisions)
      /\ learned' = [learned EXCEPT ![r] = @ + 1]
      /\ UNCHANGED <<submitted, decisions, unresolved>>
  BY DEF Rejected, Learn
<1>b. Pending(r) /\ d[r] = Last(r)
  BY <1>a, LearnsOwn DEF SessionInv, Decision
<1>c. Last(r).phase = pc[r]
  BY <1>a, <1>b DEF SessionInv, LocalOK, PendingOK
<1>d. /\ learned[r] \in Nat /\ launches[r] \in Nat /\ successes[r] \in Nat
      /\ nextRequest[r] = successes[r] + 1
  BY DEF SessionInv, HistoryTypes, NTypeOK, LocalOK, CountersOK
<1>e. Enqueued(d, r) = 0 /\ Completed(d, r, successes[r]) = 0
  BY <1>a, <1>b, <1>c, <1>d DEF Rejected, Enqueued, Completed, Unanimous, Decision
<1>f. ~Pending(r)'
  BY <1>a, <1>b, <1>d DEF SessionInv, HistoryTypes, Pending
<1>g. /\ pc[r] \in Early => launches[r] = successes[r]
      /\ pc[r] \in Late => launches[r] = successes[r] + 1
      /\ nextRequest[r] <= MaxRequests
  BY <1>a, <1>b, <1>c DEF SessionInv, LocalOK, PendingOK, CountersOK, Phases
<1>1. NTypeOK'
  BY <1>a, <1>d, <1>g DEF SessionInv, NTypeOK, Phases, Early, Late, Rejected, Fail, LeftBehind, version, counters, gpu
<1>2. HistoryTypes' /\ HistoryInv'
  BY <1>a, LearnHistory DEF SessionInv
<1>3. GroupInv'
  <2>1. /\ launches'[r] = launches[r] + Enqueued(d, r)
        /\ successes'[r] = successes[r] + Completed(d, r, successes[r])
        /\ \A q \in Ranks \ {r} : launches'[q] = launches[q] /\ successes'[q] = successes[q]
    BY <1>d, <1>e DEF SessionInv, NTypeOK, Rejected, Fail, LeftBehind, version, counters, gpu
  <2>2. NTypeOK /\ HistoryTypes /\ HistoryInv /\ GroupInv
    BY DEF SessionInv
  <2> QED
    BY <1>a, <2>1, <2>2, LearnKeepsStep
<1>4. LocalOK(r)'
  <2> HIDE DEF d
  <2> QED
    BY <1>a, <1>b, <1>c, <1>d, <1>f, <1>g
       DEF SessionInv, NTypeOK, LocalOK, PendingOK, FlagsOK, CountersOK, FailedOK, Phases,
           Early, Late, Rejected, Fail, LeftBehind, version, counters, gpu
<1>5. \A q \in Ranks \ {r} : Unmoved(q)
  BY <1>a DEF SessionInv, NTypeOK, HistoryTypes, Unmoved, Rejected, Fail, LeftBehind, version, counters, gpu
<1> QED
  BY <1>1, <1>2, <1>3, <1>4, <1>5, Assemble

(* The control session breaks. *)
LEMMA SessionBrokenKeeps ==
    ASSUME SessionInv, NEW r \in Ranks, SessionBroken(r)
    PROVE  SessionInv'
<1>a. /\ r \notin unresolved /\ pc[r] \in Phases
      /\ unresolved' = unresolved \cup {r}
      /\ UNCHANGED <<submitted, decisions, learned>>
  BY DEF SessionBroken, Break
<1>b. Pending(r) /\ Pending(r)' /\ Last(r)' = Last(r)
  BY <1>a DEF SessionInv, LocalOK, PendingOK, Pending, Last
<1>1. NTypeOK'
  BY <1>a DEF SessionInv, NTypeOK, SessionBroken, Fail, version, counters, gpu
<1>2. HistoryTypes' /\ HistoryInv'
  <2>1. HistoryTypes'
    BY <1>a DEF SessionInv, HistoryTypes
  <2>2. HistoryInv'
    BY <1>a DEF SessionInv, HistoryInv, OneAhead, DecidedBySubmission
  <2> QED
    BY <2>1, <2>2
<1>3. GroupInv'
  BY <1>a, KeepsStep DEF SessionInv, SessionBroken, Fail, counters, gpu
<1>4. LocalOK(r)'
  BY <1>a, <1>b
     DEF SessionInv, NTypeOK, LocalOK, PendingOK, FlagsOK, CountersOK, FailedOK, Phases,
         Early, Late, SessionBroken, Fail, LeftBehind, version, counters, gpu
<1>5. \A q \in Ranks \ {r} : Unmoved(q)
  BY <1>a DEF SessionInv, NTypeOK, Unmoved, SessionBroken, Fail, version, counters, gpu
<1> QED
  BY <1>1, <1>2, <1>3, <1>4, <1>5, Assemble

(* A decision is taken when every rank has submitted its next body: all of  *)
(* them have learned the previous ones.                                     *)
LEMMA DecideKeeps ==
    ASSUME SessionInv, Decide, UNCHANGED <<pc, waiting, flags, version, counters, gpu>>
    PROVE  SessionInv'
<1>1. NTypeOK'
  BY DEF SessionInv, NTypeOK, flags, version, counters, gpu
<1>2. HistoryTypes' /\ HistoryInv'
  BY DecideHistory DEF SessionInv
<1>3. \A r \in Ranks : learned[r] = Len(decisions) /\ learned[r] \in Nat
  BY DEF SessionInv, HistoryTypes, HistoryInv, OneAhead, Decide
<1>4. GroupInv'
  BY <1>3 DEF SessionInv, GroupInv, InStep, Decide, counters, gpu
<1>5. \A q \in Ranks : Unmoved(q)
  BY DEF Unmoved, Decide, flags, version, counters, gpu
<1>6. \A q \in Ranks : LocalOK(q)'
  BY <1>5, UnmovedKeeps DEF SessionInv
<1> QED
  BY <1>1, <1>2, <1>4, <1>6 DEF SessionInv
-----------------------------------------------------------------------------
(* Each rank's own state, the bodies it submitted and the group's decisions *)
(* stay related as SessionInv says: in every reachable state of a session   *)
(* no rank is more than one decision ahead of another (execute_until).      *)
THEOREM SessionInvariant == NSpec => []SessionInv
<1>1. NInit => SessionInv
  <2> SUFFICES ASSUME NInit PROVE SessionInv
    OBVIOUS
  <2>1. NTypeOK /\ HistoryTypes
    BY SessionAssumption DEF NInit, GInit, NTypeOK, HistoryTypes
  <2>2. HistoryInv
    BY DEF NInit, GInit, HistoryInv, OneAhead, DecidedBySubmission
  <2>3. \A r \in Ranks : LocalOK(r)
    <3> SUFFICES ASSUME NEW r \in Ranks PROVE LocalOK(r)
      OBVIOUS
    <3>1. ~Pending(r)
      BY DEF NInit, GInit, Pending
    <3> QED
      BY <3>1, SessionAssumption
      DEF NInit, GInit, LocalOK, PendingOK, FlagsOK, CountersOK, FailedOK, Phases
  <2>4. GroupInv
    BY DEF NInit, GInit, GroupInv, InStep
  <2> QED
    BY <2>1, <2>2, <2>3, <2>4 DEF SessionInv
<1>2. SessionInv /\ [NNext]_nvars => SessionInv'
  <2> SUFFICES ASSUME SessionInv, [NNext]_nvars PROVE SessionInv'
    OBVIOUS
  <2>1. CASE Decide /\ UNCHANGED <<pc, waiting, flags, version, counters, gpu>>
    BY <2>1, DecideKeeps
  <2>2. ASSUME NEW r \in Ranks,
               Execute(r) \/ Close(r) \/ PublicTimeout(r) \/ GpuFinishes(r)
        PROVE  SessionInv'
    BY <2>2, ExecuteKeeps, CloseKeeps, PublicTimeoutKeeps, GpuFinishesKeeps
  <2>3. ASSUME NEW r \in Ranks, WorkerStep(r) PROVE SessionInv'
    BY <2>3, RequestPreparedKeeps, ExecuteReadyKeeps, ExecuteAckKeeps, StartKeeps,
       LaunchKeeps, LaunchFailsKeeps, ReportOutcomeKeeps, WriteEvidenceKeeps, ReleaseGuardKeeps,
       SucceedKeeps, RejectedKeeps, SessionBrokenKeeps, CloseSucceedsKeeps,
       CloseFailsKeeps DEF WorkerStep
  <2>4. CASE UNCHANGED nvars
    <3>1. NTypeOK'
      BY <2>4 DEF SessionInv, NTypeOK, nvars, flags, version, counters, gpu
    <3>2. HistoryTypes' /\ HistoryInv'
      BY <2>4, QuietHistory DEF SessionInv, nvars
    <3>3. GroupInv'
      BY <2>4, KeepsStep DEF SessionInv, nvars, gvars, counters, gpu
    <3>4. \A q \in Ranks : Unmoved(q)
      BY <2>4 DEF Unmoved, nvars, gvars, flags, version, counters, gpu
    <3>5. \A q \in Ranks : LocalOK(q)'
      BY <3>4, UnmovedKeeps DEF SessionInv
    <3> QED
      BY <3>1, <3>2, <3>3, <3>5 DEF SessionInv
  <2> QED
    BY <2>1, <2>2, <2>3, <2>4 DEF NNext
<1> QED
  BY <1>1, <1>2, PTL DEF NSpec

(* vericcl.h: neither a status nor an error nor a close gives the caller's  *)
(* buffers back while the GPU may touch them, for any number of ranks.      *)
THEOREM BuffersAreHeld == NSpec => []BuffersHeldWhileGpuRuns
<1>1. SessionInv => BuffersHeldWhileGpuRuns
  BY DEF SessionInv, NTypeOK, LocalOK, FlagsOK, BuffersHeldWhileGpuRuns
<1> QED
  BY <1>1, SessionInvariant, PTL

(* The ranks of a group move together (execute_until, submit): no rank      *)
(* enqueues before its peers are committed, none reports a success that a   *)
(* peer's GPU has not completed or a peer failed to enqueue, and no two     *)
(* ranks part unknowingly.                                                  *)
THEOREM GroupStaysInStep == NSpec => []GroupInStep
<1>1. SessionInv => GroupInStep
  <2> SUFFICES ASSUME SessionInv PROVE GroupInStep
    OBVIOUS
  <2>0. \A r \in Ranks : launches[r] \in Nat /\ successes[r] \in Nat /\ learned[r] \in Nat
    <3>1. /\ launches \in [Ranks -> 0..MaxRequests]
          /\ successes \in [Ranks -> 0..MaxRequests] /\ learned \in [Ranks -> Nat]
      BY DEF SessionInv, NTypeOK, HistoryTypes
    <3> QED
      BY <3>1, SessionAssumption
  <2>1. ASSUME NEW r \in Ranks, NEW q \in Ranks, learned[r] # learned[q] + 1
        PROVE  /\ launches[r] <= launches[q] /\ successes[r] <= successes[q]
    <3>1. CASE learned[r] = learned[q]
      BY <2>0, <3>1 DEF SessionInv, GroupInv, InStep
    <3>2. CASE learned[r] # learned[q]
      <4>1. learned[q] = learned[r] + 1
        BY <2>0, <2>1, <3>2, OneApart DEF SessionInv, HistoryInv
      <4>2. /\ launches[q] = launches[r] + Enqueued(decisions[learned[q]], r)
            /\ successes[q] = successes[r]
                              + Completed(decisions[learned[q]], r, successes[r])
        BY <4>1 DEF SessionInv, GroupInv, InStep
      <4> QED
        BY <2>0, <4>2 DEF Enqueued, Completed
    <3> QED
      BY <3>1, <3>2
  <2>2. ASSUME NEW r \in Ranks, NEW q \in Ranks, learned[r] = learned[q] + 1
        PROVE  /\ Pending(q) /\ decisions[learned[r]][q] = Last(q)
               /\ launches[r] = launches[q]
                                + (IF Last(q).phase = "START_ACK" THEN 1 ELSE 0)
               /\ successes[r] = successes[q] \/
                     /\ successes[r] = successes[q] + 1
                     /\ Last(q).phase = "COMPLETION_RELEASE" /\ ~Last(q).error
    <3>1. learned[q] < Len(decisions) /\ learned[q] < Len(submitted[q])
      BY <2>0, <2>2 DEF SessionInv, HistoryTypes, HistoryInv, OneAhead
    <3>2. Pending(q) /\ decisions[learned[q] + 1][q] = Last(q)
      BY <3>1, LearnsOwn DEF SessionInv, Decision
    <3>3. /\ launches[r] = launches[q] + Enqueued(decisions[learned[r]], q)
          /\ successes[r] = successes[q]
                            + Completed(decisions[learned[r]], q, successes[q])
      BY <2>2 DEF SessionInv, GroupInv, InStep
    <3> QED
      BY <2>0, <2>2, <3>2, <3>3 DEF Enqueued, Completed
  <2>3. \A q \in Ranks : LocalOK(q)
    BY DEF SessionInv
  <2>7. ASSUME NEW q \in Ranks
        PROVE  /\ q \notin notEnqueued => Enqueues(q) = launches[q]
               /\ q \in notEnqueued => Enqueues(q) = launches[q] - 1
    BY <2>0 DEF Enqueues
  <2>8. ASSUME NEW r \in Ranks, NEW q \in notEnqueued
        PROVE  /\ launches[r] <= launches[q] /\ successes[r] <= successes[q]
               /\ launches[q] = successes[q] + 1 /\ q \notin hardware
    <3>0. q \in Ranks
      BY DEF SessionInv, NTypeOK
    <3>1. /\ launches[q] = successes[q] + 1 /\ q \notin hardware
          /\ Pending(q) => Last(q).phase = "EXECUTION_OUTCOME"
      BY <2>3, <3>0 DEF LocalOK, FailedOK
    <3>2. CASE learned[r] # learned[q] + 1
      BY <2>1, <3>0, <3>1, <3>2
    <3>3. CASE learned[r] = learned[q] + 1
      BY <2>0, <2>2, <3>0, <3>1, <3>3
    <3> QED
      BY <3>2, <3>3
  <2>4. StartTogether
    <3>0. \A q \in notEnqueued : pc[q] = "EXECUTION_OUTCOME" \/ q \in uncertain
      BY <2>3 DEF SessionInv, NTypeOK, LocalOK, FailedOK
    <3> SUFFICES ASSUME NEW r \in Ranks, NEW q \in Ranks
                 PROVE  /\ Enqueues(r) <= Enqueues(q) + 1
                        /\ Enqueues(r) > Enqueues(q) =>
                              pc[q] = "START_ACK" \/ q \in unresolved \/ q \in notEnqueued
      BY <3>0 DEF StartTogether
    <3>1. CASE q \in notEnqueued
      BY <2>0, <2>7, <2>8, <3>1
    <3>2. CASE q \notin notEnqueued /\ learned[r] # learned[q] + 1
      BY <2>0, <2>1, <2>7, <3>2
    <3>3. CASE q \notin notEnqueued /\ learned[r] = learned[q] + 1
      <4>1. /\ Pending(q)
            /\ launches[r] = launches[q]
                             + (IF Last(q).phase = "START_ACK" THEN 1 ELSE 0)
        BY <2>2, <3>3
      <4>2. q \notin unresolved => pc[q] = Last(q).phase
        BY <4>1, <2>3 DEF LocalOK, PendingOK
      <4> QED
        BY <2>0, <2>7, <3>3, <4>1, <4>2
    <3> QED
      BY <3>1, <3>2, <3>3
  <2>5. SuccessIsGroupWide
    <3> SUFFICES ASSUME NEW r \in Ranks, NEW q \in Ranks
                 PROVE  /\ successes[r] <= Enqueues(q)
                        /\ q \in hardware => successes[r] < Enqueues(q)
      BY DEF SuccessIsGroupWide
    <3>0. CASE q \in notEnqueued
      BY <2>0, <2>7, <2>8, <3>0
    <3>1. CASE q \notin notEnqueued /\ learned[r] # learned[q] + 1
      BY <2>0, <2>1, <2>3, <2>7, <3>1 DEF LocalOK, CountersOK, FlagsOK
    <3>2. CASE q \notin notEnqueued /\ learned[r] = learned[q] + 1
      BY <2>0, <2>2, <2>3, <2>7, <3>2 DEF LocalOK, CountersOK, FlagsOK, PendingOK, Late
    <3> QED
      BY <3>0, <3>1, <3>2
  <2>6. NoSilentDivergence
    <3> SUFFICES ASSUME NEW r \in Ranks \ uncertain, NEW q \in Ranks \ uncertain,
                        pc[r] = "idle", pc[q] = "idle"
                 PROVE  successes[r] = successes[q] /\ learned[r] = learned[q]
      BY DEF NoSilentDivergence
    <3>1. ~Pending(r) /\ ~Pending(q)
      BY <2>3 DEF LocalOK, PendingOK, Phases
    <3>2. learned[r] = learned[q]
      BY <2>0, <2>2, <3>1, OneApart DEF SessionInv, HistoryInv
    <3> QED
      BY <3>2 DEF SessionInv, GroupInv, InStep
  <2> QED
    BY <2>4, <2>5, <2>6 DEF SessionInv, GroupInStep
<1> QED
  BY <1>1, SessionInvariant, PTL
-----------------------------------------------------------------------------
(* What waitid said of the leader is still true: it has ended. *)
ExitSeen ==
    /\ at = "scan" => exited
    /\ at \in {"scan", "check", "lastscan"} /\ exited => leader # "alive"

(* The leader's PID is a stranger's only after the leader was reaped, and   *)
(* nothing was ever sent to a stranger.                                     *)
SignalInv ==
    /\ TypeOK
    /\ at = "start" => leader = "none"
    /\ recycled => leader = "reaped"
    /\ ExitSeen
    /\ ~strangerHit

(* Before the fork there is no process, and no flag of the manager is set. *)
BeforeSpawn == at = "start" => kin = {} /\ ~identity /\ ~active

(* A scan under way has listed every process that still runs, but for the  *)
(* ones that were forked since its listing.                                *)
ScanComplete == at \in Scanning => Alive \subseteq scan \cup escaped

(* The leader is reaped only on the way out of the loop, and a clean exit   *)
(* with a reaped leader was read off a scan that found nobody.              *)
ReapedLate ==
    /\ at \in {"start", "spawned", "owned"} \cup Running => ~reaped
    /\ at \in {"left", "final"} /\ reaped /\ cleanup => Alive \subseteq escaped
    /\ at = "report" /\ cleanup => ~active /\ Alive \subseteq escaped

(* A job that was identified stays in active_jobs until a scan finds nobody. *)
ActiveWhileAlive ==
    /\ at \in {"spawned", "owned", "left", "final", "finalscan"} \cup Running =>
           (identity => active)
    /\ at = "reconcile" => active
    /\ at \in {"report", "done"} /\ identity /\ ~active => Alive \subseteq escaped

(* Receipts and resumptions come last and are final. *)
ReceiptsFinal ==
    /\ at \notin {"done", "reconcile", "dead", "resumescan"} => result = "none"
    /\ result = "clean" => ~active /\ Alive \subseteq escaped
    /\ resumed => at = "dead"
    /\ resumed /\ idFile => Alive \subseteq escaped

GoneInv ==
    /\ SignalInv
    /\ BeforeSpawn /\ ScanComplete /\ ReapedLate
    /\ ActiveWhileAlive /\ ReceiptsFinal
-----------------------------------------------------------------------------
(* Whatever the job does: the type invariant, and no signal to a stranger. *)
LEMMA SignalStep == SignalInv /\ [Next]_vars => SignalInv'
<1> SUFFICES ASSUME SignalInv, [Next]_vars PROVE SignalInv'
  OBVIOUS
<1> USE OwnedProcessAssumption
    DEF SignalInv, ExitSeen, TypeOK, Alive, Running, os, group, manager, control, files
<1>1. CASE TimePasses
  BY <1>1 DEF TimePasses
<1>2. CASE \E p \in Kin \cup {Leader}, c \in Kin : Fork(p, c)
  BY <1>2 DEF Fork
<1>3. CASE \E p \in Kin \cup {Leader} : ClosePipe(p)
  BY <1>3 DEF ClosePipe
<1>4. CASE \E p \in Kin \cup {Leader} : Exit(p)
  BY <1>4 DEF Exit
<1>5. CASE Recycle
  BY <1>5 DEF Recycle
<1>6. CASE NotStarted
  BY <1>6 DEF NotStarted
<1>7. CASE SpawnFailed
  BY <1>7 DEF SpawnFailed
<1>8. CASE Spawn
  BY <1>8 DEF Spawn
<1>9. CASE Own
  BY <1>9 DEF Own
<1>10. CASE RecordIdentity
  <2>1. cleanup' \in BOOLEAN
    BY <1>10, Zenon DEF RecordIdentity
  <2> QED
    BY <1>10, <2>1 DEF RecordIdentity
<1>11. CASE Watch
  BY <1>11 DEF Watch, Kill, SignalSent, Matches
<1>12. CASE Select
  <2>1. storageFailed' \in BOOLEAN /\ captured' \in BOOLEAN
    BY <1>12, Zenon DEF Select
  <2> QED
    BY <1>12, <2>1 DEF Select
<1>13. CASE WaitLeader
  BY <1>13 DEF WaitLeader, BeginScan
<1>14. CASE ScanGroup
  <2>1. reaped' \in BOOLEAN /\ cleanup' \in BOOLEAN
    BY <1>14, Zenon DEF ScanGroup
  <2> QED
    BY <1>14, <2>1 DEF EndScan, ScanGroup, GroupGone, Members
<1>15. CASE CheckDeadline
  BY <1>15 DEF CheckDeadline, BeginScan
<1>16. CASE LastScan
  BY <1>16 DEF EndScan, LastScan, Members
<1>17. CASE Leave
  BY <1>17 DEF Leave
<1>18. CASE Interrupt
  BY <1>18 DEF Interrupt, Raise, EndScan, Kill, SignalSent, Matches
<1>19. CASE RecordFails
  BY <1>19 DEF RecordFails, Raise, EndScan, Kill, SignalSent, Matches
<1>20. CASE LoopFails
  BY <1>20 DEF LoopFails, Raise, EndScan, Kill, SignalSent, Matches
<1>21. CASE FinalWait
  <2>1. reaped' \in BOOLEAN
    BY <1>21, Zenon DEF FinalWait
  <2> QED
    BY <1>21, <2>1 DEF FinalWait, BeginScan
<1>22. CASE FinalScan
  BY <1>22 DEF EndScan, FinalScan, Members
<1>23. CASE FinalReaped
  BY <1>23 DEF FinalReaped
<1>24. CASE Report
  BY <1>24 DEF Report
<1>25. CASE Reconcile
  BY <1>25 DEF Reconcile, BeginScan
<1>26. CASE ReconcileScan
  <2>1. active' \in BOOLEAN
    BY <1>26, Zenon DEF ReconcileScan
  <2> QED
    BY <1>26, <2>1 DEF EndScan, ReconcileScan, Members
<1>27. CASE Crash
  <2>1. active' \in BOOLEAN
    BY <1>27, Zenon DEF Crash, EndScan
  <2> QED
    BY <1>27, <2>1 DEF Crash, EndScan
<1>28. CASE AdoptedReaped
  BY <1>28 DEF AdoptedReaped
<1>29. CASE ResumeAtOnce
  BY <1>29 DEF ResumeAtOnce
<1>30. CASE ResumeScan
  BY <1>30 DEF ResumeScan, BeginScan, Matches
<1>31. CASE ResumeDecides
  BY <1>31 DEF EndScan, ResumeDecides, Members
<1>32. CASE UNCHANGED vars
  BY <1>32 DEF vars
<1> QED
  BY <1>1, <1>2, <1>3, <1>4, <1>5, <1>6, <1>7, <1>8, <1>9, <1>10, <1>11,
     <1>12, <1>13, <1>14, <1>15, <1>16, <1>17, <1>18, <1>19, <1>20, <1>21,
     <1>22, <1>23, <1>24, <1>25, <1>26, <1>27, <1>28, <1>29, <1>30, <1>31,
     <1>32 DEF Next, Manager

LEMMA InitSignal == Init => SignalInv
<1> SUFFICES ASSUME Init PROVE SignalInv
  OBVIOUS
<1>1. /\ recycled \in BOOLEAN /\ strangerHit \in BOOLEAN /\ identity \in BOOLEAN
      /\ termSent \in BOOLEAN /\ killSent \in BOOLEAN
      /\ storageFailed \in BOOLEAN /\ exited \in BOOLEAN
      /\ captured \in BOOLEAN /\ reaped \in BOOLEAN /\ active \in BOOLEAN
      /\ idFile \in BOOLEAN /\ resumed \in BOOLEAN
  BY Zenon DEF Init
<1> QED
  BY <1>1 DEF Init, SignalInv, ExitSeen, TypeOK, Alive, Running

(* Whatever the job forks, ignores or outlives, the types hold, a PID can   *)
(* be a stranger's only after its leader was reaped, and what waitid said   *)
(* of the leader stays true while the manager acts on it (terminate_group). *)
THEOREM SignalInvariant == Spec => []SignalInv
<1>1. Init => SignalInv
  BY InitSignal
<1> QED
  BY <1>1, SignalStep, PTL DEF Spec

(* Signals reach only the owned group (signal_owned_process_group): a PID   *)
(* that the system has given to somebody else is never signalled.           *)
THEOREM StrangersAreSafe == Spec => []NoStrangerSignalled
<1>1. SignalInv => NoStrangerSignalled
  BY DEF SignalInv, NoStrangerSignalled
<1> QED
  BY <1>1, SignalInvariant, PTL
-----------------------------------------------------------------------------
(* Every conclusion drawn from an empty scan is true of all processes but    *)
(* those forked since its listing, and stays true: only such processes are   *)
(* left to fork, and no further scan begins.                                 *)
LEMMA GoneStep == GoneInv /\ [Next]_vars => GoneInv'
<1> SUFFICES ASSUME GoneInv, [Next]_vars PROVE GoneInv'
  OBVIOUS
<1>a. SignalInv /\ SignalInv'
  BY SignalStep DEF GoneInv
<1> SUFFICES (/\ BeforeSpawn /\ ScanComplete /\ ReapedLate
              /\ ActiveWhileAlive /\ ReceiptsFinal)'
  BY <1>a DEF GoneInv
<1> USE <1>a, OwnedProcessAssumption
    DEF GoneInv, SignalInv, ExitSeen, TypeOK, Alive, Running, Scanning, os,
        group, manager, control, files, BeforeSpawn, ScanComplete, ReapedLate,
        ActiveWhileAlive, ReceiptsFinal
<1>1. CASE TimePasses
  BY <1>1 DEF TimePasses
<1>2. CASE \E p \in Kin \cup {Leader}, c \in Kin : Fork(p, c)
  BY <1>2 DEF Fork
<1>3. CASE \E p \in Kin \cup {Leader} : ClosePipe(p)
  BY <1>3 DEF ClosePipe
<1>4. CASE \E p \in Kin \cup {Leader} : Exit(p)
  BY <1>4 DEF Exit
<1>5. CASE Recycle
  BY <1>5 DEF Recycle
<1>6. CASE NotStarted
  BY <1>6 DEF NotStarted
<1>7. CASE SpawnFailed
  BY <1>7 DEF SpawnFailed
<1>8. CASE Spawn
  BY <1>8 DEF Spawn
<1>9. CASE Own
  BY <1>9 DEF Own
<1>10. CASE RecordIdentity
  BY <1>10 DEF RecordIdentity
<1>11. CASE Watch
  BY <1>11 DEF Watch, Kill, SignalSent, Matches
<1>12. CASE Select
  BY <1>12 DEF Select
<1>13. CASE WaitLeader
  BY <1>13 DEF WaitLeader, BeginScan
<1>14. CASE ScanGroup
  BY <1>14 DEF EndScan, ScanGroup, GroupGone, Members
<1>15. CASE CheckDeadline
  BY <1>15 DEF CheckDeadline, BeginScan
<1>16. CASE LastScan
  BY <1>16 DEF EndScan, LastScan, Members
<1>17. CASE Leave
  BY <1>17 DEF Leave
<1>18. CASE Interrupt
  BY <1>18 DEF Interrupt, Raise, EndScan, Kill, SignalSent, Matches
<1>19. CASE RecordFails
  BY <1>19 DEF RecordFails, Raise, EndScan, Kill, SignalSent, Matches
<1>20. CASE LoopFails
  BY <1>20 DEF LoopFails, Raise, EndScan, Kill, SignalSent, Matches
<1>21. CASE FinalWait
  BY <1>21 DEF FinalWait, BeginScan
<1>22. CASE FinalScan
  BY <1>22 DEF EndScan, FinalScan, Members
<1>23. CASE FinalReaped
  BY <1>23 DEF FinalReaped
<1>24. CASE Report
  BY <1>24 DEF Report
<1>25. CASE Reconcile
  BY <1>25 DEF Reconcile, BeginScan
<1>26. CASE ReconcileScan
  BY <1>26 DEF EndScan, ReconcileScan, Members
<1>27. CASE Crash
  BY <1>27 DEF Crash, EndScan
<1>28. CASE AdoptedReaped
  BY <1>28 DEF AdoptedReaped
<1>29. CASE ResumeAtOnce
  BY <1>29 DEF ResumeAtOnce
<1>30. CASE ResumeScan
  BY <1>30 DEF ResumeScan, BeginScan, Matches
<1>31. CASE ResumeDecides
  BY <1>31 DEF EndScan, ResumeDecides, Members
<1>32. CASE UNCHANGED vars
  BY <1>32 DEF vars
<1> QED
  BY <1>1, <1>2, <1>3, <1>4, <1>5, <1>6, <1>7, <1>8, <1>9, <1>10, <1>11,
     <1>12, <1>13, <1>14, <1>15, <1>16, <1>17, <1>18, <1>19, <1>20, <1>21,
     <1>22, <1>23, <1>24, <1>25, <1>26, <1>27, <1>28, <1>29, <1>30, <1>31,
     <1>32 DEF Next, Manager

(* Whoever acts on the end of a job (run_owned_process,                      *)
(* reconcile_owned_process, _resume_ownership) acts on a group whose leader  *)
(* is gone and whose living processes, if any, were forked after the         *)
(* deciding scan had listed /proc, or descend from such a process; for any   *)
(* number of processes and whatever they do.                                 *)
THEOREM GoneIsGone == Spec => []GoneMeansGone
<1>1. Init => GoneInv
  <2>1. Init => SignalInv
    BY InitSignal
  <2> QED
    BY <2>1 DEF Init, GoneInv, Alive, Running, Scanning, BeforeSpawn,
                ScanComplete, ReapedLate, ActiveWhileAlive, ReceiptsFinal
<1>2. GoneInv => GoneMeansGone
  BY DEF GoneInv, SignalInv, GoneMeansGone, ReceiptMeansGone, ResumeMeansGone,
         ActiveWhileAlive, ReceiptsFinal
<1>3. GoneInv /\ [Next]_vars => GoneInv'
  BY GoneStep
<1> QED
  BY <1>1, <1>2, <1>3, PTL DEF Spec
=============================================================================
