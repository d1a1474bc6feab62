--------------------------- MODULE Budget_proofs ---------------------------
(***************************************************************************)
(* Proofs about BudgetManager, for any stages, limits, number of leases    *)
(* and threads, and about ResumableBudget, for any number of crashes too.  *)
(*                                                                         *)
(* The inductive invariant BudgetInv of the manager adds two facts to the  *)
(* properties: a lease started in the past, and a thread that sleeps names *)
(* a lease that is not a model lease (its identity is not reused).         *)
(*                                                                         *)
(* For the run that crashes and resumes: what the manager counts against a *)
(* stage covers what was worked, and so does, at every moment, what a      *)
(* resume from the last checkpoint would count.  Between two saves only    *)
(* the stage works that held its lease when the first was written          *)
(* (AtWork); as long as it works within its deadline, the charge for that  *)
(* lease grows with the clock.                                             *)
(***************************************************************************)
EXTENDS ResumableBudget, FiniteSums, TLAPS

StartedInPast == \A i \in Open : leases[i].started <= clock

SleepersNameRoots ==
    \A w \in Workers : waiting[w] # NoRequest => ~leases[waiting[w].parent].model

BudgetInv == /\ TypeOK
             /\ StartedInPast
             /\ SleepersNameRoots
             /\ OneRootPerStage
             /\ ModelInsideRoot
             /\ OutstandingWithinLimits

-----------------------------------------------------------------------------
LEMMA UnusedType == Unused \in Lease
BY BudgetAssumption DEF Unused, Lease

LEMMA RootDeadlineType ==
    ASSUME TypeOK, NEW s \in Stages
    PROVE  /\ RootDeadline(s) \in Int
           /\ RootDeadline(s) - clock <= PerRound[s] - roundConsumed[s]
           /\ RootDeadline(s) - clock <= Total[s] - consumed[s]
           /\ RootDeadline(s) <= GlobalDeadline
           /\ GlobalDeadline \in Int
BY BudgetAssumption DEF TypeOK, RootDeadline, Smaller, GlobalDeadline

LEMMA ModelDeadlineType ==
    ASSUME TypeOK, NEW p \in LeaseIds
    PROVE  /\ ModelDeadline(p) \in Int
           /\ ModelDeadline(p) <= leases[p].deadline
           /\ ModelWorkDeadline(p) \in Int
           /\ ModelWorkDeadline(p) <= leases[p].work
<1> USE BudgetAssumption DEF TypeOK
<1>1. leases[p].deadline \in Int /\ leases[p].work \in Int
  BY DEF Lease
<1>2. ModelDeadline(p) \in Int /\ ModelDeadline(p) <= leases[p].deadline
  BY <1>1 DEF ModelDeadline, Smaller
<1> QED
  BY <1>1, <1>2 DEF ModelWorkDeadline, Smaller

LEMMA InitInv == Init => BudgetInv
<1> SUFFICES ASSUME Init PROVE BudgetInv
  OBVIOUS
<1> USE DEF Init
<1>1. TypeOK
  <2>1. cancelled \in BOOLEAN
    BY Zenon
  <2>2. leases \in [LeaseIds -> Lease]
    BY UnusedType
  <2>3. waiting \in [Workers -> Request \cup {NoRequest}]
    OBVIOUS
  <2>4. /\ consumed \in [Stages -> Nat] /\ modelWork \in [Stages -> Nat]
        /\ roundConsumed \in [Stages -> Nat]
    OBVIOUS
  <2>5. /\ clock \in Nat /\ startedAt \in Nat
        /\ elapsedBefore \in Nat /\ startedRounds \in Nat /\ cpuInUse \in Int
    OBVIOUS
  <2> QED BY <2>1, <2>2, <2>3, <2>4, <2>5, Zenon DEF TypeOK
<1>2. Open = {}
  BY DEF Open, Unused
<1> QED
  BY <1>1, <1>2 DEF BudgetInv, StartedInPast, SleepersNameRoots,
     OneRootPerStage, ModelInsideRoot, OutstandingWithinLimits, Roots, Models

(* Steps that leave every lease and every usage counter alone. *)
LEMMA QuietStep ==
    ASSUME BudgetInv, TypeOK', clock <= clock', SleepersNameRoots',
           UNCHANGED <<startedAt, elapsedBefore, consumed, leases>>,
           \A s \in Stages : roundConsumed'[s] <= roundConsumed[s]
    PROVE  BudgetInv'
<1> USE DEF BudgetInv
<1>1. Open' = Open /\ Roots' = Roots /\ Models' = Models
  BY DEF Open, Roots, Models
<1>2. StartedInPast'
  <2> SUFFICES ASSUME NEW i \in Open PROVE leases[i].started <= clock'
    BY <1>1 DEF StartedInPast
  <2>1. leases[i].started \in Nat /\ clock \in Nat /\ clock' \in Nat
    BY DEF TypeOK, Lease, Open
  <2> QED BY <2>1 DEF StartedInPast
<1>3. OneRootPerStage' /\ ModelInsideRoot'
  BY <1>1 DEF OneRootPerStage, ModelInsideRoot
<1>4. OutstandingWithinLimits'
  <2> SUFFICES ASSUME NEW i \in Roots
               PROVE  LET s == leases[i].stage
                          allowance == leases[i].deadline - leases[i].started
                      IN  /\ consumed[s] + allowance <= Total[s]
                          /\ roundConsumed'[s] + allowance <= PerRound[s]
                          /\ leases[i].deadline <= GlobalDeadline
    BY <1>1 DEF OutstandingWithinLimits, GlobalDeadline
  <2>1. /\ leases[i].stage \in Stages /\ leases[i].deadline \in Int
        /\ leases[i].started \in Nat
    BY DEF TypeOK, Lease, Open, Roots
  <2>2. /\ roundConsumed'[leases[i].stage] \in Nat
        /\ roundConsumed[leases[i].stage] \in Nat
        /\ PerRound[leases[i].stage] \in Nat
    BY <2>1, BudgetAssumption DEF TypeOK
  <2> QED BY <2>1, <2>2 DEF OutstandingWithinLimits
<1> QED BY <1>2, <1>3, <1>4

(* A lease that is opened on a fresh identity i. *)
LEMMA OpenStep ==
    ASSUME BudgetInv, NEW i \in Fresh, NEW L \in Lease, ~L.closed,
           leases' = [leases EXCEPT ![i] = L]
    PROVE  /\ i \in LeaseIds /\ i \notin Open
           /\ leases' \in [LeaseIds -> Lease]
           /\ leases'[i] = L
           /\ \A j \in LeaseIds : j # i => leases'[j] = leases[j]
           /\ Open' = Open \cup {i}
           /\ Roots' = IF L.model THEN Roots ELSE Roots \cup {i}
           /\ Models' = IF L.model THEN Models \cup {i} ELSE Models
<1> USE DEF BudgetInv
<1>1. i \in LeaseIds /\ leases[i].closed
  BY DEF Fresh
<1>2. leases \in [LeaseIds -> Lease]
  BY DEF TypeOK
<1>3. /\ leases' \in [LeaseIds -> Lease] /\ leases'[i] = L
      /\ \A j \in LeaseIds : j # i => leases'[j] = leases[j]
  BY <1>1, <1>2
<1>4. i \notin Open
  BY <1>1 DEF Open
<1>5. Open' = Open \cup {i}
  BY <1>1, <1>3 DEF Open
<1>6. Roots' = IF L.model THEN Roots ELSE Roots \cup {i}
  BY <1>1, <1>3, <1>4, <1>5 DEF Roots, Open
<1>7. Models' = IF L.model THEN Models \cup {i} ELSE Models
  BY <1>1, <1>3, <1>4, <1>5 DEF Models, Open
<1> QED BY <1>1, <1>3, <1>4, <1>5, <1>6, <1>7

LEMMA AcquireRootInv ==
    ASSUME BudgetInv, NEW s \in Stages, NEW i \in LeaseIds, AcquireRoot(s, i)
    PROVE  BudgetInv'
<1> DEFINE L == [stage |-> s, started |-> clock, deadline |-> RootDeadline(s),
                 work |-> RootDeadline(s) - Reserve, model |-> FALSE,
                 threads |-> 0, parent |-> NoParent,
                 closed |-> FALSE, unresolved |-> FALSE]
<1> USE DEF BudgetInv
<1>1. /\ RootDeadline(s) \in Int
      /\ RootDeadline(s) - clock <= PerRound[s] - roundConsumed[s]
      /\ RootDeadline(s) - clock <= Total[s] - consumed[s]
      /\ RootDeadline(s) <= GlobalDeadline
  BY RootDeadlineType
<1>2. L \in Lease
  BY <1>1, BudgetAssumption DEF Lease, TypeOK
<1>3. i \in Fresh /\ leases' = [leases EXCEPT ![i] = L] /\ RootsOf(s) = {}
  BY DEF AcquireRoot, StageIdle
<1>4. ~L.closed /\ ~L.model
  OBVIOUS
<1> HIDE DEF L
<1>5. /\ i \in LeaseIds /\ i \notin Open
      /\ leases' \in [LeaseIds -> Lease]
      /\ leases'[i] = L
      /\ \A j \in LeaseIds : j # i => leases'[j] = leases[j]
      /\ Open' = Open \cup {i}
      /\ Roots' = Roots \cup {i}
      /\ Models' = Models
  BY <1>2, <1>3, <1>4, OpenStep
<1>6. TypeOK'
  BY <1>5 DEF TypeOK, AcquireRoot
<1>7. StartedInPast'
  BY <1>5 DEF StartedInPast, AcquireRoot, Open, L, TypeOK
<1>8. SleepersNameRoots'
  <2> SUFFICES ASSUME NEW w \in Workers, waiting[w] # NoRequest
               PROVE  ~leases'[waiting[w].parent].model
    BY DEF SleepersNameRoots, AcquireRoot
  <2>1. waiting[w].parent # i /\ waiting[w].parent \in LeaseIds
    BY <1>3 DEF Fresh, TypeOK, Request
  <2> QED BY <2>1, <1>5 DEF SleepersNameRoots
<1>9. OneRootPerStage'
  <2> SUFFICES ASSUME NEW j \in Roots, leases[j].stage = s PROVE FALSE
    BY <1>5 DEF OneRootPerStage, L, Roots, Open
  <2> QED BY <1>3 DEF RootsOf
<1>10. ModelInsideRoot'
  BY <1>5 DEF ModelInsideRoot, Models, Roots, Open
<1>11. OutstandingWithinLimits'
  <2>1. consumed' = consumed /\ roundConsumed' = roundConsumed
        /\ GlobalDeadline' = GlobalDeadline
    BY DEF AcquireRoot, GlobalDeadline
  <2>2. \A j \in Roots : leases'[j] = leases[j]
    BY <1>5 DEF Roots, Open
  <2>3. /\ consumed[s] + (L.deadline - L.started) <= Total[s]
        /\ roundConsumed[s] + (L.deadline - L.started) <= PerRound[s]
        /\ L.deadline <= GlobalDeadline
        /\ L.stage = s
    BY <1>1, BudgetAssumption DEF L, TypeOK
  <2> QED BY <2>1, <2>2, <2>3, <1>5 DEF OutstandingWithinLimits
<1> QED BY <1>6, <1>7, <1>8, <1>9, <1>10, <1>11

(* A model lease is granted under an open root lease p. *)
LEMMA GrantInv ==
    ASSUME BudgetInv, NEW p \in Roots, NEW n \in Threads, NEW i \in LeaseIds,
           Grant(p, n, i), NEW W \in [Workers -> Request \cup {NoRequest}],
           waiting' = W, \A w \in Workers : W[w] \in {waiting[w], NoRequest},
           UNCHANGED <<clock, startedAt, elapsedBefore, consumed, modelWork,
                       roundConsumed, startedRounds, cancelled>>
    PROVE  BudgetInv'
<1> DEFINE L == [stage |-> leases[p].stage, started |-> clock,
                 deadline |-> ModelDeadline(p), work |-> ModelWorkDeadline(p),
                 model |-> TRUE, threads |-> n, parent |-> p,
                 closed |-> FALSE, unresolved |-> FALSE]
<1> USE DEF BudgetInv
<1>1. p \in LeaseIds /\ leases[p] \in Lease
  BY DEF Roots, Open, TypeOK
<1>2. /\ ModelDeadline(p) \in Int /\ ModelDeadline(p) <= leases[p].deadline
      /\ ModelWorkDeadline(p) \in Int /\ ModelWorkDeadline(p) <= leases[p].work
  BY <1>1, ModelDeadlineType
<1>3. L \in Lease
  BY <1>1, <1>2, BudgetAssumption DEF Lease, TypeOK, Threads
<1>4. i \in Fresh /\ leases' = [leases EXCEPT ![i] = L]
  BY DEF Grant
<1>5. ~L.closed /\ L.model
  OBVIOUS
<1>6. L.parent = p /\ L.stage = leases[p].stage /\ L.deadline <= leases[p].deadline
      /\ L.work <= leases[p].work /\ L.started = clock
  BY <1>2
<1> HIDE DEF L
<1>7. /\ i \in LeaseIds /\ i \notin Open
      /\ leases' \in [LeaseIds -> Lease]
      /\ leases'[i] = L
      /\ \A j \in LeaseIds : j # i => leases'[j] = leases[j]
      /\ Open' = Open \cup {i}
      /\ Roots' = Roots
      /\ Models' = Models \cup {i}
  BY <1>3, <1>4, <1>5, OpenStep
<1>8. TypeOK'
  <2>1. cpuInUse' \in Int
    BY BudgetAssumption DEF Grant, TypeOK, Threads
  <2> QED BY <2>1, <1>7 DEF TypeOK
<1>9. StartedInPast'
  BY <1>6, <1>7 DEF StartedInPast, Open, TypeOK
<1>10. SleepersNameRoots'
  <2> SUFFICES ASSUME NEW w \in Workers, W[w] # NoRequest
               PROVE  ~leases'[W[w].parent].model
    BY DEF SleepersNameRoots
  <2>1. W[w] = waiting[w]
    OBVIOUS
  <2>2. waiting[w].parent # i /\ waiting[w].parent \in LeaseIds
    BY <1>4, <2>1 DEF Fresh, TypeOK, Request
  <2> QED BY <2>1, <2>2, <1>7 DEF SleepersNameRoots
<1>11. \A j \in Roots : leases'[j] = leases[j]
  BY <1>7 DEF Roots, Open
<1>12. OneRootPerStage'
  BY <1>7, <1>11 DEF OneRootPerStage
<1>13. ModelInsideRoot'
  <2> SUFFICES ASSUME NEW j \in Models \cup {i}
               PROVE  /\ leases'[j].parent \in Roots
                      /\ leases'[leases'[j].parent].stage = leases'[j].stage
                      /\ leases'[j].deadline <= leases'[leases'[j].parent].deadline
                      /\ leases'[j].work <= leases'[leases'[j].parent].work
    BY <1>7 DEF ModelInsideRoot
  <2>1. CASE j = i
    BY <2>1, <1>6, <1>7, <1>11
  <2>2. CASE j # i
    <3>1. j \in Models /\ leases'[j] = leases[j]
      BY <2>2, <1>7 DEF Models, Open
    <3> QED BY <3>1, <1>11 DEF ModelInsideRoot
  <2> QED BY <2>1, <2>2
<1>14. OutstandingWithinLimits'
  BY <1>7, <1>11 DEF OutstandingWithinLimits, GlobalDeadline
<1> QED BY <1>8, <1>9, <1>10, <1>12, <1>13, <1>14

LEMMA CloseUnconfirmedInv ==
    ASSUME BudgetInv, NEW i \in LeaseIds, CloseUnconfirmed(i)
    PROVE  BudgetInv'
<1> USE DEF BudgetInv
<1>1. leases \in [LeaseIds -> Lease]
  BY DEF TypeOK
<1>2. leases' = [leases EXCEPT ![i].unresolved = TRUE]
  BY DEF CloseUnconfirmed
<1>3. leases' \in [LeaseIds -> Lease]
  BY <1>1, <1>2 DEF Lease
<1>4. \A j \in LeaseIds :
         /\ leases'[j].closed = leases[j].closed
         /\ leases'[j].model = leases[j].model
         /\ leases'[j].stage = leases[j].stage
         /\ leases'[j].parent = leases[j].parent
         /\ leases'[j].started = leases[j].started
         /\ leases'[j].deadline = leases[j].deadline
         /\ leases'[j].work = leases[j].work
  BY <1>1, <1>2 DEF Lease
<1>5. Open' = Open /\ Roots' = Roots /\ Models' = Models
  BY <1>4 DEF Open, Roots, Models
<1>6. TypeOK'
  BY <1>3 DEF TypeOK, CloseUnconfirmed
<1>7. StartedInPast'
  BY <1>4, <1>5 DEF StartedInPast, CloseUnconfirmed, Open
<1>8. SleepersNameRoots'
  <2> SUFFICES ASSUME NEW w \in Workers, waiting[w] # NoRequest
               PROVE  ~leases'[waiting[w].parent].model
    BY DEF SleepersNameRoots, CloseUnconfirmed
  <2>1. waiting[w].parent \in LeaseIds
    BY DEF TypeOK, Request
  <2> QED BY <2>1, <1>4 DEF SleepersNameRoots
<1>9. OneRootPerStage' /\ ModelInsideRoot'
  BY <1>4, <1>5 DEF OneRootPerStage, ModelInsideRoot, Roots, Models, Open
<1>10. OutstandingWithinLimits'
  BY <1>4, <1>5 DEF OutstandingWithinLimits, GlobalDeadline, CloseUnconfirmed,
                    Roots, Open
<1> QED BY <1>6, <1>7, <1>8, <1>9, <1>10

(* What a confirmed close does to the set of leases. *)
LEMMA CloseStep ==
    ASSUME BudgetInv, NEW i \in LeaseIds, CloseConfirmed(i)
    PROVE  /\ leases' \in [LeaseIds -> Lease]
           /\ leases'[i] = Unused
           /\ \A j \in LeaseIds : j # i => leases'[j] = leases[j]
           /\ Open' = Open \ {i}
           /\ Roots' = Roots \ {i}
           /\ Models' = Models \ {i}
<1>1. leases \in [LeaseIds -> Lease]
  BY DEF BudgetInv, TypeOK
<1>2. leases' = [leases EXCEPT ![i] = Unused]
  BY DEF CloseConfirmed
<1>3. /\ leases' \in [LeaseIds -> Lease] /\ leases'[i] = Unused
      /\ \A j \in LeaseIds : j # i => leases'[j] = leases[j]
  BY <1>1, <1>2, UnusedType
<1>4. Open' = Open \ {i}
  BY <1>3 DEF Open, Unused
<1>5. Roots' = Roots \ {i} /\ Models' = Models \ {i}
  BY <1>3, <1>4 DEF Roots, Models, Open
<1> QED BY <1>3, <1>4, <1>5

(* What it charges: only the counters of the lease's own stage move, and    *)
(* they never go down.                                                      *)
LEMMA ChargeStep ==
    ASSUME BudgetInv, NEW i \in LeaseIds, CloseConfirmed(i)
    PROVE  /\ consumed' \in [Stages -> Nat]
           /\ roundConsumed' \in [Stages -> Nat]
           /\ modelWork' \in [Stages -> Nat]
           /\ cpuInUse' \in Int
           /\ \A s \in Stages : consumed'[s] >= consumed[s]
           /\ \A s \in Stages : s # leases[i].stage \/ leases[i].model =>
                  consumed'[s] = consumed[s] /\ roundConsumed'[s] = roundConsumed[s]
           /\ leases[i].model => modelWork'[leases[i].stage]
                                   = modelWork[leases[i].stage] + Elapsed(i)
           /\ ~leases[i].model => consumed'[leases[i].stage]
                                   = consumed[leases[i].stage] + Elapsed(i)
<1>1. i \in Open /\ leases[i] \in Lease
  BY DEF BudgetInv, TypeOK, CloseConfirmed
<1>2. /\ clock \in Nat /\ leases[i].started \in Nat /\ leases[i].stage \in Stages
      /\ leases[i].threads \in Nat /\ leases[i].started <= clock
  BY <1>1 DEF BudgetInv, TypeOK, StartedInPast, Lease
<1>3. Elapsed(i) \in Nat
  BY <1>2 DEF Elapsed
<1>4. /\ consumed \in [Stages -> Nat] /\ modelWork \in [Stages -> Nat]
      /\ roundConsumed \in [Stages -> Nat] /\ cpuInUse \in Int
  BY DEF BudgetInv, TypeOK
<1>5. CASE leases[i].model
  <2>1. /\ cpuInUse' = cpuInUse - leases[i].threads
        /\ modelWork' = [modelWork EXCEPT ![leases[i].stage] = @ + Elapsed(i)]
        /\ consumed' = consumed /\ roundConsumed' = roundConsumed
    BY <1>5 DEF CloseConfirmed, ChargeClosed
  <2>2. modelWork' \in [Stages -> Nat] /\ cpuInUse' \in Int
    BY <1>2, <1>3, <1>4, <2>1
  <2> QED BY <1>2, <1>3, <1>4, <1>5, <2>1, <2>2
<1>6. CASE ~leases[i].model
  <2>1. /\ consumed' = [consumed EXCEPT ![leases[i].stage] = @ + Elapsed(i)]
        /\ roundConsumed' =
              [roundConsumed EXCEPT ![leases[i].stage] = @ + Elapsed(i)]
        /\ cpuInUse' = cpuInUse /\ modelWork' = modelWork
    BY <1>6 DEF CloseConfirmed, ChargeClosed
  <2> QED BY <1>2, <1>3, <1>4, <1>6, <2>1
<1> QED BY <1>5, <1>6

LEMMA CloseConfirmedInv ==
    ASSUME BudgetInv, NEW i \in LeaseIds, CloseConfirmed(i)
    PROVE  BudgetInv'
<1>1. /\ leases' \in [LeaseIds -> Lease]
      /\ leases'[i] = Unused
      /\ \A j \in LeaseIds : j # i => leases'[j] = leases[j]
      /\ Open' = Open \ {i}
      /\ Roots' = Roots \ {i}
      /\ Models' = Models \ {i}
  BY CloseStep
<1>2. /\ consumed' \in [Stages -> Nat]
      /\ roundConsumed' \in [Stages -> Nat]
      /\ modelWork' \in [Stages -> Nat]
      /\ cpuInUse' \in Int
      /\ \A s \in Stages : s # leases[i].stage \/ leases[i].model =>
             consumed'[s] = consumed[s] /\ roundConsumed'[s] = roundConsumed[s]
  BY ChargeStep
<1>3. /\ i \in Open /\ Children(i) = {}
      /\ UNCHANGED <<clock, startedAt, elapsedBefore, startedRounds, cancelled,
                     waiting>>
  BY DEF CloseConfirmed
<1> USE DEF BudgetInv
<1>4. TypeOK'
  <2>1. cancelled' \in BOOLEAN
    BY <1>3, Zenon DEF TypeOK
  <2>2. /\ clock' \in Nat /\ startedAt' \in Nat /\ elapsedBefore' \in Nat
        /\ startedRounds' \in Nat
        /\ waiting' \in [Workers -> Request \cup {NoRequest}]
    BY <1>3 DEF TypeOK
  <2> QED BY <1>1, <1>2, <2>1, <2>2, Zenon DEF TypeOK
<1>5. StartedInPast'
  BY <1>1, <1>3 DEF StartedInPast, Open
<1>6. SleepersNameRoots'
  <2> SUFFICES ASSUME NEW w \in Workers, waiting[w] # NoRequest
               PROVE  ~leases'[waiting[w].parent].model
    BY <1>3 DEF SleepersNameRoots
  <2>1. waiting[w].parent \in LeaseIds
    BY DEF TypeOK, Request
  <2>2. CASE waiting[w].parent = i
    BY <2>2, <1>1 DEF Unused
  <2> QED BY <2>1, <2>2, <1>1 DEF SleepersNameRoots
<1>7. \A j \in Open \ {i} : leases'[j] = leases[j]
  BY <1>1 DEF Open
<1>8. OneRootPerStage'
  BY <1>1, <1>7 DEF OneRootPerStage, Roots
<1>9. ModelInsideRoot'
  <2> SUFFICES ASSUME NEW j \in Models, j # i
               PROVE  /\ leases'[j].parent \in Roots'
                      /\ leases'[leases'[j].parent].stage = leases'[j].stage
                      /\ leases'[j].deadline <= leases'[leases'[j].parent].deadline
                      /\ leases'[j].work <= leases'[leases'[j].parent].work
    BY <1>1 DEF ModelInsideRoot
  <2>1. leases'[j] = leases[j] /\ j \in Open
    BY <1>7 DEF Models
  <2>2. leases[j].parent \in Roots \ {i}
    BY <2>1, <1>3 DEF ModelInsideRoot, Children
  <2>3. leases'[leases[j].parent] = leases[leases[j].parent]
    BY <2>2, <1>7 DEF Roots
  <2> QED BY <2>1, <2>2, <2>3, <1>1 DEF ModelInsideRoot
<1>10. OutstandingWithinLimits'
  <2> SUFFICES ASSUME NEW j \in Roots, j # i
               PROVE  LET s == leases[j].stage
                          allowance == leases[j].deadline - leases[j].started
                      IN  /\ consumed'[s] + allowance <= Total[s]
                          /\ roundConsumed'[s] + allowance <= PerRound[s]
                          /\ leases[j].deadline <= GlobalDeadline
    <3>1. GlobalDeadline' = GlobalDeadline
      BY <1>3 DEF GlobalDeadline
    <3>2. \A k \in Roots' : k \in Roots /\ k # i /\ leases'[k] = leases[k]
      BY <1>1, <1>7 DEF Roots
    <3> QED BY <3>1, <3>2 DEF OutstandingWithinLimits
  <2>1. leases[j].stage \in Stages
    BY DEF TypeOK, Lease, Roots, Open
  <2>2. leases[j].stage # leases[i].stage \/ leases[i].model
    BY <1>3 DEF OneRootPerStage, Roots
  <2>3. /\ consumed'[leases[j].stage] = consumed[leases[j].stage]
        /\ roundConsumed'[leases[j].stage] = roundConsumed[leases[j].stage]
    BY <2>1, <2>2, <1>2
  <2> QED BY <2>3 DEF OutstandingWithinLimits
<1> QED BY <1>4, <1>5, <1>6, <1>8, <1>9, <1>10

(* Every step preserves the invariant. *)
LEMMA NextInv ==
    ASSUME BudgetInv, [Next]_vars
    PROVE  BudgetInv'
<1> USE DEF BudgetInv
<1>1. CASE Tick
  <2>1. clock <= clock' /\ clock' \in Nat
    BY <1>1 DEF Tick, TypeOK
  <2>2. UNCHANGED managerVars
    BY <1>1 DEF Tick
  <2>3. TypeOK' /\ SleepersNameRoots'
    BY <2>1, <2>2 DEF managerVars, TypeOK, SleepersNameRoots
  <2>4. \A s \in Stages : roundConsumed'[s] <= roundConsumed[s]
    BY <2>2 DEF managerVars, TypeOK
  <2> QED BY <2>1, <2>2, <2>3, <2>4, QuietStep DEF managerVars
<1>2. CASE Cancel
  <2>1. cancelled' \in BOOLEAN
    BY <1>2, Zenon DEF Cancel
  <2>2. UNCHANGED <<clock, startedAt, elapsedBefore, consumed, modelWork,
                    roundConsumed, startedRounds, cpuInUse, leases, waiting>>
    BY <1>2 DEF Cancel
  <2>3. TypeOK'
    BY <2>1, <2>2, Zenon DEF TypeOK
  <2>4. SleepersNameRoots'
    BY <2>2 DEF SleepersNameRoots
  <2>5. clock <= clock' /\ \A s \in Stages : roundConsumed'[s] <= roundConsumed[s]
    BY <2>2 DEF TypeOK
  <2> QED BY <2>2, <2>3, <2>4, <2>5, QuietStep
<1>3. CASE \E s \in Stages, i \in LeaseIds : AcquireRoot(s, i)
  BY <1>3, AcquireRootInv
<1>4. CASE \E w \in Workers, p \in LeaseIds, n \in Threads, i \in LeaseIds :
              AcquireModel(w, p, n, i)
  <2> PICK w \in Workers, p \in LeaseIds, n \in Threads, i \in LeaseIds :
              AcquireModel(w, p, n, i)
    BY <1>4
  <2>1. p \in Roots /\ Grant(p, n, i)
        /\ UNCHANGED <<clock, startedAt, elapsedBefore, consumed, modelWork,
                       roundConsumed, startedRounds, cancelled, waiting>>
    BY DEF AcquireModel
  <2>2. waiting \in [Workers -> Request \cup {NoRequest}]
    BY DEF TypeOK
  <2> QED BY <2>1, <2>2, GrantInv
<1>5. CASE \E w \in Workers, p \in LeaseIds, n \in Threads : BeginWait(w, p, n)
  <2> PICK w \in Workers, p \in LeaseIds, n \in Threads : BeginWait(w, p, n)
    BY <1>5
  <2>1. /\ waiting' = [waiting EXCEPT ![w] = [parent |-> p, threads |-> n]]
        /\ p \in Roots
        /\ UNCHANGED <<clock, startedAt, elapsedBefore, consumed, modelWork,
                       roundConsumed, startedRounds, cpuInUse, leases, cancelled>>
    BY DEF BeginWait
  <2>2. [parent |-> p, threads |-> n] \in Request
    BY DEF Request
  <2>3. TypeOK'
    BY <2>1, <2>2 DEF TypeOK
  <2>4. SleepersNameRoots'
    BY <2>1 DEF SleepersNameRoots, TypeOK, Roots
  <2>5. clock <= clock' /\ \A s \in Stages : roundConsumed'[s] <= roundConsumed[s]
    BY <2>1 DEF TypeOK
  <2> QED BY <2>1, <2>3, <2>4, <2>5, QuietStep
<1>6. CASE \E w \in Workers, i \in LeaseIds : WakeGranted(w, i)
  <2> PICK w \in Workers, i \in LeaseIds : WakeGranted(w, i)
    BY <1>6
  <2> DEFINE W == [waiting EXCEPT ![w] = NoRequest]
  <2>1. /\ waiting[w] # NoRequest /\ ~leases[waiting[w].parent].closed
        /\ Grant(waiting[w].parent, waiting[w].threads, i)
        /\ waiting' = W
        /\ UNCHANGED <<clock, startedAt, elapsedBefore, consumed, modelWork,
                       roundConsumed, startedRounds, cancelled>>
    BY DEF WakeGranted, Expired
  <2>2. waiting[w].parent \in LeaseIds /\ waiting[w].threads \in Threads
    BY <2>1 DEF TypeOK, Request
  <2>3. waiting[w].parent \in Roots
    BY <2>1, <2>2 DEF SleepersNameRoots, Roots, Open
  <2>4. /\ W \in [Workers -> Request \cup {NoRequest}]
        /\ \A v \in Workers : W[v] \in {waiting[v], NoRequest}
    BY DEF TypeOK
  <2> QED BY <2>1, <2>2, <2>3, <2>4, GrantInv
<1>7. CASE \E w \in Workers : WakeRefused(w)
  <2> PICK w \in Workers : WakeRefused(w)
    BY <1>7
  <2>1. /\ waiting' = [waiting EXCEPT ![w] = NoRequest]
        /\ UNCHANGED <<clock, startedAt, elapsedBefore, consumed, modelWork,
                       roundConsumed, startedRounds, cpuInUse, leases, cancelled>>
    BY DEF WakeRefused
  <2>2. TypeOK'
    BY <2>1 DEF TypeOK
  <2>3. SleepersNameRoots'
    BY <2>1 DEF SleepersNameRoots, TypeOK
  <2>4. clock <= clock' /\ \A s \in Stages : roundConsumed'[s] <= roundConsumed[s]
    BY <2>1 DEF TypeOK
  <2> QED BY <2>1, <2>2, <2>3, <2>4, QuietStep
<1>8. CASE \E i \in LeaseIds : CloseUnconfirmed(i)
  BY <1>8, CloseUnconfirmedInv
<1>9. CASE \E i \in LeaseIds : CloseConfirmed(i)
  BY <1>9, CloseConfirmedInv
<1>10. CASE StartTuningRound
  <2>1. /\ roundConsumed' = [s \in Stages |-> 0]
        /\ startedRounds' = startedRounds + 1
        /\ UNCHANGED <<clock, startedAt, elapsedBefore, consumed, modelWork,
                       cpuInUse, leases, cancelled, waiting>>
    BY <1>10 DEF StartTuningRound
  <2>2. TypeOK'
    BY <2>1 DEF TypeOK
  <2>3. SleepersNameRoots'
    BY <2>1 DEF SleepersNameRoots
  <2>4. clock <= clock' /\ \A s \in Stages : roundConsumed'[s] <= roundConsumed[s]
    BY <2>1 DEF TypeOK
  <2> QED BY <2>1, <2>2, <2>3, <2>4, QuietStep
<1>11. CASE UNCHANGED vars
  BY <1>11 DEF vars, managerVars, TypeOK, StartedInPast, SleepersNameRoots,
     OneRootPerStage, ModelInsideRoot, OutstandingWithinLimits, GlobalDeadline,
     Roots, Models, Open
<1> QED BY <1>1, <1>2, <1>3, <1>4, <1>5, <1>6, <1>7, <1>8, <1>9, <1>10, <1>11
        DEF Next

(* The inductive invariant holds in every reachable state of the manager. *)
THEOREM BudgetInvariant == Spec => []BudgetInv
<1>1. BudgetInv /\ [Next]_vars => BudgetInv'
  BY NextInv
<1> QED BY InitInv, <1>1, PTL DEF Spec

(* Every variable of the manager keeps its type, in particular no usage     *)
(* counter goes below zero and a sleeping thread names a real lease.        *)
THEOREM TypeCorrect == Spec => []TypeOK
<1>1. BudgetInv => TypeOK
  BY DEF BudgetInv
<1> QED BY BudgetInvariant, <1>1, PTL

(* budget.py acquire: a stage never has two open root leases.               *)
THEOREM RootsAreUnique == Spec => []OneRootPerStage
<1>1. BudgetInv => OneRootPerStage
  BY DEF BudgetInv
<1> QED BY BudgetInvariant, <1>1, PTL

(* budget.py acquire and _close: open model work always lies below an open  *)
(* root lease of its stage and within its deadlines.                        *)
THEOREM ModelsStayInside == Spec => []ModelInsideRoot
<1>1. BudgetInv => ModelInsideRoot
  BY DEF BudgetInv
<1> QED BY BudgetInvariant, <1>1, PTL

(* budget.py acquire: the time promised to an open root lease never exceeds *)
(* what its stage, round and task have left.                                *)
THEOREM PromisesAreCovered == Spec => []OutstandingWithinLimits
<1>1. BudgetInv => OutstandingWithinLimits
  BY DEF BudgetInv
<1> QED BY BudgetInvariant, <1>1, PTL

(* budget.py acquire and _close: every open lease fits in its stage, its    *)
(* root and what the limits leave, in every reachable state.                *)
THEOREM GrantsStayCovered == Spec => []GrantsFit
<1>1. OneRootPerStage /\ ModelInsideRoot /\ OutstandingWithinLimits => GrantsFit
  BY DEF GrantsFit
<1> QED BY RootsAreUnique, ModelsStayInside, PromisesAreCovered, <1>1, PTL

(* budget.py acquire: after cancel() no closed lease identity becomes open, *)
(* whichever thread asks and whether or not it was asleep.                  *)
THEOREM CancelStopsGrants == Spec => NoGrantAfterCancel
<1>1. ASSUME BudgetInv, [Next]_vars, cancelled, NEW i \in LeaseIds, leases[i].closed
      PROVE  leases'[i].closed
  <2>1. leases \in [LeaseIds -> Lease]
    BY <1>1 DEF BudgetInv, TypeOK
  <2>2. CASE leases' = leases
    BY <2>2, <1>1
  <2>3. CASE \E j \in LeaseIds : CloseUnconfirmed(j)
    BY <2>1, <2>3, <1>1 DEF CloseUnconfirmed, Lease
  <2>4. CASE \E j \in LeaseIds : CloseConfirmed(j)
    BY <2>1, <2>4, <1>1 DEF CloseConfirmed, Unused
  <2> QED BY <1>1, <2>2, <2>3, <2>4 DEF Next, vars, managerVars, Tick, Cancel,
             AcquireRoot, AcquireModel, BeginWait, WakeGranted, WakeRefused,
             StartTuningRound, Expired
<1>2. BudgetInv /\ [Next]_vars =>
        [cancelled => \A i \in LeaseIds : leases[i].closed => leases'[i].closed]_vars
  BY <1>1
<1> QED BY BudgetInvariant, <1>2, PTL DEF Spec, NoGrantAfterCancel

(* budget.py _close: the usage of a stage and the rounds started never go   *)
(* down, and an unresolved lease disappears only when it is charged.        *)
THEOREM UsageIsMonotone == Spec => UsageOnlyGrows
<1> DEFINE Grows ==
        /\ startedRounds' >= startedRounds
        /\ \A s \in Stages : consumed'[s] >= consumed[s]
        /\ \A i \in LeaseIds :
              leases[i].unresolved /\ ~leases[i].closed =>
                  \/ ~leases'[i].closed /\ leases'[i].unresolved
                  \/ leases'[i].closed /\ ~leases[i].model
                        /\ consumed'[leases[i].stage]
                             = consumed[leases[i].stage] + Elapsed(i)
                  \/ leases'[i].closed /\ leases[i].model
                        /\ modelWork'[leases[i].stage]
                             = modelWork[leases[i].stage] + Elapsed(i)
<1>1. ASSUME BudgetInv, [Next]_vars PROVE Grows \/ UNCHANGED vars
  <2>1. /\ leases \in [LeaseIds -> Lease] /\ consumed \in [Stages -> Nat]
        /\ startedRounds \in Nat
    BY <1>1 DEF BudgetInv, TypeOK
  <2>2. CASE leases' = leases /\ consumed' = consumed
             /\ startedRounds' \in {startedRounds, startedRounds + 1}
    BY <2>1, <2>2
  <2>3. CASE \E i \in LeaseIds : CloseUnconfirmed(i)
    <3> PICK i \in LeaseIds : CloseUnconfirmed(i)
      BY <2>3
    <3>1. \A j \in LeaseIds : /\ leases'[j].closed = leases[j].closed
                              /\ leases[j].unresolved => leases'[j].unresolved
      BY <2>1 DEF CloseUnconfirmed, Lease
    <3>2. consumed' = consumed /\ startedRounds' = startedRounds
      BY DEF CloseUnconfirmed
    <3> QED BY <2>1, <3>1, <3>2
  <2>4. CASE \E i \in LeaseIds : CloseConfirmed(i)
    <3> PICK i \in LeaseIds : CloseConfirmed(i)
      BY <2>4
    <3>1. /\ leases'[i] = Unused
          /\ \A j \in LeaseIds : j # i => leases'[j] = leases[j]
      BY <1>1, CloseStep
    <3>2. startedRounds' = startedRounds /\ Unused.closed
      BY DEF CloseConfirmed, Unused
    <3>3. /\ \A s \in Stages : consumed'[s] >= consumed[s]
          /\ leases[i].model => modelWork'[leases[i].stage]
                                  = modelWork[leases[i].stage] + Elapsed(i)
          /\ ~leases[i].model => consumed'[leases[i].stage]
                                  = consumed[leases[i].stage] + Elapsed(i)
      BY <1>1, ChargeStep
    <3> QED BY <2>1, <3>1, <3>2, <3>3
  <2>5. CASE \/ \E s \in Stages, i \in LeaseIds : AcquireRoot(s, i)
             \/ \E w \in Workers, p \in LeaseIds, n \in Threads, i \in LeaseIds :
                    AcquireModel(w, p, n, i)
             \/ \E w \in Workers, i \in LeaseIds : WakeGranted(w, i)
    <3>1. /\ consumed' = consumed /\ startedRounds' = startedRounds
          /\ \A j \in LeaseIds : ~leases[j].closed => leases'[j] = leases[j]
      BY <2>1, <2>5 DEF AcquireRoot, AcquireModel, WakeGranted, Grant, Fresh
    <3> QED BY <2>1, <3>1
  <2> QED BY <1>1, <2>2, <2>3, <2>4, <2>5 DEF Next, managerVars, Tick, Cancel,
             BeginWait, WakeRefused, StartTuningRound
<1>2. BudgetInv /\ [Next]_vars => [Grows]_vars
  BY <1>1
<1> QED BY BudgetInvariant, <1>2, PTL DEF Spec, UsageOnlyGrows

(* budget.py acquire: the CPU slots in use and the number of open model     *)
(* leases, those of unconfirmed solvers included, never exceed the          *)
(* configured limits.                                                       *)
THEOREM SlotsAreBounded == Spec => []SlotLimits
<1> DEFINE I == BudgetInv /\ SlotLimits
<1>1. ASSUME Init PROVE SlotLimits
  <2>1. Models = {}
    BY <1>1 DEF Models, Open, Init, Unused
  <2> QED BY <1>1, <2>1, FS_EmptySet, BudgetAssumption DEF Init, SlotLimits
<1>2. ASSUME BudgetInv, SlotLimits, [Next]_vars PROVE SlotLimits'
  <2>1. IsFiniteSet(Models) /\ Cardinality(Models) \in Nat
    BY BudgetAssumption, FS_Subset, FS_CardinalityType DEF Models, Open
  <2>2. leases \in [LeaseIds -> Lease] /\ cpuInUse \in Int
    BY <1>2 DEF BudgetInv, TypeOK
  <2>3. CASE leases' = leases /\ cpuInUse' = cpuInUse
    BY <1>2, <2>3 DEF SlotLimits, Models, Open
  <2>4. CASE \E i \in LeaseIds : CloseUnconfirmed(i)
    <3> PICK i \in LeaseIds : CloseUnconfirmed(i)
      BY <2>4
    <3>1. Models' = Models
      BY <2>2 DEF CloseUnconfirmed, Models, Open, Lease
    <3> QED BY <1>2, <3>1 DEF SlotLimits, CloseUnconfirmed
  <2>5. CASE \E i \in LeaseIds : CloseConfirmed(i)
    <3> PICK i \in LeaseIds : CloseConfirmed(i)
      BY <2>5
    <3>1. Models' = Models \ {i}
      BY <1>2, CloseStep
    <3>2. Cardinality(Models') <= Cardinality(Models) /\ Cardinality(Models') \in Nat
      BY <2>1, <3>1, FS_Subset, FS_CardinalityType
    <3>3. cpuInUse' <= cpuInUse
      <4>1. leases[i].threads \in Nat
        BY <2>2 DEF Lease
      <4> QED BY <2>2, <4>1 DEF CloseConfirmed, ChargeClosed
    <3>4. cpuInUse' \in Int
      BY <1>2, ChargeStep
    <3> QED BY <1>2, <2>1, <2>2, <3>2, <3>3, <3>4, BudgetAssumption DEF SlotLimits
  <2>6. CASE \E p \in LeaseIds, n \in Threads, i \in LeaseIds : Grant(p, n, i)
    <3> PICK p \in LeaseIds, n \in Threads, i \in LeaseIds : Grant(p, n, i)
      BY <2>6
    <3>1. Models' \subseteq Models \cup {i}
      BY <2>2 DEF Grant, Models, Open
    <3>2. /\ IsFiniteSet(Models \cup {i})
          /\ Cardinality(Models \cup {i}) <= Cardinality(Models) + 1
      <4>1. /\ IsFiniteSet(Models \cup {i})
            /\ Cardinality(Models \cup {i}) = IF i \in Models THEN Cardinality(Models)
                                              ELSE Cardinality(Models) + 1
        BY <2>1, FS_AddElement, Zenon
      <4> QED BY <2>1, <4>1
    <3>3. Cardinality(Models') <= Cardinality(Models) + 1
          /\ Cardinality(Models') \in Nat
      BY <2>1, <3>1, <3>2, FS_Subset, FS_CardinalityType
    <3> QED BY <2>1, <3>3, BudgetAssumption DEF SlotLimits, Grant, SlotFree
  <2>7. CASE \E s \in Stages, i \in LeaseIds : AcquireRoot(s, i)
    <3>1. Models' = Models /\ cpuInUse' = cpuInUse
      BY <2>2, <2>7 DEF AcquireRoot, Models, Open, Fresh
    <3> QED BY <1>2, <3>1 DEF SlotLimits
  <2>8. CASE \E w \in Workers, i \in LeaseIds : WakeGranted(w, i)
    <3> PICK w \in Workers, i \in LeaseIds : WakeGranted(w, i)
      BY <2>8
    <3>1. waiting[w].parent \in LeaseIds /\ waiting[w].threads \in Threads
      BY <1>2 DEF WakeGranted, BudgetInv, TypeOK, Request
    <3> QED BY <3>1, <2>6 DEF WakeGranted
  <2> QED BY <1>2, <2>3, <2>4, <2>5, <2>6, <2>7, <2>8 DEF Next, vars, managerVars,
             Tick, Cancel, AcquireModel, BeginWait, WakeRefused, StartTuningRound
<1>3. Init => I
  BY <1>1, InitInv
<1>4. I /\ [Next]_vars => I'
  BY <1>2, NextInv
<1> QED BY <1>3, <1>4, PTL DEF Spec

(* budget.py acquire and _close: the slots counted as busy are exactly those *)
(* of the open model leases, so a solver whose exit was not confirmed keeps  *)
(* its CPUs and a closed one gives back what it took, no more and no less.   *)
THEOREM SlotsAreCounted == Spec => []CpuAccounting
<1> DEFINE Slots == [i \in LeaseIds |-> leases[i].threads]
           Counted == cpuInUse = SumFunctionOnSet(Slots, Models)
           I == BudgetInv /\ Counted
<1>1. ASSUME Init PROVE Counted
  <2>1. Models = {} /\ cpuInUse = 0
    BY <1>1 DEF Models, Open, Init, Unused
  <2> QED BY <2>1, SumEmpty
<1>2. ASSUME BudgetInv, Counted, [Next]_vars PROVE Counted'
  <2>1. /\ leases \in [LeaseIds -> Lease] /\ leases' \in [LeaseIds -> Lease]
        /\ cpuInUse \in Int
    BY <1>2, NextInv DEF BudgetInv, TypeOK
  <2>2. /\ IsFiniteSet(Models) /\ IsFiniteSet(Models')
        /\ Models \subseteq LeaseIds /\ Models' \subseteq LeaseIds
    BY BudgetAssumption, FS_Subset DEF Models, Open
  <2>3. /\ \A i \in LeaseIds : Slots[i] = leases[i].threads /\ Slots[i] \in Int
        /\ \A i \in LeaseIds : Slots'[i] = leases'[i].threads /\ Slots'[i] \in Int
    BY <2>1 DEF Lease
  <2> HIDE DEF Slots
  <2>4. ASSUME Models' = Models, cpuInUse' = cpuInUse, \A i \in Models : Slots'[i] = Slots[i]
        PROVE  Counted'
    <3>1. SumFunctionOnSet(Slots', Models) = SumFunctionOnSet(Slots, Models)
      BY <2>2, <2>3, <2>4, SumCongruence
    <3> QED BY <1>2, <2>4, <3>1
  <2>5. CASE leases' = leases /\ cpuInUse' = cpuInUse
    BY <2>4, <2>5 DEF Models, Open, Slots
  <2>6. CASE \E i \in LeaseIds : CloseUnconfirmed(i)
    <3> PICK i \in LeaseIds : CloseUnconfirmed(i)
      BY <2>6
    <3>1. \A j \in LeaseIds : /\ leases'[j].closed = leases[j].closed
                              /\ leases'[j].model = leases[j].model
                              /\ leases'[j].threads = leases[j].threads
      BY <2>1 DEF CloseUnconfirmed, Lease
    <3>2. Models' = Models /\ cpuInUse' = cpuInUse
      BY <3>1 DEF CloseUnconfirmed, Models, Open
    <3> QED BY <2>2, <2>3, <2>4, <3>1, <3>2
  <2>7. CASE \E i \in LeaseIds : CloseConfirmed(i)
    <3> PICK i \in LeaseIds : CloseConfirmed(i)
      BY <2>7
    <3>1. Models' = Models \ {i} /\ \A j \in LeaseIds : j # i => leases'[j] = leases[j]
      BY <1>2, CloseStep
    <3>2. SumFunctionOnSet(Slots', Models \ {i}) = SumFunctionOnSet(Slots, Models \ {i})
      <4>1. \A j \in Models \ {i} : Slots'[j] = Slots[j] /\ Slots[j] \in Int
        BY <2>2, <2>3, <3>1
      <4>2. IsFiniteSet(Models \ {i})
        BY <2>2, FS_RemoveElement
      <4> QED BY <4>1, <4>2, SumCongruence
    <3>3. CASE leases[i].model
      <4>1. i \in Models /\ cpuInUse' = cpuInUse - Slots[i]
        BY <2>3, <3>3 DEF CloseConfirmed, ChargeClosed, Models
      <4>2. SumFunctionOnSet(Slots, Models) = Slots[i] + SumFunctionOnSet(Slots, Models \ {i})
        BY <2>2, <2>3, <4>1, SumRemove
      <4>3. SumFunctionOnSet(Slots, Models \ {i}) \in Int /\ Slots[i] \in Int
        <5>1. IsFiniteSet(Models \ {i}) /\ \A j \in Models \ {i} : Slots[j] \in Int
          BY <2>2, <2>3, FS_RemoveElement
        <5> QED BY <2>3, <5>1, SumType
      <4> QED BY <1>2, <3>1, <3>2, <4>1, <4>2, <4>3
    <3>4. CASE ~leases[i].model
      <4>1. Models \ {i} = Models /\ cpuInUse' = cpuInUse
        BY <3>4 DEF CloseConfirmed, ChargeClosed, Models
      <4> QED BY <1>2, <3>1, <3>2, <4>1
    <3> QED BY <3>3, <3>4
  <2>8. CASE \E s \in Stages, i \in LeaseIds : AcquireRoot(s, i)
    <3> PICK s \in Stages, i \in LeaseIds : AcquireRoot(s, i)
      BY <2>8
    <3>1. Models' = Models /\ cpuInUse' = cpuInUse /\ i \notin Models
      BY <2>1 DEF AcquireRoot, Models, Open, Fresh
    <3>2. \A j \in LeaseIds : j # i => leases'[j] = leases[j]
      BY <2>1 DEF AcquireRoot
    <3> QED BY <2>2, <2>3, <2>4, <3>1, <3>2
  <2>9. CASE \E p \in LeaseIds, n \in Threads, i \in LeaseIds : Grant(p, n, i)
    <3> PICK p \in LeaseIds, n \in Threads, i \in LeaseIds : Grant(p, n, i)
      BY <2>9
    <3>1. /\ i \notin Models /\ cpuInUse' = cpuInUse + n
          /\ \A j \in LeaseIds : j # i => leases'[j] = leases[j]
      BY <2>1 DEF Grant, Fresh, Models, Open
    <3>2. leases'[i].model /\ ~leases'[i].closed /\ leases'[i].threads = n
      BY <2>1 DEF Grant
    <3>3. Models' = Models \cup {i}
      BY <3>1, <3>2 DEF Models, Open
    <3>4. SumFunctionOnSet(Slots', Models \cup {i}) = Slots'[i] + SumFunctionOnSet(Slots', Models)
      BY <2>2, <2>3, <3>1, SumAdd
    <3>5. SumFunctionOnSet(Slots', Models) = SumFunctionOnSet(Slots, Models)
      <4>1. \A j \in Models : Slots'[j] = Slots[j] /\ Slots[j] \in Int
        BY <2>2, <2>3, <3>1
      <4> QED BY <2>2, <4>1, SumCongruence
    <3>6. Slots'[i] = n /\ n \in Int
      BY <2>3, <3>2, BudgetAssumption DEF Threads
    <3> QED BY <1>2, <2>1, <3>1, <3>3, <3>4, <3>5, <3>6
  <2>10. CASE \E w \in Workers, i \in LeaseIds : WakeGranted(w, i)
    <3> PICK w \in Workers, i \in LeaseIds : WakeGranted(w, i)
      BY <2>10
    <3>1. waiting[w].parent \in LeaseIds /\ waiting[w].threads \in Threads
      BY <1>2 DEF WakeGranted, BudgetInv, TypeOK, Request
    <3> QED BY <3>1, <2>9 DEF WakeGranted
  <2> QED BY <1>2, <2>5, <2>6, <2>7, <2>8, <2>9, <2>10 DEF Next, vars, managerVars,
             Tick, Cancel, AcquireModel, BeginWait, WakeRefused, StartTuningRound
<1>3. Init => I
  BY <1>1, InitInv
<1>4. I /\ [Next]_vars => I'
  BY <1>2, NextInv
<1>5. I /\ SlotLimits => CpuAccounting
  BY DEF CpuAccounting
<1> QED BY <1>3, <1>4, <1>5, SlotsAreBounded, PTL DEF Spec

-----------------------------------------------------------------------------
(* Checkpoints, crashes and resume *)

(* The last checkpoint, as Snapshot wrote it. *)
SavedOK ==
    saved # NoCheckpoint =>
        /\ saved.consumed \in [Stages -> Nat] /\ saved.modelWork \in [Stages -> Nat]
        /\ saved.roundConsumed \in [Stages -> Nat] /\ saved.rounds \in Nat
        /\ saved.at \in Nat /\ saved.at <= clock /\ saved.elapsed = saved.at
        /\ DOMAIN saved.active \subseteq LeaseIds
        /\ \A i \in DOMAIN saved.active :
               /\ saved.active[i].stage \in Stages /\ saved.active[i].model \in BOOLEAN
               /\ saved.active[i].used \in Nat /\ saved.active[i].left \in Nat
        /\ \A i, j \in DOMAIN saved.active :
               (/\ ~saved.active[i].model /\ ~saved.active[j].model
                /\ saved.active[i].stage = saved.active[j].stage) => i = j

DriverTypes ==
    /\ up \in BOOLEAN /\ ownedJob \in BOOLEAN /\ roundUntouched \in BOOLEAN
    /\ pc \in {"idle", "opened", "work", "closed"}
    /\ cur \in LeaseIds \cup {NoParent}
    /\ worked \in [Stages -> Nat] /\ roundWorked \in [Stages -> Nat]
    /\ tunedRounds \in Nat

(* A process that is down has lost its manager. *)
DownOK == ~up => pc = "idle" /\ leases = [i \in LeaseIds |-> Unused]

(* stage() holds an open root lease; while its body works, the checkpoint   *)
(* has that lease and the round has been counted.                           *)
AtWork ==
    /\ pc \in {"opened", "work"} => cur \in Roots
    /\ pc \in {"work", "closed"} => ~roundUntouched
    /\ pc = "work" =>
           /\ cur \in DOMAIN saved.active
           /\ saved.active[cur].stage = leases[cur].stage /\ ~saved.active[cur].model
           /\ saved.active[cur].left = NonNegative(leases[cur].deadline - saved.at)

(* The manager's own start, and the rounds. *)
WallInv == up => startedAt = elapsedBefore /\ startedAt <= clock
RoundsInv ==
    /\ up => tunedRounds + (IF roundUntouched THEN 1 ELSE 0) <= startedRounds
    /\ saved # NoCheckpoint => tunedRounds <= saved.rounds

(* What a resume charges a stage for the root lease it held at the save.    *)
Owed(s) == Charged(s, FALSE)
OwedModel(s) == Charged(s, TRUE)

(* The manager's counters, and those a resume would restore, cover the work. *)
CountersCover ==
    up => \A s \in Stages :
              /\ worked[s] <= consumed[s] + OpenTime(s)
              /\ ~roundUntouched => roundWorked[s] <= roundConsumed[s] + OpenTime(s)
SavedCovers ==
    saved # NoCheckpoint =>
        \A s \in Stages :
            /\ worked[s] <= saved.consumed[s] + Owed(s)
            /\ roundWorked[s] <= saved.roundConsumed[s] + Owed(s)

ResumeInv ==
    /\ BudgetInv /\ DriverTypes /\ SavedOK /\ DownOK /\ AtWork /\ WallInv /\ RoundsInv
    /\ CountersCover /\ SavedCovers /\ WorkWithinLimits
-----------------------------------------------------------------------------
(* The sums have at most one term: a stage has one root lease.              *)
OpenTimes ==
    \A s \in Stages :
        /\ OpenTime(s) \in Nat
        /\ RootsOf(s) = {} => OpenTime(s) = 0
        /\ \A i \in RootsOf(s) : OpenTime(s) = Elapsed(i) /\ Elapsed(i) \in Nat

LEMMA OpenTimesHold == BudgetInv => OpenTimes
<1> SUFFICES ASSUME BudgetInv, NEW s \in Stages
             PROVE  /\ OpenTime(s) \in Nat
                    /\ RootsOf(s) = {} => OpenTime(s) = 0
                    /\ \A i \in RootsOf(s) : OpenTime(s) = Elapsed(i) /\ Elapsed(i) \in Nat
  BY DEF OpenTimes
<1> DEFINE E == [i \in LeaseIds |-> Elapsed(i)]
<1>1. \A i \in RootsOf(s) : i \in LeaseIds /\ Elapsed(i) \in Nat
  BY DEF RootsOf, Roots, Open, BudgetInv, TypeOK, StartedInPast, Elapsed, Lease
<1>2. CASE RootsOf(s) = {}
  BY <1>2, SumEmpty DEF OpenTime
<1>3. ASSUME NEW i \in RootsOf(s) PROVE OpenTime(s) = Elapsed(i)
  <2>1. RootsOf(s) = {i}
    BY DEF RootsOf, BudgetInv, OneRootPerStage
  <2>2. E[i] = Elapsed(i) /\ E[i] \in Int
    BY <1>1
  <2> HIDE DEF E
  <2>3. SumFunctionOnSet(E, {i}) = E[i]
    BY <2>2, SumSingleton
  <2> QED BY <2>1, <2>2, <2>3 DEF OpenTime, E
<1> QED BY <1>1, <1>2, <1>3

ActiveOf(s) == {i \in DOMAIN saved.active : saved.active[i].stage = s
                                            /\ ~saved.active[i].model}
Charges ==
    saved # NoCheckpoint =>
        \A s \in Stages :
            /\ OwedModel(s) \in Nat /\ Owed(s) \in Nat
            /\ ActiveOf(s) = {} => Owed(s) = 0
            /\ \A i \in ActiveOf(s) : Owed(s) = Charge(i) /\ Charge(i) \in Nat

LEMMA ChargesHold == SavedOK /\ BudgetInv => Charges
<1> SUFFICES ASSUME SavedOK, BudgetInv, saved # NoCheckpoint, NEW s \in Stages
             PROVE  /\ OwedModel(s) \in Nat /\ Owed(s) \in Nat
                    /\ ActiveOf(s) = {} => Owed(s) = 0
                    /\ \A i \in ActiveOf(s) : Owed(s) = Charge(i) /\ Charge(i) \in Nat
  BY DEF Charges
<1> DEFINE D == DOMAIN saved.active
           C == [i \in D |-> Charge(i)]
           T == {i \in D : saved.active[i].stage = s /\ saved.active[i].model = TRUE}
           F == {i \in D : saved.active[i].stage = s /\ saved.active[i].model = FALSE}
<1>1. \A i \in D : C[i] = Charge(i) /\ C[i] \in Nat
  BY DEF SavedOK, BudgetInv, TypeOK, Charge, Downtime, Smaller
<1>2. IsFiniteSet(T) /\ IsFiniteSet(F) /\ T \subseteq D /\ F \subseteq D
  BY BudgetAssumption, FS_Subset DEF SavedOK
<1>3. F = ActiveOf(s)
  <2>1. \A i \in D : saved.active[i].model = FALSE <=> ~saved.active[i].model
    BY Zenon DEF SavedOK
  <2> QED BY <2>1 DEF ActiveOf
<1>4. OwedModel(s) = SumFunctionOnSet(C, T) /\ Owed(s) = SumFunctionOnSet(C, F)
  BY DEF Charged, Owed, OwedModel
<1> HIDE DEF C, T, F
<1>5. OwedModel(s) \in Nat /\ Owed(s) \in Nat
  BY <1>1, <1>2, <1>4, SumNat
<1>6. ActiveOf(s) = {} => Owed(s) = 0
  BY <1>3, <1>4, SumEmpty
<1>7. ASSUME NEW i \in ActiveOf(s) PROVE Owed(s) = Charge(i)
  <2>1. ActiveOf(s) = {i}
    BY DEF ActiveOf, SavedOK
  <2>2. C[i] = Charge(i) /\ C[i] \in Int
    BY <1>1 DEF ActiveOf
  <2> QED BY <1>3, <1>4, <2>1, <2>2, SumSingleton
<1> QED BY <1>1, <1>5, <1>6, <1>7 DEF ActiveOf

(* The same facts after a step. *)
LEMMA OpenTimesNext == BudgetInv' => OpenTimes'
  BY OpenTimesHold, PTL

LEMMA ChargesNext == SavedOK' /\ BudgetInv' => Charges'
  BY ChargesHold, PTL

(* What a checkpoint restores does not change while it and the clock stand. *)
LEMMA ChargedStands ==
    ASSUME Charges, Charges', saved' = saved, clock' = clock, saved # NoCheckpoint,
           NEW s \in Stages
    PROVE  Owed(s)' = Owed(s)
<1>1. ActiveOf(s)' = ActiveOf(s)
  BY DEF ActiveOf
<1>2. \A i : Charge(i)' = Charge(i)
  BY DEF Charge, Downtime, Smaller
<1>3. CASE ActiveOf(s) = {}
  BY <1>1, <1>3 DEF Charges
<1>4. CASE ActiveOf(s) # {}
  <2>1. PICK i \in ActiveOf(s) : TRUE
    BY <1>4
  <2> QED BY <1>1, <1>2, <2>1 DEF Charges
<1> QED BY <1>3, <1>4

(* Steps that leave the checkpoint, the clock and the history alone. *)
LEMMA SavedStands ==
    ASSUME ResumeInv, BudgetInv', saved' = saved, clock' = clock, worked' = worked,
           roundWorked' = roundWorked
    PROVE  SavedOK' /\ SavedCovers' /\ WorkWithinLimits'
<1>1. SavedOK /\ BudgetInv /\ SavedCovers
  BY DEF ResumeInv
<1>2. SavedOK'
  BY <1>1 DEF SavedOK
<1>3. Charges
  BY <1>1, ChargesHold
<1>4. Charges'
  BY <1>2, ChargesNext
<1>5. SavedCovers'
  <2> SUFFICES ASSUME saved' # NoCheckpoint, NEW s \in Stages
               PROVE  /\ worked'[s] <= saved'.consumed[s] + Owed(s)'
                      /\ roundWorked'[s] <= saved'.roundConsumed[s] + Owed(s)'
    BY DEF SavedCovers
  <2>1. Owed(s)' = Owed(s)
    BY <1>1, <1>2, <1>3, <1>4, ChargedStands
  <2> QED BY <1>1, <2>1 DEF SavedCovers
<1>6. WorkWithinLimits'
  BY DEF ResumeInv, WorkWithinLimits
<1> QED BY <1>2, <1>5, <1>6
-----------------------------------------------------------------------------
(* The clock ticks: a stage that works grows with its lease and its charge. *)
LEMMA PassStep == ResumeInv /\ Pass => ResumeInv'
<1> SUFFICES ASSUME ResumeInv, Pass PROVE ResumeInv'
  OBVIOUS
<1>1. /\ BudgetInv /\ DriverTypes /\ SavedOK /\ DownOK /\ AtWork /\ WallInv /\ RoundsInv
      /\ CountersCover /\ SavedCovers /\ WorkWithinLimits
  BY DEF ResumeInv
<1>2. Tick /\ BudgetInv'
  BY <1>1, NextInv DEF Pass, Next
<1>3. /\ clock' = clock + 1 /\ clock \in Nat /\ leases' = leases /\ consumed' = consumed
      /\ roundConsumed' = roundConsumed /\ startedAt' = startedAt
      /\ elapsedBefore' = elapsedBefore /\ startedRounds' = startedRounds
  BY <1>1, <1>2 DEF Tick, managerVars, BudgetInv, TypeOK
<1>4. /\ up' = up /\ pc' = pc /\ cur' = cur /\ ownedJob' = ownedJob /\ saved' = saved
      /\ tunedRounds' = tunedRounds /\ roundUntouched' = roundUntouched
  BY DEF Pass, driverVars
<1> DEFINE Here(s) == Working /\ leases[cur].stage = s
<1>5. \A s \in Stages :
          /\ worked'[s] = worked[s] + IF Here(s) THEN 1 ELSE 0
          /\ roundWorked'[s] = roundWorked[s] + IF Here(s) THEN 1 ELSE 0
  BY DEF Pass
<1>6. worked' \in [Stages -> Nat] /\ roundWorked' \in [Stages -> Nat]
  <2>1. \A s \in Stages : /\ worked[s] + (IF Here(s) THEN 1 ELSE 0) \in Nat
                          /\ roundWorked[s] + (IF Here(s) THEN 1 ELSE 0) \in Nat
    BY <1>1 DEF DriverTypes
  <2> QED BY <2>1 DEF Pass
<1>7. Roots' = Roots /\ \A s : RootsOf(s)' = RootsOf(s)
  BY <1>3 DEF Roots, RootsOf, Open
<1>8. OpenTimes /\ OpenTimes' /\ Charges
  BY <1>1, <1>2, OpenTimesHold, OpenTimesNext, ChargesHold
<1>9. SavedOK'
  BY <1>1, <1>3, <1>4 DEF SavedOK
<1>10. Charges'
  BY <1>2, <1>9, ChargesNext
<1>11. ASSUME NEW s \in Stages, Here(s)
       PROVE  /\ up /\ ~roundUntouched /\ pc = "work" /\ cur \in RootsOf(s)
              /\ clock < leases[cur].deadline
  BY <1>1, <1>11 DEF Working, AtWork, RootsOf
<1>12. ASSUME NEW s \in Stages
       PROVE  /\ OpenTime(s)' >= OpenTime(s)
              /\ Here(s) => OpenTime(s)' = OpenTime(s) + 1
  <2>1. CASE RootsOf(s) = {}
    <3>1. ~Here(s)
      BY <1>11, <2>1
    <3> QED BY <1>7, <1>8, <2>1, <3>1 DEF OpenTimes
  <2>2. CASE RootsOf(s) # {}
    <3>1. PICK i \in RootsOf(s) : TRUE
      BY <2>2
    <3>2. /\ OpenTime(s) = Elapsed(i) /\ OpenTime(s)' = Elapsed(i)'
          /\ Elapsed(i) \in Nat
      BY <1>7, <1>8, <3>1 DEF OpenTimes
    <3>3. Elapsed(i)' = Elapsed(i) + 1
      <4>1. leases[i].started \in Nat
        BY <1>1, <3>1 DEF BudgetInv, TypeOK, Lease, RootsOf, Roots, Open
      <4> QED BY <1>3, <4>1 DEF Elapsed
    <3> QED BY <3>2, <3>3
  <2> QED BY <2>1, <2>2
<1>13. ASSUME NEW s \in Stages, saved # NoCheckpoint
       PROVE  /\ Owed(s)' >= Owed(s)
              /\ Here(s) => Owed(s)' = Owed(s) + 1
              /\ Owed(s) \in Nat
  <2>1. ActiveOf(s)' = ActiveOf(s)
    BY <1>4 DEF ActiveOf
  <2>2. Here(s) => cur \in ActiveOf(s) /\ saved.active[cur].left > clock - saved.at
    <3> SUFFICES ASSUME Here(s)
                 PROVE  cur \in ActiveOf(s) /\ saved.active[cur].left > clock - saved.at
      OBVIOUS
    <3>1. pc = "work" /\ clock < leases[cur].deadline /\ cur \in RootsOf(s)
      BY <1>11
    <3>2. leases[cur].deadline \in Int /\ leases[cur].stage = s
      BY <1>1, <3>1 DEF BudgetInv, TypeOK, Lease, RootsOf, Roots, Open
    <3>3. cur \in ActiveOf(s)
      BY <1>1, <3>1, <3>2 DEF AtWork, ActiveOf
    <3>4. saved.active[cur].left = NonNegative(leases[cur].deadline - saved.at)
      BY <1>1, <3>1 DEF AtWork
    <3>5. saved.at \in Nat /\ saved.at <= clock
      BY <1>1, <1>13 DEF SavedOK
    <3> QED BY <1>3, <3>1, <3>2, <3>3, <3>4, <3>5 DEF NonNegative
  <2> HIDE DEF Here
  <2>3. CASE ActiveOf(s) = {}
    <3>1. ~Here(s)
      BY <2>2, <2>3
    <3>2. Owed(s) = 0
      BY <1>8, <1>13, <2>3 DEF Charges
    <3>3. Owed(s)' = 0
      BY <1>4, <1>10, <1>13, <2>1, <2>3 DEF Charges
    <3> QED BY <3>1, <3>2, <3>3
  <2>4. CASE ActiveOf(s) # {}
    <3>1. PICK i \in ActiveOf(s) : Here(s) => i = cur
      <4>1. CASE Here(s)
        BY <2>2, <4>1
      <4>2. CASE ~Here(s)
        BY <2>4, <4>2
      <4> QED BY <4>1, <4>2
    <3>2. /\ Owed(s) = Charge(i) /\ Owed(s)' = Charge(i)'
          /\ Charge(i) \in Nat
      BY <1>4, <1>8, <1>10, <1>13, <2>1, <3>1 DEF Charges
    <3>3. /\ saved.at \in Nat /\ saved.at <= clock
          /\ saved.active[i].used \in Nat /\ saved.active[i].left \in Nat
      BY <1>1, <1>13, <3>1 DEF SavedOK, ActiveOf
    <3>4. /\ Charge(i) = saved.active[i].used + Smaller(clock - saved.at, saved.active[i].left)
          /\ Charge(i)' = saved.active[i].used
                            + Smaller(clock + 1 - saved.at, saved.active[i].left)
      BY <1>3, <1>4, <3>3 DEF Charge, Downtime
    <3> QED BY <1>3, <2>2, <3>1, <3>2, <3>3, <3>4 DEF Smaller
  <2> QED BY <2>3, <2>4
<1>14. DriverTypes' /\ DownOK' /\ WallInv' /\ RoundsInv'
  BY <1>1, <1>3, <1>4, <1>6
     DEF DriverTypes, DownOK, WallInv, RoundsInv, BudgetInv, TypeOK
<1>15. AtWork'
  BY <1>1, <1>3, <1>4, <1>7 DEF AtWork, NonNegative
<1>16. CountersCover'
  <2> SUFFICES ASSUME up', NEW s \in Stages
               PROVE  /\ worked'[s] <= consumed'[s] + OpenTime(s)'
                      /\ ~roundUntouched' =>
                             roundWorked'[s] <= roundConsumed'[s] + OpenTime(s)'
    BY DEF CountersCover
  <2>1. /\ OpenTime(s) \in Nat /\ OpenTime(s)' \in Nat /\ consumed[s] \in Nat
        /\ roundConsumed[s] \in Nat /\ worked[s] \in Nat /\ roundWorked[s] \in Nat
    BY <1>1, <1>8 DEF OpenTimes, DriverTypes, BudgetInv, TypeOK
  <2>2. /\ worked[s] <= consumed[s] + OpenTime(s)
        /\ ~roundUntouched => roundWorked[s] <= roundConsumed[s] + OpenTime(s)
    BY <1>1, <1>4 DEF CountersCover
  <2> HIDE DEF Here
  <2> QED BY <1>3, <1>4, <1>5, <1>12, <2>1, <2>2
<1>17. SavedCovers'
  <2> SUFFICES ASSUME saved' # NoCheckpoint, NEW s \in Stages
               PROVE  /\ worked'[s] <= saved'.consumed[s] + Owed(s)'
                      /\ roundWorked'[s] <= saved'.roundConsumed[s] + Owed(s)'
    BY DEF SavedCovers
  <2>1. /\ Owed(s) \in Nat /\ Owed(s)' \in Nat
        /\ saved.consumed[s] \in Nat /\ saved.roundConsumed[s] \in Nat
        /\ worked[s] \in Nat /\ roundWorked[s] \in Nat
    BY <1>1, <1>4, <1>8, <1>10 DEF Charges, DriverTypes, SavedOK
  <2>2. /\ worked[s] <= saved.consumed[s] + Owed(s)
        /\ roundWorked[s] <= saved.roundConsumed[s] + Owed(s)
    BY <1>1, <1>4 DEF SavedCovers
  <2>3. /\ Owed(s)' >= Owed(s)
        /\ Here(s) => Owed(s)' = Owed(s) + 1
    BY <1>4, <1>13
  <2> HIDE DEF Here
  <2>4. CASE Here(s)
    BY <1>4, <1>5, <2>1, <2>2, <2>3, <2>4
  <2>5. CASE ~Here(s)
    BY <1>4, <1>5, <2>1, <2>2, <2>3, <2>5
  <2> QED BY <2>4, <2>5
<1>18. WorkWithinLimits'
  <2> SUFFICES ASSUME NEW s \in Stages
               PROVE  worked'[s] <= Total[s] /\ roundWorked'[s] <= PerRound[s]
    BY DEF WorkWithinLimits
  <2>1. CASE ~Here(s)
    BY <1>1, <1>5, <2>1 DEF WorkWithinLimits, DriverTypes
  <2>2. CASE Here(s)
    <3>1. up /\ ~roundUntouched /\ cur \in RootsOf(s) /\ clock < leases[cur].deadline
      BY <1>11, <2>2
    <3>2. /\ worked[s] <= consumed[s] + Elapsed(cur)
          /\ roundWorked[s] <= roundConsumed[s] + Elapsed(cur)
      BY <1>1, <1>8, <3>1 DEF CountersCover, OpenTimes
    <3>3. /\ cur \in Roots /\ leases[cur].stage = s /\ leases[cur].deadline \in Int
          /\ leases[cur].started \in Nat
      BY <1>1, <3>1 DEF BudgetInv, TypeOK, Lease, RootsOf, Roots, Open
    <3>4. /\ consumed[s] + (leases[cur].deadline - leases[cur].started) <= Total[s]
          /\ roundConsumed[s] + (leases[cur].deadline - leases[cur].started) <= PerRound[s]
      BY <1>1, <3>3 DEF BudgetInv, OutstandingWithinLimits
    <3>5. /\ consumed[s] \in Nat /\ roundConsumed[s] \in Nat /\ worked[s] \in Nat
          /\ roundWorked[s] \in Nat /\ Total[s] \in Nat /\ PerRound[s] \in Nat
      BY <1>1, BudgetAssumption DEF DriverTypes, BudgetInv, TypeOK
    <3>6. worked'[s] = worked[s] + 1 /\ roundWorked'[s] = roundWorked[s] + 1
      BY <1>5, <2>2
    <3> QED BY <1>3, <3>1, <3>2, <3>3, <3>4, <3>5, <3>6 DEF Elapsed
  <2> QED BY <2>1, <2>2
<1> QED BY <1>2, <1>9, <1>14, <1>15, <1>16, <1>17, <1>18 DEF ResumeInv
-----------------------------------------------------------------------------
(* Steps of the driver under which the root leases stand.                   *)
RootsStand ==
    /\ Roots' = Roots
    /\ \A i \in Roots : /\ leases'[i].stage = leases[i].stage
                        /\ leases'[i].started = leases[i].started
                        /\ leases'[i].deadline = leases[i].deadline

LEMMA OpenTimeStands ==
    ASSUME BudgetInv, BudgetInv', RootsStand, clock' = clock, NEW s \in Stages
    PROVE  OpenTime(s)' = OpenTime(s)
<1>1. OpenTimes /\ OpenTimes'
  BY OpenTimesHold, OpenTimesNext
<1>2. RootsOf(s)' = RootsOf(s) /\ RootsOf(s) \subseteq Roots
  BY DEF RootsOf, RootsStand
<1>3. CASE RootsOf(s) = {}
  BY <1>1, <1>2, <1>3 DEF OpenTimes
<1>4. CASE RootsOf(s) # {}
  <2>1. PICK i \in RootsOf(s) : TRUE
    BY <1>4
  <2>2. Elapsed(i)' = Elapsed(i)
    BY <1>2, <2>1 DEF Elapsed, RootsStand
  <2>3. OpenTime(s) = Elapsed(i)
    BY <1>1, <2>1 DEF OpenTimes
  <2>4. OpenTime(s)' = Elapsed(i)'
    BY <1>1, <1>2, <2>1 DEF OpenTimes
  <2> QED BY <2>2, <2>3, <2>4
<1> QED BY <1>3, <1>4

(* Steps that also leave the counters, the checkpoint and the history alone. *)
LEMMA QuietDriver ==
    ASSUME ResumeInv, BudgetInv', RootsStand,
           UNCHANGED <<clock, up, saved, history, startedAt, elapsedBefore, consumed,
                       roundConsumed, startedRounds>>
    PROVE  /\ SavedOK' /\ SavedCovers' /\ WorkWithinLimits'
           /\ WallInv' /\ RoundsInv' /\ CountersCover'
<1>1. BudgetInv /\ WallInv /\ RoundsInv /\ CountersCover
  BY DEF ResumeInv
<1>2. SavedOK' /\ SavedCovers' /\ WorkWithinLimits'
  BY SavedStands DEF history
<1>3. WallInv' /\ RoundsInv'
  BY <1>1 DEF WallInv, RoundsInv, history
<1>4. CountersCover'
  <2>1. \A s \in Stages : OpenTime(s)' = OpenTime(s)
    BY <1>1, OpenTimeStands
  <2> QED BY <1>1, <2>1 DEF CountersCover, history
<1> QED BY <1>2, <1>3, <1>4

(* Child processes come and go, or nothing happens at all. *)
LEMMA JobStep ==
    ResumeInv /\ (StartJob \/ JobGone \/ UNCHANGED rvars) => ResumeInv'
<1> SUFFICES ASSUME ResumeInv, StartJob \/ JobGone \/ UNCHANGED rvars PROVE ResumeInv'
  OBVIOUS
<1>1. UNCHANGED <<vars, up, pc, cur, saved, history>>
  BY DEF StartJob, JobGone, rvars, driverVars
<1>2. ownedJob' \in BOOLEAN
  BY Zenon DEF StartJob, JobGone, rvars, driverVars, ResumeInv, DriverTypes
<1>3. BudgetInv'
  BY <1>1, NextInv DEF ResumeInv
<1>4. /\ clock' = clock /\ leases' = leases /\ startedAt' = startedAt
      /\ elapsedBefore' = elapsedBefore /\ consumed' = consumed
      /\ roundConsumed' = roundConsumed /\ startedRounds' = startedRounds
  BY <1>1 DEF vars, managerVars
<1>5. RootsStand
  BY <1>4 DEF RootsStand, Roots, Open
<1>6. /\ SavedOK' /\ SavedCovers' /\ WorkWithinLimits'
      /\ WallInv' /\ RoundsInv' /\ CountersCover'
  BY <1>1, <1>3, <1>4, <1>5, QuietDriver
<1>7. DriverTypes' /\ DownOK'
  BY <1>1, <1>2, <1>4 DEF ResumeInv, DriverTypes, DownOK, history
<1>8. AtWork'
  <2>1. Roots' = Roots
    BY <1>5 DEF RootsStand
  <2> QED BY <1>1, <1>4, <2>1 DEF ResumeInv, AtWork, history
<1> QED BY <1>3, <1>6, <1>7, <1>8 DEF ResumeInv

LEMMA CloseRefusedStep == ResumeInv /\ StageCloseRefused => ResumeInv'
<1> SUFFICES ASSUME ResumeInv, StageCloseRefused PROVE ResumeInv'
  OBVIOUS
<1>1. UNCHANGED <<vars, up, saved, history>> /\ ownedJob' = ownedJob /\ pc' = "idle"
      /\ cur' = NoParent /\ up
  BY DEF StageCloseRefused
<1>3. BudgetInv'
  BY <1>1, NextInv DEF ResumeInv
<1>4. /\ clock' = clock /\ leases' = leases /\ startedAt' = startedAt
      /\ elapsedBefore' = elapsedBefore /\ consumed' = consumed
      /\ roundConsumed' = roundConsumed /\ startedRounds' = startedRounds
  BY <1>1 DEF vars, managerVars
<1>5. RootsStand
  BY <1>4 DEF RootsStand, Roots, Open
<1>6. /\ SavedOK' /\ SavedCovers' /\ WorkWithinLimits'
      /\ WallInv' /\ RoundsInv' /\ CountersCover'
  BY <1>1, <1>3, <1>4, <1>5, QuietDriver
<1>7. DriverTypes' /\ DownOK' /\ AtWork'
  BY <1>1, <1>4 DEF ResumeInv, DriverTypes, DownOK, AtWork, history
<1> QED BY <1>3, <1>6, <1>7 DEF ResumeInv

(* A close that is not confirmed leaves the lease open, and uncharged. *)
LEMMA CloseUnconfirmedStep ==
    ResumeInv /\ StageClose /\ ownedJob => ResumeInv'
<1> SUFFICES ASSUME ResumeInv, StageClose, ownedJob PROVE ResumeInv'
  OBVIOUS
<1>1. /\ CloseUnconfirmed(cur) /\ UNCHANGED <<up, saved, history>>
      /\ ownedJob' = ownedJob /\ pc' = "closed" /\ cur' = NoParent /\ up /\ pc = "work"
  BY DEF StageClose
<1>2. cur \in LeaseIds /\ BudgetInv /\ leases \in [LeaseIds -> Lease]
  BY <1>1 DEF ResumeInv, BudgetInv, TypeOK, CloseUnconfirmed, Open
<1>3. BudgetInv'
  BY <1>1, <1>2, CloseUnconfirmedInv
<1>4. /\ clock' = clock /\ startedAt' = startedAt
      /\ elapsedBefore' = elapsedBefore /\ consumed' = consumed
      /\ roundConsumed' = roundConsumed /\ startedRounds' = startedRounds
      /\ leases' = [leases EXCEPT ![cur].unresolved = TRUE]
  BY <1>1 DEF CloseUnconfirmed
<1>5. RootsStand
  <2>1. \A j \in LeaseIds :
            /\ leases'[j].closed = leases[j].closed /\ leases'[j].model = leases[j].model
            /\ leases'[j].stage = leases[j].stage
            /\ leases'[j].started = leases[j].started
            /\ leases'[j].deadline = leases[j].deadline
    BY <1>2, <1>4 DEF Lease
  <2> QED BY <2>1 DEF RootsStand, Roots, Open
<1>6. /\ SavedOK' /\ SavedCovers' /\ WorkWithinLimits'
      /\ WallInv' /\ RoundsInv' /\ CountersCover'
  BY <1>1, <1>3, <1>4, <1>5, QuietDriver
<1>7. DriverTypes' /\ DownOK' /\ AtWork'
  BY <1>1, <1>4 DEF ResumeInv, DriverTypes, DownOK, AtWork, history
<1> QED BY <1>3, <1>6, <1>7 DEF ResumeInv

(* Model leases come and go below the root. *)
LEMMA SolverOpenStep ==
    ASSUME ResumeInv, NEW w \in Workers, NEW i \in LeaseIds, SolverOpen(w, i)
    PROVE  ResumeInv'
<1>1. /\ AcquireModel(w, cur, 1, i) /\ up /\ pc = "work"
      /\ UNCHANGED <<up, pc, cur, ownedJob, saved, history>>
  BY DEF SolverOpen, driverVars
<1>2. BudgetInv /\ cur \in LeaseIds /\ cur \in Roots /\ 1 \in Threads
  BY <1>1, BudgetAssumption DEF ResumeInv, AcquireModel, Roots, Open, Threads
<1>3. BudgetInv'
  <2>1. Next
    BY <1>1, <1>2 DEF Next
  <2> QED BY <1>2, <2>1, NextInv
<1>4. /\ clock' = clock /\ startedAt' = startedAt
      /\ elapsedBefore' = elapsedBefore /\ consumed' = consumed
      /\ roundConsumed' = roundConsumed /\ startedRounds' = startedRounds
  BY <1>1 DEF AcquireModel
<1>5. /\ i \in Fresh /\ leases' = [leases EXCEPT ![i] = leases'[i]]
      /\ leases'[i].model = TRUE /\ leases'[i].closed = FALSE
  <2>1. leases \in [LeaseIds -> Lease]
    BY <1>2 DEF BudgetInv, TypeOK
  <2> QED BY <1>1, <2>1 DEF AcquireModel, Grant
<1>6. RootsStand
  <2>1. \A j \in LeaseIds : j # i => leases'[j] = leases[j]
    BY <1>2, <1>5 DEF BudgetInv, TypeOK
  <2>2. i \notin Roots /\ i \notin Roots'
    BY <1>5 DEF Fresh, Roots, Open
  <2> QED BY <2>1, <2>2 DEF RootsStand, Roots, Open
<1>7. /\ SavedOK' /\ SavedCovers' /\ WorkWithinLimits'
      /\ WallInv' /\ RoundsInv' /\ CountersCover'
  BY <1>1, <1>3, <1>4, <1>6, QuietDriver
<1>8. DriverTypes' /\ DownOK'
  BY <1>1, <1>4 DEF ResumeInv, DriverTypes, DownOK, history
<1>9. AtWork'
  BY <1>1, <1>2, <1>6 DEF ResumeInv, AtWork, RootsStand, history
<1> QED BY <1>3, <1>7, <1>8, <1>9 DEF ResumeInv

LEMMA SolverCloseStep ==
    ASSUME ResumeInv, NEW i \in LeaseIds, SolverClose(i)
    PROVE  ResumeInv'
<1>1. /\ CloseConfirmed(i) /\ up /\ i \in Models
      /\ UNCHANGED <<up, pc, cur, ownedJob, saved, history>>
  BY DEF SolverClose, driverVars
<1>2. BudgetInv /\ leases[i].model
  BY <1>1 DEF ResumeInv, Models
<1>3. BudgetInv'
  BY <1>1, <1>2, CloseConfirmedInv
<1>4. /\ clock' = clock /\ startedAt' = startedAt
      /\ elapsedBefore' = elapsedBefore /\ consumed' = consumed
      /\ roundConsumed' = roundConsumed /\ startedRounds' = startedRounds
  BY <1>1, <1>2 DEF CloseConfirmed, ChargeClosed
<1>5. RootsStand
  <2>1. Roots' = Roots \ {i} /\ \A j \in LeaseIds : j # i => leases'[j] = leases[j]
    BY <1>1, <1>2, CloseStep
  <2>2. i \notin Roots /\ Roots \subseteq LeaseIds
    BY <1>2 DEF Roots, Open
  <2> QED BY <2>1, <2>2 DEF RootsStand
<1>6. /\ SavedOK' /\ SavedCovers' /\ WorkWithinLimits'
      /\ WallInv' /\ RoundsInv' /\ CountersCover'
  BY <1>1, <1>3, <1>4, <1>5, QuietDriver
<1>7. DriverTypes' /\ DownOK'
  BY <1>1, <1>4 DEF ResumeInv, DriverTypes, DownOK, history
<1>8. AtWork'
  BY <1>1, <1>5 DEF ResumeInv, AtWork, RootsStand, history
<1> QED BY <1>3, <1>6, <1>7, <1>8 DEF ResumeInv

(* A new round forgets what the round used, before any stage works in it. *)
LEMMA TuningRoundStep == ResumeInv /\ TuningRound => ResumeInv'
<1> SUFFICES ASSUME ResumeInv, TuningRound PROVE ResumeInv'
  OBVIOUS
<1>1. /\ StartTuningRound /\ up /\ pc = "idle" /\ roundUntouched' = TRUE
      /\ UNCHANGED <<up, pc, cur, ownedJob, saved, worked, roundWorked, tunedRounds>>
  BY DEF TuningRound, driverVars
<1>2. BudgetInv /\ BudgetInv'
  BY <1>1, NextInv DEF ResumeInv, Next
<1>3. /\ clock' = clock /\ startedAt' = startedAt /\ leases' = leases
      /\ elapsedBefore' = elapsedBefore /\ consumed' = consumed
      /\ startedRounds' = startedRounds + 1
  BY <1>1 DEF StartTuningRound
<1>4. SavedOK' /\ SavedCovers' /\ WorkWithinLimits'
  BY <1>1, <1>2, <1>3, SavedStands
<1>5. roundUntouched' \in BOOLEAN
  BY <1>1, Zenon
<1>6. DriverTypes' /\ DownOK' /\ WallInv' /\ AtWork'
  BY <1>1, <1>3, <1>5 DEF ResumeInv, DriverTypes, DownOK, WallInv, AtWork
<1>7. RoundsInv'
  <2>1. startedRounds \in Nat /\ tunedRounds \in Nat
    BY <1>2 DEF ResumeInv, DriverTypes, BudgetInv, TypeOK
  <2>2. tunedRounds <= startedRounds /\ (saved # NoCheckpoint => tunedRounds <= saved.rounds)
    BY <1>1, <2>1 DEF ResumeInv, RoundsInv
  <2> QED BY <1>1, <1>3, <2>1, <2>2 DEF RoundsInv
<1>8. CountersCover'
  <2>1. RootsStand
    BY <1>3 DEF RootsStand, Roots, Open
  <2>2. \A s \in Stages : OpenTime(s)' = OpenTime(s)
    BY <1>2, <1>3, <2>1, OpenTimeStands
  <2> QED BY <1>1, <1>3, <2>2 DEF CountersCover, ResumeInv
<1> QED BY <1>2, <1>4, <1>6, <1>7, <1>8 DEF ResumeInv

(* A lease that opens has used nothing. *)
LEMMA StageOpenStep ==
    ASSUME ResumeInv, NEW s \in Stages, NEW i \in LeaseIds, StageOpen(s, i)
    PROVE  ResumeInv'
<1>1. /\ AcquireRoot(s, i) /\ up /\ pc = "idle" /\ pc' = "opened" /\ cur' = i
      /\ UNCHANGED <<up, ownedJob, saved, history>>
  BY DEF StageOpen
<1>2. BudgetInv /\ BudgetInv'
  BY <1>1, AcquireRootInv DEF ResumeInv
<1>3. /\ clock' = clock /\ startedAt' = startedAt
      /\ elapsedBefore' = elapsedBefore /\ consumed' = consumed
      /\ roundConsumed' = roundConsumed /\ startedRounds' = startedRounds
  BY <1>1 DEF AcquireRoot
<1>4. /\ worked' = worked /\ roundWorked' = roundWorked /\ tunedRounds' = tunedRounds
      /\ roundUntouched' = roundUntouched
  BY <1>1 DEF history
<1>5. SavedOK' /\ SavedCovers' /\ WorkWithinLimits'
  BY <1>1, <1>2, <1>3, <1>4, SavedStands
<1>6. DriverTypes' /\ DownOK' /\ WallInv' /\ RoundsInv'
  BY <1>1, <1>3, <1>4 DEF ResumeInv, DriverTypes, DownOK, WallInv, RoundsInv
<1>7. /\ leases'[i].stage = s /\ leases'[i].started = clock
      /\ leases'[i].model = FALSE /\ leases'[i].closed = FALSE
      /\ \A j \in LeaseIds : j # i => leases'[j] = leases[j]
      /\ leases[i].closed
  <2>1. leases \in [LeaseIds -> Lease]
    BY <1>2 DEF BudgetInv, TypeOK
  <2> QED BY <1>1, <2>1 DEF AcquireRoot, Fresh
<1>8. Roots' = Roots \cup {i} /\ i \notin Roots
  BY <1>7 DEF Roots, Open
<1>9. AtWork'
  BY <1>1, <1>4, <1>8 DEF AtWork
<1>10. ASSUME NEW r \in Stages PROVE OpenTime(r)' = OpenTime(r)
  <2>1. OpenTimes /\ OpenTimes'
    BY <1>2, OpenTimesHold, OpenTimesNext
  <2>2. CASE r = s
    <3>1. RootsOf(s) = {}
      BY <1>1 DEF AcquireRoot, StageIdle
    <3>2. i \in RootsOf(s)'
      BY <1>7, <1>8 DEF RootsOf
    <3>3. Elapsed(i)' = 0
      BY <1>2, <1>3, <1>7 DEF Elapsed, BudgetInv, TypeOK
    <3> QED BY <2>1, <2>2, <3>1, <3>2, <3>3 DEF OpenTimes
  <2>3. CASE r # s
    <3>1. RootsOf(r)' = RootsOf(r)
      BY <1>7, <1>8, <2>3 DEF RootsOf, Roots, Open
    <3>2. \A j \in RootsOf(r) : Elapsed(j)' = Elapsed(j)
      BY <1>3, <1>7, <1>8 DEF RootsOf, Roots, Open, Elapsed
    <3>3. CASE RootsOf(r) = {}
      BY <2>1, <3>1, <3>3 DEF OpenTimes
    <3>4. CASE RootsOf(r) # {}
      <4>1. PICK j \in RootsOf(r) : TRUE
        BY <3>4
      <4> QED BY <2>1, <3>1, <3>2, <4>1 DEF OpenTimes
    <3> QED BY <3>3, <3>4
  <2> QED BY <2>2, <2>3
<1>11. CountersCover'
  BY <1>1, <1>3, <1>4, <1>10 DEF CountersCover, ResumeInv
<1> QED BY <1>2, <1>5, <1>6, <1>9, <1>11 DEF ResumeInv

(* A confirmed close charges what the lease used. *)
LEMMA CloseConfirmedStep ==
    ResumeInv /\ StageClose /\ ~ownedJob => ResumeInv'
<1> SUFFICES ASSUME ResumeInv, StageClose, ~ownedJob PROVE ResumeInv'
  OBVIOUS
<1>1. /\ CloseConfirmed(cur) /\ UNCHANGED <<up, saved, history>>
      /\ ownedJob' = ownedJob /\ pc' = "closed" /\ cur' = NoParent /\ up /\ pc = "work"
  BY DEF StageClose
<1>2. BudgetInv /\ cur \in Roots /\ cur \in LeaseIds /\ ~leases[cur].model
  BY <1>1 DEF ResumeInv, AtWork, Roots, Open
<1>3. BudgetInv'
  BY <1>1, <1>2, CloseConfirmedInv
<1>4. /\ clock' = clock /\ startedAt' = startedAt
      /\ elapsedBefore' = elapsedBefore /\ startedRounds' = startedRounds
  BY <1>1 DEF CloseConfirmed
<1>5. /\ worked' = worked /\ roundWorked' = roundWorked /\ tunedRounds' = tunedRounds
      /\ roundUntouched' = roundUntouched
  BY <1>1 DEF history
<1>6. SavedOK' /\ SavedCovers' /\ WorkWithinLimits'
  BY <1>1, <1>3, <1>4, <1>5, SavedStands
<1>7. DriverTypes' /\ DownOK' /\ WallInv' /\ RoundsInv' /\ AtWork'
  BY <1>1, <1>4, <1>5 DEF ResumeInv, DriverTypes, DownOK, WallInv, RoundsInv, AtWork
<1>8. CountersCover'
  <2> SUFFICES ASSUME NEW r \in Stages
               PROVE  /\ consumed'[r] + OpenTime(r)' = consumed[r] + OpenTime(r)
                      /\ roundConsumed'[r] + OpenTime(r)' = roundConsumed[r] + OpenTime(r)
    BY <1>1, <1>5 DEF CountersCover, ResumeInv
  <2>1. OpenTimes /\ OpenTimes'
    BY <1>2, <1>3, OpenTimesHold, OpenTimesNext
  <2>2. Roots' = Roots \ {cur} /\ \A j \in LeaseIds : j # cur => leases'[j] = leases[j]
    BY <1>1, <1>2, CloseStep
  <2>3. /\ consumed' = [consumed EXCEPT ![leases[cur].stage] = @ + Elapsed(cur)]
        /\ roundConsumed' = [roundConsumed EXCEPT ![leases[cur].stage] = @ + Elapsed(cur)]
    BY <1>1, <1>2 DEF CloseConfirmed, ChargeClosed
  <2>4. consumed \in [Stages -> Nat] /\ roundConsumed \in [Stages -> Nat]
    BY <1>2 DEF BudgetInv, TypeOK
  <2>5. CASE r = leases[cur].stage
    <3>1. cur \in RootsOf(r)
      BY <1>2, <2>5 DEF RootsOf
    <3>2. RootsOf(r)' = {}
      <4>1. RootsOf(r) = {cur}
        BY <1>2, <3>1 DEF BudgetInv, OneRootPerStage, RootsOf
      <4>2. RootsOf(r)' \subseteq RootsOf(r) \ {cur}
        BY <2>2 DEF RootsOf, Roots, Open
      <4> QED BY <4>1, <4>2
    <3>3. OpenTime(r)' = 0 /\ OpenTime(r) = Elapsed(cur) /\ Elapsed(cur) \in Nat
      BY <2>1, <3>1, <3>2 DEF OpenTimes
    <3> QED BY <2>3, <2>4, <2>5, <3>3
  <2>6. CASE r # leases[cur].stage
    <3>1. RootsOf(r)' = RootsOf(r)
      BY <2>2, <2>6 DEF RootsOf, Roots, Open
    <3>2. \A j \in RootsOf(r) : Elapsed(j)' = Elapsed(j)
      BY <1>4, <2>2, <2>6 DEF RootsOf, Roots, Open, Elapsed
    <3>3. OpenTime(r)' = OpenTime(r)
      <4>1. CASE RootsOf(r) = {}
        BY <2>1, <3>1, <4>1 DEF OpenTimes
      <4>2. CASE RootsOf(r) # {}
        <5>1. PICK j \in RootsOf(r) : TRUE
          BY <4>2
        <5> QED BY <2>1, <3>1, <3>2, <5>1 DEF OpenTimes
      <4> QED BY <4>1, <4>2
    <3> QED BY <2>3, <2>4, <2>6, <3>3
  <2> QED BY <2>5, <2>6
<1> QED BY <1>3, <1>6, <1>7, <1>8 DEF ResumeInv
-----------------------------------------------------------------------------
(* What a checkpoint restores at the moment it is written is what the       *)
(* manager counts.                                                          *)
LEMMA SnapshotFacts ==
    ASSUME ResumeInv, up, UNCHANGED vars, saved' = Snapshot
    PROVE  /\ BudgetInv' /\ SavedOK'
           /\ DOMAIN saved'.active = Open
           /\ \A i \in Open :
                 /\ saved'.active[i].stage = leases[i].stage
                 /\ saved'.active[i].model = leases[i].model
                 /\ saved'.active[i].used = Elapsed(i)
                 /\ saved'.active[i].left = NonNegative(leases[i].deadline - clock)
           /\ saved'.at = clock /\ saved'.rounds = startedRounds
           /\ saved'.consumed = consumed /\ saved'.roundConsumed = roundConsumed
<1>1. BudgetInv /\ BudgetInv' /\ WallInv
  BY NextInv DEF ResumeInv
<1>2. clock' = clock /\ leases' = leases
  BY DEF vars, managerVars
<1>3. /\ DOMAIN saved'.active = Open
      /\ \A i \in Open :
            /\ saved'.active[i].stage = leases[i].stage
            /\ saved'.active[i].model = leases[i].model
            /\ saved'.active[i].used = Elapsed(i)
            /\ saved'.active[i].left = NonNegative(leases[i].deadline - clock)
  BY DEF Snapshot
<1>4. /\ saved'.at = clock /\ saved'.rounds = startedRounds
      /\ saved'.consumed = consumed /\ saved'.roundConsumed = roundConsumed
      /\ saved'.modelWork = modelWork
      /\ saved'.elapsed = elapsedBefore + (clock - startedAt)
  BY DEF Snapshot
<1>5. /\ clock \in Nat /\ consumed \in [Stages -> Nat] /\ modelWork \in [Stages -> Nat]
      /\ roundConsumed \in [Stages -> Nat] /\ startedRounds \in Nat
      /\ startedAt \in Nat /\ elapsedBefore \in Nat /\ Open \subseteq LeaseIds
  BY <1>1 DEF BudgetInv, TypeOK, Open
<1>6. saved'.elapsed = saved'.at
  BY <1>1, <1>4, <1>5 DEF WallInv
<1>7. \A i \in Open : /\ leases[i].stage \in Stages /\ leases[i].model \in BOOLEAN
                      /\ Elapsed(i) \in Nat
                      /\ NonNegative(leases[i].deadline - clock) \in Nat
  <2> SUFFICES ASSUME NEW i \in Open
               PROVE  /\ leases[i].stage \in Stages /\ leases[i].model \in BOOLEAN
                      /\ Elapsed(i) \in Nat
                      /\ NonNegative(leases[i].deadline - clock) \in Nat
    OBVIOUS
  <2>1. /\ leases[i].stage \in Stages /\ leases[i].model \in BOOLEAN
        /\ leases[i].started \in Nat /\ leases[i].deadline \in Int
        /\ leases[i].started <= clock
    BY <1>1 DEF BudgetInv, TypeOK, StartedInPast, Lease, Open
  <2> QED BY <1>5, <2>1 DEF Elapsed, NonNegative
<1>8. \A i, j \in Open :
          (/\ ~leases[i].model /\ ~leases[j].model
           /\ leases[i].stage = leases[j].stage) => i = j
  BY <1>1 DEF BudgetInv, OneRootPerStage, Roots
<1>9. SavedOK'
  <2>1. \A i \in DOMAIN saved'.active :
            /\ saved'.active[i].stage \in Stages /\ saved'.active[i].model \in BOOLEAN
            /\ saved'.active[i].used \in Nat /\ saved'.active[i].left \in Nat
    BY <1>3, <1>7
  <2>2. \A i, j \in DOMAIN saved'.active :
            (/\ ~saved'.active[i].model /\ ~saved'.active[j].model
             /\ saved'.active[i].stage = saved'.active[j].stage) => i = j
    BY <1>3, <1>8
  <2>3. DOMAIN saved'.active \subseteq LeaseIds
    BY <1>3, <1>5
  <2>4. /\ saved'.consumed \in [Stages -> Nat] /\ saved'.modelWork \in [Stages -> Nat]
        /\ saved'.roundConsumed \in [Stages -> Nat] /\ saved'.rounds \in Nat
        /\ saved'.at \in Nat /\ saved'.at <= clock'
    BY <1>2, <1>4, <1>5
  <2> QED BY <1>6, <2>1, <2>2, <2>3, <2>4 DEF SavedOK
<1> QED BY <1>1, <1>3, <1>4, <1>9

LEMMA SnapshotCharges ==
    ASSUME ResumeInv, up, UNCHANGED vars, saved' = Snapshot, saved' # NoCheckpoint,
           NEW s \in Stages
    PROVE  Owed(s)' = OpenTime(s)
<1>1. /\ BudgetInv /\ BudgetInv' /\ SavedOK'
      /\ DOMAIN saved'.active = Open
      /\ \A i \in Open :
            /\ saved'.active[i].stage = leases[i].stage
            /\ saved'.active[i].model = leases[i].model
            /\ saved'.active[i].used = Elapsed(i)
      /\ saved'.at = clock /\ clock' = clock
  BY SnapshotFacts DEF ResumeInv, vars
<1>2. OpenTimes /\ Charges'
  BY <1>1, OpenTimesHold, ChargesNext
<1>3. ActiveOf(s)' = RootsOf(s)
  BY <1>1 DEF ActiveOf, RootsOf, Roots
<1>4. CASE RootsOf(s) = {}
  BY <1>2, <1>3, <1>4 DEF OpenTimes, Charges
<1>5. CASE RootsOf(s) # {}
  <2>1. PICK i \in RootsOf(s) : TRUE
    BY <1>5
  <2>2. OpenTime(s) = Elapsed(i) /\ Elapsed(i) \in Nat
    BY <1>2, <2>1 DEF OpenTimes
  <2>3. Owed(s)' = Charge(i)'
    BY <1>2, <1>3, <2>1 DEF Charges
  <2>4. i \in Open /\ saved'.active[i].left \in Nat /\ clock \in Nat
    BY <1>1, <2>1 DEF RootsOf, Roots, SavedOK, BudgetInv, TypeOK
  <2>5. Charge(i)' = Elapsed(i) + Smaller(clock - clock, saved'.active[i].left)
    BY <1>1, <2>4 DEF Charge, Downtime
  <2>6. Smaller(clock - clock, saved'.active[i].left) = 0
    BY <2>4 DEF Smaller
  <2> QED BY <2>2, <2>3, <2>5, <2>6
<1> QED BY <1>4, <1>5

(* save_checkpoint: the rounds and the history are covered when it writes. *)
LEMMA SaveStep ==
    ASSUME ResumeInv, up, UNCHANGED <<vars, up, cur, ownedJob, worked>>, saved' = Snapshot,
           roundWorked' \in [Stages -> Nat], tunedRounds' \in Nat, ~roundUntouched',
           roundUntouched' \in BOOLEAN, tunedRounds' <= startedRounds,
           \A s \in Stages : roundWorked'[s] <= roundConsumed[s] + OpenTime(s),
           \A s \in Stages : roundWorked'[s] <= PerRound[s],
           pc' \in {"idle", "work"}, pc' = "work" => cur \in Roots
    PROVE  ResumeInv'
<1>1. /\ BudgetInv' /\ SavedOK'
      /\ DOMAIN saved'.active = Open
      /\ \A i \in Open :
            /\ saved'.active[i].stage = leases[i].stage
            /\ saved'.active[i].model = leases[i].model
            /\ saved'.active[i].left = NonNegative(leases[i].deadline - clock)
      /\ saved'.at = clock /\ saved'.rounds = startedRounds
      /\ saved'.consumed = consumed /\ saved'.roundConsumed = roundConsumed
  BY SnapshotFacts
<1>2. /\ clock' = clock /\ leases' = leases /\ startedAt' = startedAt
      /\ elapsedBefore' = elapsedBefore /\ consumed' = consumed
      /\ roundConsumed' = roundConsumed /\ startedRounds' = startedRounds
  BY DEF vars, managerVars
<1>3. RootsStand
  BY <1>2 DEF RootsStand, Roots, Open
<1>4. \A s \in Stages : OpenTime(s)' = OpenTime(s)
  BY <1>1, <1>2, <1>3, OpenTimeStands DEF ResumeInv
<1>5. CountersCover'
  BY <1>2, <1>4 DEF ResumeInv, CountersCover
<1>6. SavedCovers'
  <2> SUFFICES ASSUME saved' # NoCheckpoint, NEW s \in Stages
               PROVE  /\ worked'[s] <= saved'.consumed[s] + Owed(s)'
                      /\ roundWorked'[s] <= saved'.roundConsumed[s] + Owed(s)'
    BY DEF SavedCovers
  <2>1. Owed(s)' = OpenTime(s)
    BY SnapshotCharges
  <2> QED BY <1>1, <2>1 DEF ResumeInv, CountersCover
<1>7. WorkWithinLimits'
  BY DEF ResumeInv, WorkWithinLimits
<1>8. DriverTypes' /\ DownOK' /\ WallInv'
  BY <1>2 DEF ResumeInv, DriverTypes, DownOK, WallInv
<1>9. RoundsInv'
  <2>1. startedRounds \in Nat
    BY DEF ResumeInv, BudgetInv, TypeOK
  <2> DEFINE n == IF roundUntouched' THEN 1 ELSE 0
  <2>2. n = 0
    BY Zenon
  <2> HIDE DEF n
  <2>3. tunedRounds' + n <= startedRounds'
    <3>1. \A a, b \in Nat : a <= b => a + 0 <= b
      OBVIOUS
    <3>2. tunedRounds' + 0 <= startedRounds
      BY <2>1, <3>1, Zenon
    <3> QED
      BY <1>2, <2>2, <3>2, Zenon
  <2>4. tunedRounds' <= saved'.rounds
    BY <1>1
  <2> QED BY <2>3, <2>4 DEF RoundsInv, n
<1>10. AtWork'
  <2>1. ASSUME cur \in Roots
        PROVE  cur \in Open /\ ~leases[cur].model /\ cur \in Roots'
    BY <1>3, <2>1 DEF Roots, RootsStand
  <2> QED BY <1>1, <1>2, <2>1 DEF AtWork
<1> QED BY <1>1, <1>5, <1>6, <1>7, <1>8, <1>9, <1>10 DEF ResumeInv

LEMMA SaveSteps ==
    ResumeInv /\ (StageSaveOpened \/ SaveDuringWork \/ StageSaveClosed) => ResumeInv'
<1> SUFFICES ASSUME ResumeInv, StageSaveOpened \/ SaveDuringWork \/ StageSaveClosed
             PROVE  ResumeInv'
  OBVIOUS
<1>1. /\ BudgetInv /\ DriverTypes /\ AtWork /\ RoundsInv /\ CountersCover
      /\ WorkWithinLimits /\ OpenTimes
  BY OpenTimesHold DEF ResumeInv
<1>2. /\ startedRounds \in Nat /\ tunedRounds \in Nat /\ roundUntouched \in BOOLEAN
      /\ roundConsumed \in [Stages -> Nat] /\ roundWorked \in [Stages -> Nat]
      /\ PerRound \in [Stages -> Nat] /\ \A s \in Stages : OpenTime(s) \in Nat
  BY <1>1, BudgetAssumption DEF BudgetInv, TypeOK, DriverTypes, OpenTimes
<1>3. CASE StageSaveOpened
  <2>1. /\ up /\ pc = "opened" /\ saved' = Snapshot /\ pc' = "work" /\ roundUntouched' = FALSE
        /\ tunedRounds' = tunedRounds + (IF roundUntouched THEN 1 ELSE 0)
        /\ roundWorked' = IF roundUntouched THEN [s \in Stages |-> 0] ELSE roundWorked
        /\ UNCHANGED <<vars, up, cur, ownedJob, worked>>
    BY <1>3 DEF StageSaveOpened
  <2>2. roundUntouched' \in BOOLEAN /\ ~roundUntouched'
    BY <2>1, Zenon
  <2>3. cur \in Roots
    BY <1>1, <2>1 DEF AtWork
  <2>4. tunedRounds' <= startedRounds /\ tunedRounds' \in Nat
    BY <1>1, <1>2, <2>1 DEF RoundsInv
  <2>5. /\ roundWorked' \in [Stages -> Nat]
        /\ \A s \in Stages : roundWorked'[s] <= roundConsumed[s] + OpenTime(s)
        /\ \A s \in Stages : roundWorked'[s] <= PerRound[s]
    <3>1. CASE roundUntouched
      BY <1>2, <2>1, <3>1
    <3>2. CASE ~roundUntouched
      BY <1>1, <1>2, <2>1, <3>2 DEF CountersCover, WorkWithinLimits
    <3> QED BY <3>1, <3>2
  <2> QED BY <2>1, <2>2, <2>3, <2>4, <2>5, SaveStep
<1>4. CASE SaveDuringWork \/ StageSaveClosed
  <2>1. /\ up /\ pc \in {"work", "closed"} /\ saved' = Snapshot
        /\ roundUntouched' = roundUntouched /\ tunedRounds' = tunedRounds
        /\ roundWorked' = roundWorked /\ pc' \in {"idle", "work"}
        /\ pc' = "work" => pc = "work"
        /\ UNCHANGED <<vars, up, cur, ownedJob, worked>>
    BY <1>4 DEF SaveDuringWork, StageSaveClosed, driverVars, history
  <2>2. ~roundUntouched /\ (pc' = "work" => cur \in Roots)
    BY <1>1, <2>1 DEF AtWork
  <2>3. tunedRounds' <= startedRounds
    BY <1>1, <1>2, <2>1, <2>2 DEF RoundsInv
  <2>4. /\ \A s \in Stages : roundWorked'[s] <= roundConsumed[s] + OpenTime(s)
        /\ \A s \in Stages : roundWorked'[s] <= PerRound[s]
    BY <1>1, <2>1, <2>2 DEF CountersCover, WorkWithinLimits
  <2> QED BY <1>2, <2>1, <2>2, <2>3, <2>4, SaveStep
<1> QED BY <1>3, <1>4
-----------------------------------------------------------------------------
(* A manager without leases is in order whatever it has counted. *)
LEMMA EmptyManager ==
    ASSUME TypeOK, leases = [i \in LeaseIds |-> Unused] PROVE BudgetInv
<1>1. Open = {} /\ Roots = {} /\ Models = {}
  BY DEF Open, Roots, Models, Unused
<1>2. SleepersNameRoots
  <2> SUFFICES ASSUME NEW w \in Workers, waiting[w] # NoRequest
               PROVE  ~leases[waiting[w].parent].model
    BY DEF SleepersNameRoots
  <2>1. waiting[w].parent \in LeaseIds
    BY DEF TypeOK, Request
  <2> QED BY <2>1 DEF Unused
<1> QED BY <1>1, <1>2 DEF BudgetInv, StartedInPast, OneRootPerStage, ModelInsideRoot,
                          OutstandingWithinLimits

NoLeases == TypeOK /\ leases = [i \in LeaseIds |-> Unused]

LEMMA EmptyManagerNext == NoLeases' => BudgetInv'
<1>1. NoLeases => BudgetInv
  BY EmptyManager DEF NoLeases
<1> QED BY <1>1, PTL

(* The process dies: the checkpoint is all that is left. *)
LEMMA CrashStep == ResumeInv /\ Crash => ResumeInv'
<1> SUFFICES ASSUME ResumeInv, Crash PROVE ResumeInv'
  OBVIOUS
<1>1. /\ BudgetInv /\ DriverTypes /\ RoundsInv
  BY DEF ResumeInv
<1>2. /\ up' = FALSE /\ pc' = "idle" /\ cur' = NoParent /\ cancelled' = FALSE
      /\ leases' = [i \in LeaseIds |-> Unused] /\ clock' = clock
      /\ ownedJob' = ownedJob /\ saved' = saved /\ worked' = worked
      /\ roundWorked' = roundWorked /\ tunedRounds' = tunedRounds
      /\ roundUntouched' = roundUntouched
  BY DEF Crash, history
<1>3. up' \in BOOLEAN /\ cancelled' \in BOOLEAN /\ ~up'
  BY <1>2, Zenon
<1>4. NoLeases'
  <2>1. leases' \in [LeaseIds -> Lease] /\ waiting' \in [Workers -> Request \cup {NoRequest}]
    BY <1>2, UnusedType DEF Crash
  <2>2. /\ consumed' \in [Stages -> Nat] /\ modelWork' \in [Stages -> Nat]
        /\ roundConsumed' \in [Stages -> Nat]
    BY DEF Crash
  <2>3. /\ clock' \in Nat /\ startedAt' \in Nat /\ elapsedBefore' \in Nat
        /\ startedRounds' \in Nat /\ cpuInUse' \in Int
    BY <1>1, <1>2 DEF Crash, BudgetInv, TypeOK
  <2> QED BY <1>2, <1>3, <2>1, <2>2, <2>3 DEF NoLeases, TypeOK
<1>5. BudgetInv'
  BY <1>4, EmptyManagerNext
<1>6. SavedOK' /\ SavedCovers' /\ WorkWithinLimits'
  BY <1>2, <1>5, SavedStands
<1>7. DriverTypes' /\ DownOK' /\ AtWork'
  BY <1>1, <1>2, <1>3 DEF DriverTypes, DownOK, AtWork
<1>8. WallInv' /\ CountersCover' /\ RoundsInv'
  BY <1>1, <1>2, <1>3 DEF WallInv, CountersCover, RoundsInv
<1> QED BY <1>5, <1>6, <1>7, <1>8 DEF ResumeInv

(* The new manager starts from what the checkpoint covers. *)
LEMMA ResumeStep == ResumeInv /\ Resume => ResumeInv'
<1> SUFFICES ASSUME ResumeInv, Resume PROVE ResumeInv'
  OBVIOUS
<1>1. /\ BudgetInv /\ DriverTypes /\ SavedOK /\ DownOK /\ RoundsInv /\ SavedCovers
      /\ Charges
  BY ChargesHold DEF ResumeInv
<1>2. /\ ~up /\ saved # NoCheckpoint /\ up' = TRUE /\ startedAt' = clock
      /\ elapsedBefore' = saved.elapsed + (clock - saved.at) /\ startedRounds' = saved.rounds
      /\ roundUntouched' = FALSE /\ clock' = clock /\ cpuInUse' = cpuInUse
      /\ leases' = leases /\ cancelled' = cancelled /\ waiting' = waiting /\ pc' = pc
      /\ cur' = cur /\ ownedJob' = ownedJob /\ saved' = saved /\ worked' = worked
      /\ roundWorked' = roundWorked /\ tunedRounds' = tunedRounds
  BY DEF Resume, RestoreUsage, RestoredWall, Downtime
<1>3. /\ consumed' = [s \in Stages |-> saved.consumed[s] + Owed(s)]
      /\ modelWork' = [s \in Stages |-> saved.modelWork[s] + OwedModel(s)]
      /\ roundConsumed' = [s \in Stages |-> saved.roundConsumed[s] + Owed(s)]
  BY DEF Resume, RestoreUsage, RestoredRound, Owed, OwedModel
<1>4. /\ saved.consumed \in [Stages -> Nat] /\ saved.modelWork \in [Stages -> Nat]
      /\ saved.roundConsumed \in [Stages -> Nat] /\ saved.rounds \in Nat
      /\ saved.at \in Nat /\ saved.at <= clock /\ saved.elapsed = saved.at
      /\ \A s \in Stages : Owed(s) \in Nat /\ OwedModel(s) \in Nat
  BY <1>1, <1>2 DEF SavedOK, Charges
<1>5. /\ consumed' \in [Stages -> Nat] /\ modelWork' \in [Stages -> Nat]
      /\ roundConsumed' \in [Stages -> Nat]
  BY <1>3, <1>4
<1>6. elapsedBefore' = clock /\ clock \in Nat
  BY <1>1, <1>2, <1>4 DEF BudgetInv, TypeOK
<1>7. up' \in BOOLEAN /\ up' /\ roundUntouched' \in BOOLEAN /\ ~roundUntouched'
  BY <1>2, Zenon
<1>8. BudgetInv'
  <2>1. TypeOK'
    BY <1>1, <1>2, <1>4, <1>5, <1>6 DEF BudgetInv, TypeOK
  <2>2. leases' = [i \in LeaseIds |-> Unused]
    BY <1>1, <1>2 DEF DownOK
  <2> QED BY <2>1, <2>2, EmptyManagerNext DEF NoLeases
<1>9. SavedOK' /\ SavedCovers' /\ WorkWithinLimits'
  BY <1>2, <1>8, SavedStands
<1>10. pc = "idle"
  BY <1>1, <1>2 DEF DownOK
<1>11. DriverTypes' /\ DownOK' /\ AtWork'
  BY <1>1, <1>2, <1>7, <1>10 DEF DriverTypes, DownOK, AtWork
<1>12. WallInv'
  BY <1>2, <1>6 DEF WallInv
<1>13. RoundsInv'
  <2>1. (IF roundUntouched' THEN 1 ELSE 0) = 0
    BY <1>7, Zenon
  <2>2. tunedRounds' \in Nat /\ tunedRounds' <= saved.rounds
    BY <1>1, <1>2 DEF DriverTypes, RoundsInv
  <2>3. tunedRounds' + (IF roundUntouched' THEN 1 ELSE 0) <= startedRounds'
    BY <1>2, <2>1, <2>2
  <2> QED BY <1>2, <2>2, <2>3 DEF RoundsInv
<1>14. CountersCover'
  <2> SUFFICES ASSUME NEW s \in Stages
               PROVE  /\ worked'[s] <= consumed'[s] + OpenTime(s)'
                      /\ roundWorked'[s] <= roundConsumed'[s] + OpenTime(s)'
    BY DEF CountersCover
  <2>1. OpenTime(s)' \in Nat
    BY <1>8, OpenTimesNext DEF OpenTimes
  <2>2. /\ worked[s] <= saved.consumed[s] + Owed(s)
        /\ roundWorked[s] <= saved.roundConsumed[s] + Owed(s)
    BY <1>1, <1>2 DEF SavedCovers
  <2>3. worked[s] \in Nat /\ roundWorked[s] \in Nat
    BY <1>1 DEF DriverTypes
  <2>4. /\ consumed'[s] = saved.consumed[s] + Owed(s)
        /\ roundConsumed'[s] = saved.roundConsumed[s] + Owed(s)
        /\ consumed'[s] \in Nat /\ roundConsumed'[s] \in Nat
    BY <1>3, <1>5
  <2> QED BY <1>2, <2>1, <2>2, <2>3, <2>4
<1> QED BY <1>8, <1>9, <1>11, <1>12, <1>13, <1>14 DEF ResumeInv

LEMMA ResumeInit == RInit => ResumeInv
<1> SUFFICES ASSUME RInit PROVE ResumeInv
  OBVIOUS
<1>1. BudgetInv /\ OpenTimes
  BY InitInv, OpenTimesHold DEF RInit
<1>2. /\ up = TRUE /\ pc = "idle" /\ cur = NoParent /\ ownedJob = FALSE
      /\ saved = NoCheckpoint /\ tunedRounds = 0 /\ roundUntouched = FALSE
      /\ worked = [s \in Stages |-> 0] /\ roundWorked = [s \in Stages |-> 0]
  BY DEF RInit
<1>3. /\ up \in BOOLEAN /\ ownedJob \in BOOLEAN /\ roundUntouched \in BOOLEAN
      /\ (IF roundUntouched THEN 1 ELSE 0) = 0 /\ up
  BY <1>2, Zenon
<1>4. /\ clock = 0 /\ startedAt = 0 /\ elapsedBefore = 0 /\ startedRounds = 0
      /\ consumed = [s \in Stages |-> 0] /\ roundConsumed = [s \in Stages |-> 0]
  BY DEF RInit, Init
<1>5. DriverTypes /\ DownOK /\ AtWork /\ SavedOK /\ SavedCovers
  BY <1>2, <1>3 DEF DriverTypes, DownOK, AtWork, SavedOK, SavedCovers
<1>6. WallInv /\ RoundsInv
  BY <1>2, <1>3, <1>4 DEF WallInv, RoundsInv
<1>7. WorkWithinLimits
  BY <1>2, BudgetAssumption DEF WorkWithinLimits
<1>8. CountersCover
  BY <1>1, <1>2, <1>4 DEF CountersCover, OpenTimes
<1> QED BY <1>1, <1>5, <1>6, <1>7, <1>8 DEF ResumeInv
-----------------------------------------------------------------------------
(* The inductive invariant of a run that may crash between any two steps of *)
(* stage() and resume from the checkpoint it last wrote                     *)
(* (workflow_v5.py stage, workflow_state.py restore_checkpoint).            *)
THEOREM ResumeInvariant == RSpec => []ResumeInv
<1>1. ASSUME ResumeInv, [RNext]_rvars PROVE ResumeInv'
  <2>1. CASE \E s \in Stages, i \in LeaseIds : StageOpen(s, i)
    BY <1>1, <2>1, StageOpenStep
  <2>2. CASE StageSaveOpened \/ SaveDuringWork \/ StageSaveClosed
    BY <1>1, <2>2, SaveSteps
  <2>3. CASE StartJob \/ JobGone \/ UNCHANGED rvars
    BY <1>1, <2>3, JobStep
  <2>4. CASE StageClose
    BY <1>1, <2>4, CloseUnconfirmedStep, CloseConfirmedStep
  <2>5. CASE StageCloseRefused
    BY <1>1, <2>5, CloseRefusedStep
  <2>6. CASE TuningRound
    BY <1>1, <2>6, TuningRoundStep
  <2>7. CASE \E w \in Workers, i \in LeaseIds : SolverOpen(w, i)
    BY <1>1, <2>7, SolverOpenStep
  <2>8. CASE \E i \in LeaseIds : SolverClose(i)
    BY <1>1, <2>8, SolverCloseStep
  <2>9. CASE Pass
    BY <1>1, <2>9, PassStep
  <2>10. CASE Crash
    BY <1>1, <2>10, CrashStep
  <2>11. CASE Resume
    BY <1>1, <2>11, ResumeStep
  <2> QED BY <1>1, <2>1, <2>2, <2>3, <2>4, <2>5, <2>6, <2>7, <2>8, <2>9, <2>10, <2>11
             DEF RNext
<1> QED BY ResumeInit, <1>1, PTL DEF RSpec

(* However often the process dies and wherever between the steps of stage() *)
(* it does, a resume gives back neither stage time, nor a tuning round in   *)
(* which a stage worked, nor wall time.                                     *)
THEOREM ResumeRefundsNothing == RSpec => []ResumeNeverRefunds
<1>1. ASSUME ResumeInv PROVE ResumeNeverRefunds
  <2>1. /\ clock \in Nat /\ startedAt \in Nat /\ elapsedBefore \in Nat
        /\ startedRounds \in Nat /\ tunedRounds \in Nat /\ RunWall \in Nat
    BY <1>1, BudgetAssumption DEF ResumeInv, BudgetInv, TypeOK, DriverTypes
  <2>2. TimeNeverRefunded
    BY <1>1 DEF ResumeInv, CountersCover, TimeNeverRefunded
  <2>3. RoundsNeverRefunded
    <3>1. (IF roundUntouched THEN 1 ELSE 0) \in Nat
      OBVIOUS
    <3>2. up => tunedRounds + (IF roundUntouched THEN 1 ELSE 0) <= startedRounds
      BY <1>1 DEF ResumeInv, RoundsInv
    <3> QED BY <2>1, <3>1, <3>2 DEF RoundsNeverRefunded
  <2>4. WallDeadlineFixed
    BY <1>1, <2>1 DEF ResumeInv, WallInv, WallDeadlineFixed, GlobalDeadline
  <2> QED BY <2>2, <2>3, <2>4 DEF ResumeNeverRefunds
<1> QED BY ResumeInvariant, <1>1, PTL

(* The user's limits bound the work of all the lives of a run together: a   *)
(* stage works no longer than its allowance, in total and in a round.       *)
THEOREM LimitsAreHonoured == RSpec => []LimitsHonoured
<1>1. ASSUME ResumeInv PROVE LimitsHonoured
  BY <1>1 DEF ResumeInv, BudgetInv, DriverTypes, LimitsHonoured, RTypeOK
<1> QED BY ResumeInvariant, <1>1, PTL
=============================================================================
