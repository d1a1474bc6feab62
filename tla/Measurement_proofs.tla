------------------------- MODULE Measurement_proofs -------------------------
(***************************************************************************)
(* Proofs about Measurement: the significance a task may spend over any    *)
(* number of attempts, the environment of the cost model it publishes, and *)
(* the safety of its native launches on GPUs that others use as well.      *)
(***************************************************************************)
EXTENDS Measurement, FiniteSums

-----------------------------------------------------------------------------
(* Significance levels *)

LEMMA MaxOfTwo ==
    ASSUME NEW a \in Nat, NEW b \in Nat
    PROVE  Max({a, b}) \in {a, b} /\ Max({a, b}) >= a /\ Max({a, b}) >= b
<1>1. \E x \in {a, b} : \A y \in {a, b} : x >= y
  OBVIOUS
<1> QED
  BY <1>1 DEF Max

LEMMA AlphaInvBound ==
    ASSUME NEW i \in Nat \ {0}
    PROVE  AlphaInv(i) \in Nat \ {0} /\ AlphaInv(i) >= AlphaInverse * i * (i + 1)
<1>1. AlphaInverse * i * (i + 1) \in Nat
  BY AlphaAssumption
<1> QED
  BY <1>1, AlphaAssumption, MaxOfTwo DEF AlphaInv

(* A level, in whole units, is no more than its share of the series. *)
LEMMA LevelBound ==
    ASSUME NEW i \in Nat \ {0}, NEW unit \in Nat
    PROVE  /\ unit \div AlphaInv(i) \in Nat
           /\ (AlphaInverse * i * (i + 1)) * (unit \div AlphaInv(i)) <= unit
<1> DEFINE d == AlphaInv(i)
           q == unit \div d
           c == AlphaInverse * i * (i + 1)
<1>1. d \in Nat \ {0} /\ d >= c /\ c \in Nat
  BY AlphaInvBound, AlphaAssumption
<1> HIDE DEF d, c
<1>2. q \in Nat /\ d * q <= unit
  BY <1>1
<1> HIDE DEF q
<1>3. c * q <= d * q
  BY <1>1, <1>2
<1>4. c * q <= unit
  BY <1>1, <1>2, <1>3
<1> QED
  BY <1>2, <1>4 DEF c, q, d

\* the attempts a ledger with n reservations has, and what they may spend
Indices(n) == [i \in 1 .. n |-> i]

LEMMA SpentLevels ==
    ASSUME NEW n \in Nat, NEW unit \in Nat
    PROVE  Spent(Indices(n), unit) = SumFunctionOnSet([i \in 1 .. n |-> unit \div AlphaInv(i)], 1 .. n)
<1>1. DOMAIN Indices(n) = 1 .. n /\ \A i \in 1 .. n : Indices(n)[i] = i
  BY DEF Indices
<1>2. [i \in DOMAIN Indices(n) |-> unit \div AlphaInv(Indices(n)[i])]
        = [i \in 1 .. n |-> unit \div AlphaInv(i)]
  BY <1>1, Zenon
<1> QED
  BY <1>1, <1>2, Zenon DEF Spent

LEMMA SpentStep ==
    ASSUME NEW n \in Nat, NEW unit \in Nat
    PROVE  /\ Spent(Indices(0), unit) = 0 /\ Spent(Indices(n), unit) \in Nat
           /\ Spent(Indices(n + 1), unit) = (unit \div AlphaInv(n + 1)) + Spent(Indices(n), unit)
<1> DEFINE level(m) == [i \in 1 .. m |-> unit \div AlphaInv(i)]
<1>1. \A i \in Nat \ {0} : unit \div AlphaInv(i) \in Nat
  BY LevelBound
<1>2. /\ IsFiniteSet(1 .. n) /\ n + 1 \notin 1 .. n /\ 1 .. (n + 1) = (1 .. n) \cup {n + 1}
      /\ 1 .. 0 = {}
  BY FS_Interval
<1>3. \A i \in 1 .. n : level(n)[i] \in Nat /\ level(n)[i] = level(n + 1)[i]
  BY <1>1
<1>4. \A i \in (1 .. n) \cup {n + 1} : level(n + 1)[i] \in Int
  BY <1>1, <1>2
<1>5. level(n + 1)[n + 1] = unit \div AlphaInv(n + 1)
  OBVIOUS
<1> HIDE DEF level
<1>6. SumFunctionOnSet(level(n), 1 .. n) \in Nat
  BY <1>2, <1>3, SumNat
<1>7. SumFunctionOnSet(level(n + 1), (1 .. n) \cup {n + 1})
        = level(n + 1)[n + 1] + SumFunctionOnSet(level(n + 1), 1 .. n)
  BY <1>2, <1>4, SumAdd
<1>8. SumFunctionOnSet(level(n + 1), 1 .. n) = SumFunctionOnSet(level(n), 1 .. n)
  BY <1>2, <1>3, <1>4, SumCongruence
<1>9. \A m \in Nat : Spent(Indices(m), unit) = SumFunctionOnSet(level(m), 1 .. m)
  BY SpentLevels DEF level
<1>10. SumFunctionOnSet(level(0), 1 .. 0) = 0
  BY <1>2, SumEmpty
<1>11. 0 \in Nat /\ n + 1 \in Nat
  OBVIOUS
<1> QED
  BY <1>11, <1>2, <1>5, <1>6, <1>7, <1>8, <1>9, <1>10

(* One more attempt: the first n take n / (n + 1) of the task's level. *)
LEMMA SeriesStep ==
    ASSUME NEW n \in Nat, NEW unit \in Nat, NEW a \in Nat, NEW s \in Nat, NEW q \in Nat,
           (n + 1) * (a * s) <= n * unit, (a * (n + 1) * (n + 2)) * q <= unit
    PROVE  (n + 2) * (a * (q + s)) <= (n + 1) * unit
<1> DEFINE x == a * s
           y == a * q
<1>1. x \in Nat /\ y \in Nat /\ a * (q + s) = y + x
  OBVIOUS
<1>2. (a * (n + 1) * (n + 2)) * q = (n + 1) * ((n + 2) * y)
  OBVIOUS
<1>3. (n + 1) * x <= n * unit
  OBVIOUS
<1> HIDE DEF x, y
<1>4. (n + 1) * ((n + 2) * x) <= (n + 2) * (n * unit)
  <2>1. (n + 1) * ((n + 2) * x) = (n + 2) * ((n + 1) * x)
    BY <1>1
  <2>2. (n + 1) * x \in Nat /\ n * unit \in Nat
    BY <1>1
  <2> QED
    BY <1>3, <2>1, <2>2
<1>5. (n + 1) * ((n + 2) * y) <= unit
  BY <1>2
<1>6. (n + 1) * ((n + 2) * (y + x)) <= unit + (n + 2) * (n * unit)
  <2>1. (n + 1) * ((n + 2) * (y + x)) = (n + 1) * ((n + 2) * y) + (n + 1) * ((n + 2) * x)
    BY <1>1
  <2>2. /\ (n + 1) * ((n + 2) * y) \in Nat /\ (n + 1) * ((n + 2) * x) \in Nat
        /\ (n + 2) * (n * unit) \in Nat
    BY <1>1
  <2> QED
    BY <1>4, <1>5, <2>1, <2>2
<1>7. unit + (n + 2) * (n * unit) = (n + 1) * ((n + 1) * unit)
  OBVIOUS
<1>8. (n + 1) * ((n + 2) * (y + x)) <= (n + 1) * ((n + 1) * unit)
  BY <1>6, <1>7
<1>9. (n + 2) * (y + x) \in Nat /\ (n + 1) * unit \in Nat
  BY <1>1
<1>10. \A u, v \in Nat : (n + 1) * u <= (n + 1) * v => u <= v
  OBVIOUS
<1>11. (n + 2) * (y + x) <= (n + 1) * unit
  BY <1>8, <1>9, <1>10
<1> QED
  BY <1>1, <1>11

(* StatisticalLedger.reserve: over any number of attempts, finished or not, *)
(* and however finely the levels are counted, a task spends no more than    *)
(* its task_alpha.                                                          *)
THEOREM LevelsSumWithinTask ==
    ASSUME NEW n \in Nat, NEW unit \in Nat
    PROVE  AlphaInverse * Spent(Indices(n), unit) <= unit
<1> DEFINE Fits(m) == (m + 1) * (AlphaInverse * Spent(Indices(m), unit)) <= m * unit
           Bad == {m \in Nat : ~Fits(m)}
<1>1. ASSUME Bad # {} PROVE FALSE
  <2>1. PICK m \in Bad : \A k \in Bad : m <= k
    BY <1>1, LeastNatural
  <2>2. m # 0
    <3>1. Spent(Indices(0), unit) = 0
      BY SpentStep
    <3>2. (0 + 1) * (AlphaInverse * 0) <= 0 * unit
      BY AlphaAssumption
    <3> QED
      BY <2>1, <3>1, <3>2
  <2> DEFINE k == m - 1
  <2>3. k \in Nat /\ m = k + 1 /\ k \notin Bad
    BY <2>1, <2>2
  <2> HIDE DEF k
  <2>4. (k + 1) * (AlphaInverse * Spent(Indices(k), unit)) <= k * unit
    BY <2>3
  <2>5. /\ Spent(Indices(k), unit) \in Nat
        /\ Spent(Indices(k + 1), unit) = (unit \div AlphaInv(k + 1)) + Spent(Indices(k), unit)
    BY <2>3, SpentStep
  <2>6. /\ unit \div AlphaInv(k + 1) \in Nat
        /\ (AlphaInverse * (k + 1) * (k + 2)) * (unit \div AlphaInv(k + 1)) <= unit
    <3>1. k + 1 \in Nat \ {0} /\ (k + 1) + 1 = k + 2
      BY <2>3
    <3> QED
      BY <3>1, LevelBound
  <2>7. (k + 2) * (AlphaInverse * ((unit \div AlphaInv(k + 1)) + Spent(Indices(k), unit))) <= (k + 1) * unit
    BY <2>3, <2>4, <2>5, <2>6, AlphaAssumption, SeriesStep
  <2>8. Fits(k + 1)
    BY <2>3, <2>5, <2>7
  <2> QED
    BY <2>1, <2>3, <2>8
<1>2. Fits(n)
  BY <1>1
<1> HIDE DEF Bad
<1> DEFINE x == AlphaInverse * Spent(Indices(n), unit)
<1>3. x \in Nat
  BY SpentStep, AlphaAssumption
<1>4. (n + 1) * x <= n * unit
  BY <1>2
<1> HIDE DEF x
<1>5. n * unit <= (n + 1) * unit
  OBVIOUS
<1>6. (n + 1) * x <= (n + 1) * unit
  BY <1>3, <1>4, <1>5
<1>7. \A u, v \in Nat : (n + 1) * u <= (n + 1) * v => u <= v
  OBVIOUS
<1>8. x <= unit
  BY <1>3, <1>6, <1>7
<1> QED
  BY <1>8 DEF x

-----------------------------------------------------------------------------
(* The inductive invariant *)

\* measurements with their provenance
Measured(s) == \E S : s \in Seq(S) /\ \A p \in S : p.env \in Environments

\* the environment of the latest of them; records list confirmations last
Latest(latest, primary, confirming) ==
    /\ latest \in Environments \cup {None}
    /\ latest = None => primary = <<>> /\ confirming = <<>>
    /\ latest # None /\ confirming = <<>> =>
         primary # <<>> /\ primary[Len(primary)].env = latest

TaskOK ==
    /\ {"pc", "queue", "round", "count", "ids", "primary", "confirming", "latest", "attempted", "confirmed",
        "attempt", "pairs", "status", "left"} \subseteq DOMAIN t
    /\ env \in Environments /\ t.ids \subseteq Environments
    /\ Measured(t.primary) /\ Measured(t.confirming)
    /\ Latest(t.latest, t.primary, t.confirming)

\* the payloads of the task are those of a workload
ConfigOK == \E w \in Workloads : config = w.config

\* a service cost was measured in the environment it is published for, a rate
\* profile there or in one of the environments remembered as strays
ModelOK ==
    /\ model.signature \in Environments \cup {None}
    /\ model.service.source = "initial" <=> model.service.value = None
    /\ model.profile.source = "initial" <=> model.profile.value = None
    /\ model.service.value # None => model.service.value = model.signature
    /\ model.profile.value # None =>
         /\ model.profile.value \in Environments /\ model.signature # None
         /\ model.profile.value \in {model.signature} \cup seen.strays
    /\ config.history /\ model.signature # None => model.signature \in {seen.latest, seen.confirmed}

\* the attempts that were decided, each once
LedgerOK ==
    /\ {"plans", "closed", "torn", "accepted"} \subseteq DOMAIN ledger
    /\ ledger.plans \in Seq(Nat) /\ ledger.plans = Indices(Len(ledger.plans))
    /\ ledger.closed \subseteq 1 .. Len(ledger.plans)
    /\ IsFiniteSet(ledger.accepted) /\ IsFiniteSet({a.attempt : a \in ledger.accepted})
    /\ Cardinality(ledger.accepted) = Cardinality({a.attempt : a \in ledger.accepted})
    /\ \A a \in ledger.accepted :
         /\ a.attempt \in ledger.closed
         /\ TailCount(a.wins, a.pairs) * AlphaInv(a.attempt) <= 2^a.pairs
         /\ \E e \in Environments : a.ids = {e}

\* the attempt at work is the latest and still open
AttemptOK ==
    /\ t.pc \in {"side", "launch", "measured"} =>
         /\ t.attempt = Len(ledger.plans) /\ Len(ledger.plans) # 0
         /\ t.attempt \notin ledger.closed
    /\ t.pc = "measured" => \E e \in Environments : t.ids = {e}

MeasurementInv == ConfigOK /\ TaskOK /\ ModelOK /\ LedgerOK /\ AttemptOK

-----------------------------------------------------------------------------
(* The published model *)

LEMMA MinExists ==
    ASSUME NEW S \in SUBSET Nat, S # {}
    PROVE  Min(S) \in S
<1>1. \E x \in S : \A y \in S : x <= y
  BY LeastNatural
<1> QED
  BY <1>1 DEF Min

\* the result is the initial cost, or a level that has a value
LEMMA OverlayCases ==
    ASSUME NEW a, NEW b, NEW c
    PROVE  \/ Overlay(<<a, b, c>>) = Cost("initial", None)
           \/ /\ Overlay(<<a, b, c>>) \in {a, b, c}
              /\ Overlay(<<a, b, c>>).value # None
<1> DEFINE L == <<a, b, c>>
           S == {i \in DOMAIN L : L[i].value # None}
<1>1. S \in SUBSET Nat /\ (\A i \in S : L[i] \in {a, b, c} /\ L[i].value # None)
  OBVIOUS
<1>2. CASE S = {}
  BY <1>2 DEF Overlay
<1>3. CASE S # {}
  <2>1. Min(S) \in S
    BY <1>1, <1>3, MinExists
  <2>2. Overlay(L) = L[Min(S)]
    BY <1>3 DEF Overlay
  <2> QED
    BY <1>1, <2>1, <2>2
<1> QED
  BY <1>2, <1>3

\* the first cached profile is one of those that were found
LEMMA FirstFound ==
    ASSUME NEW S, Records \in Seq(S), NEW young, young \subseteq {p.env : p \in Range(Records)}
    PROVE  First(young) = None \/ First(young) \in young
<1> DEFINE I == {i \in DOMAIN Records : Records[i].env \in young}
<1>1. CASE young = {}
  BY <1>1 DEF First
<1>2. CASE young # {}
  <2>1. I \in SUBSET Nat
    OBVIOUS
  <2>2. I # {}
    BY <1>2 DEF Range
  <2>3. Min(I) \in I
    BY <2>1, <2>2, MinExists
  <2> QED
    BY <1>2, <2>3 DEF First
<1> QED
  BY <1>1, <1>2

\* what publish_model makes of a cost: measured now, in use, or remembered
LEMMA MergedCost ==
    ASSUME NEW fresh, NEW source, NEW old, NEW cached, old # None => source # "initial"
    PROVE  LET m == Overlay(<<Cost("measured", fresh), Cost(source, old), Cost("history", cached)>>)
           IN /\ m.source = "initial" <=> m.value = None
              /\ m.value \in {None, fresh, old, cached}
<1> DEFINE a == Cost("measured", fresh)
           b == Cost(source, old)
           c == Cost("history", cached)
           m == Overlay(<<a, b, c>>)
<1>1. m = Cost("initial", None) \/ (m \in {a, b, c} /\ m.value # None)
  BY OverlayCases
<1> HIDE DEF m
<1>2. /\ m.source = "initial" <=> m.value = None
      /\ m.value \in {None, fresh, old, cached}
  BY <1>1 DEF Cost
<1> QED
  BY <1>2 DEF m

\* what publish_model makes of a fit, an identity and the remembered costs
Published(next, new, now, hits) ==
    /\ next.signature \in Environments \cup {None}
    /\ next.service.source = "initial" <=> next.service.value = None
    /\ next.profile.source = "initial" <=> next.profile.value = None
    /\ next.service.value # None => next.service.value = next.signature
    /\ next.profile.value # None =>
         /\ next.profile.value \in Environments /\ next.signature # None
         /\ \/ next.profile.value \in {next.signature} \cup seen.strays
            \/ next.signature \in hits /\ next.profile.value \in hits
    /\ now # None => next.signature = now
    /\ new = None /\ now = None => next.signature = model.signature

LEMMA PublishSound ==
    ASSUME ModelOK, NEW new \in Environments \cup {None}, NEW now \in Environments \cup {None},
           NEW hits \in SUBSET Environments, NEW young \in SUBSET hits,
           First(young) = None \/ First(young) \in young,
           NEW next, next = Publish(new, now, hits, young)
    PROVE  Published(next, new, now, hits)
<1> DEFINE fresh == IF now # None /\ now # new THEN None ELSE new
           signature == IF fresh # None THEN fresh ELSE IF now # None THEN now ELSE model.signature
           applicable == model.signature # None /\ model.signature = signature
           old1 == IF applicable THEN model.service.value ELSE None
           old2 == IF applicable THEN model.profile.value ELSE None
           cached1 == IF signature \in young THEN signature ELSE None
           cached2 == IF signature \in hits THEN First(young) ELSE None
           merged1 == Overlay(<<Cost("measured", fresh), Cost(model.service.source, old1), Cost("history", cached1)>>)
           merged2 == Overlay(<<Cost("measured", fresh), Cost(model.profile.source, old2), Cost("history", cached2)>>)
<1>1. next.signature = signature /\ next.service = merged1 /\ next.profile = merged2
  BY DEF Publish
<1>2. /\ merged1.source = "initial" <=> merged1.value = None
      /\ merged1.value \in {None, fresh, old1, cached1}
  <2>1. old1 # None => model.service.source # "initial"
    BY DEF ModelOK
  <2> QED
    BY <2>1, MergedCost
<1>3. /\ merged2.source = "initial" <=> merged2.value = None
      /\ merged2.value \in {None, fresh, old2, cached2}
  <2>1. old2 # None => model.profile.source # "initial"
    BY DEF ModelOK
  <2> QED
    BY <2>1, MergedCost
<1>4. /\ signature \in Environments \cup {None} /\ (now # None => signature = now)
      /\ new = None /\ now = None => signature = model.signature
      /\ fresh # None => signature = fresh
  BY NoneAssumption DEF ModelOK
<1>5. old1 # None => old1 = signature
  BY DEF ModelOK
<1>6. old2 # None => /\ old2 \in Environments /\ signature # None
                     /\ old2 \in {signature} \cup seen.strays
  BY DEF ModelOK
<1>7. cached2 # None => cached2 \in hits /\ signature \in hits
  OBVIOUS
<1>8. cached1 # None => cached1 = signature
  OBVIOUS
<1> HIDE DEF fresh, signature, applicable, old1, old2, cached1, cached2, merged1, merged2
<1>9. merged1.value # None => merged1.value = signature
  BY <1>2, <1>4, <1>5, <1>8
<1>10. merged2.value # None =>
         /\ merged2.value \in Environments /\ signature # None
         /\ \/ merged2.value \in {signature} \cup seen.strays
            \/ signature \in hits /\ merged2.value \in hits
  BY <1>3, <1>4, <1>6, <1>7, NoneAssumption
<1> QED
  BY <1>1, <1>2, <1>3, <1>4, <1>9, <1>10 DEF Published

-----------------------------------------------------------------------------
(* Steps of a campaign *)

LEMMA Points ==
    ASSUME NEW s, Measured(s), NEW job, NEW e \in Environments
    PROVE  Measured(Append(s, Point(job, e)))
<1>1. PICK S : s \in Seq(S) /\ \A p \in S : p.env \in Environments
  BY DEF Measured
<1> DEFINE p == Point(job, e)
           T == S \cup {p}
<1>2. p.env = e
  BY DEF Point
<1> HIDE DEF p
<1>3. Append(s, p) \in Seq(T) /\ \A x \in T : x.env \in Environments
  BY <1>1, <1>2
<1> HIDE DEF T
<1> QED
  BY <1>3 DEF Measured, p

LEMMA NoPoints == Measured(<<>>)
<1> DEFINE S == {[env |-> e] : e \in Environments}
<1>1. \A p \in S : p.env \in Environments
  OBVIOUS
<1> HIDE DEF S
<1>2. <<>> \in Seq(S)
  OBVIOUS
<1> QED
  BY <1>1, <1>2 DEF Measured

(* A job that ends, with or without a measurement. *)
LEMMA JobDoneKeeps ==
    ASSUME TaskOK, NEW e \in Environments \cup {None}, t' = JobDone(e), env' = env
    PROVE  TaskOK' /\ t'.pc \in {"fit", "job"}
<1> DEFINE job == Head(t.queue)
           n == [t EXCEPT !.queue = Tail(@), !.round = 0, !.count = 0, !.ids = {},
                          !.pc = IF Len(t.queue) = 1 THEN "fit" ELSE "job"]
<1>1. /\ DOMAIN n = DOMAIN t /\ n.ids = {} /\ n.primary = t.primary
      /\ n.confirming = t.confirming /\ n.latest = t.latest /\ n.pc \in {"fit", "job"}
  BY DEF TaskOK
<1>2. t' = IF e = None THEN n
           ELSE IF job.confirm THEN [n EXCEPT !.confirming = Append(@, Point(job, e)), !.latest = e]
           ELSE [n EXCEPT !.primary = Append(@, Point(job, e)), !.latest = e]
  BY DEF JobDone
<1> HIDE DEF n, job
<1>3. CASE e = None
  BY <1>1, <1>2, <1>3 DEF TaskOK
<1>4. CASE e # None
  <2>1. Measured(Append(t.primary, Point(job, e))) /\ Measured(Append(t.confirming, Point(job, e)))
    BY <1>4, Points DEF TaskOK
  <2> DEFINE p == Point(job, e)
  <2>4. PICK S : t.primary \in Seq(S)
    BY DEF TaskOK, Measured
  <2>5. PICK U : t.confirming \in Seq(U)
    BY DEF TaskOK, Measured
  <2>6. p.env = e
    BY DEF Point
  <2> HIDE DEF p
  <2>7. Append(t.confirming, p) # <<>>
    BY <2>5
  <2>8. /\ Append(t.primary, p) # <<>>
        /\ Append(t.primary, p)[Len(Append(t.primary, p))] = p
    BY <2>4
  <2>9. /\ Latest(e, t.primary, Append(t.confirming, p))
        /\ Latest(e, Append(t.primary, p), t.confirming)
    BY <1>4, <2>6, <2>7, <2>8 DEF Latest
  <2>2. CASE job.confirm
    <3>1. t' = [n EXCEPT !.confirming = Append(@, Point(job, e)), !.latest = e]
      BY <1>2, <1>4, <2>2
    <3>2. /\ DOMAIN t' = DOMAIN t /\ t'.ids = {} /\ t'.primary = t.primary /\ t'.pc = n.pc
          /\ t'.confirming = Append(t.confirming, Point(job, e)) /\ t'.latest = e
      BY <1>1, <3>1 DEF TaskOK
    <3> QED
      BY <1>1, <2>1, <2>9, <3>2 DEF TaskOK, p
  <2>3. CASE ~job.confirm
    <3>1. t' = [n EXCEPT !.primary = Append(@, Point(job, e)), !.latest = e]
      BY <1>2, <1>4, <2>3
    <3>2. /\ DOMAIN t' = DOMAIN t /\ t'.ids = {} /\ t'.confirming = t.confirming /\ t'.pc = n.pc
          /\ t'.primary = Append(t.primary, Point(job, e)) /\ t'.latest = e
      BY <1>1, <3>1 DEF TaskOK
    <3> QED
      BY <1>1, <2>1, <2>9, <3>2 DEF TaskOK, p
  <2> QED
    BY <2>2, <2>3
<1> QED
  BY <1>3, <1>4

(* The control of a task that returns to its choice or ends. *)
LEMMA ReturnKeeps ==
    ASSUME NEW status, NEW pc, t' = [Return(status) EXCEPT !.pc = pc] \/ (t' = Return(status) /\ pc = "choose"),
           env \in Environments, env' \in Environments
    PROVE  TaskOK' /\ t'.pc = pc
<1>1. /\ {"pc", "queue", "round", "count", "ids", "primary", "confirming", "latest", "attempted", "confirmed",
           "attempt", "pairs", "status", "left"} \subseteq DOMAIN t'
      /\ t'.ids = {} /\ t'.primary = <<>> /\ t'.confirming = <<>> /\ t'.latest = None /\ t'.pc = pc
  BY DEF Return, Idle
<1> QED
  BY <1>1, NoPoints DEF TaskOK, Latest

(* Steps that leave the model and the ledger alone and open no attempt. *)
LEMMA Elsewhere ==
    ASSUME MeasurementInv, TaskOK', t'.pc \notin {"side", "launch", "measured"},
           UNCHANGED <<model, config, seen, ledger>>
    PROVE  MeasurementInv'
<1>1. ModelOK'
  BY DEF MeasurementInv, ModelOK
<1>2. LedgerOK'
  BY DEF MeasurementInv, LedgerOK
<1>3. AttemptOK'
  BY DEF AttemptOK
<1>4. ConfigOK'
  BY DEF MeasurementInv, ConfigOK
<1> QED
  BY <1>1, <1>2, <1>3, <1>4 DEF MeasurementInv

LEMMA StartCampaignStep == MeasurementInv /\ StartCampaign => MeasurementInv'
<1> SUFFICES ASSUME MeasurementInv, StartCampaign PROVE MeasurementInv'
  OBVIOUS
<1>1. /\ {"pc", "queue", "round", "count", "ids", "primary", "confirming", "latest", "attempted", "confirmed",
           "attempt", "pairs", "status", "left"} \subseteq DOMAIN t'
      /\ t'.ids = {} /\ t'.primary = <<>> /\ t'.confirming = <<>> /\ t'.latest = None /\ t'.pc = "job"
  BY DEF StartCampaign, Idle
<1>2. TaskOK'
  BY <1>1, NoPoints DEF TaskOK, Latest, MeasurementInv, StartCampaign
<1> QED
  BY <1>1, <1>2, Elsewhere DEF StartCampaign

(* Steps that only move the control of a campaign or a trace. *)
LEMMA ControlStep ==
    ASSUME MeasurementInv, t'.pc \notin {"side", "launch", "measured"}, DOMAIN t' = DOMAIN t,
           t'.ids \subseteq Environments, t'.primary = t.primary, t'.confirming = t.confirming, t'.latest = t.latest,
           env' = env, UNCHANGED <<model, config, seen, ledger>>
    PROVE  MeasurementInv'
<1>1. TaskOK'
  BY DEF TaskOK, MeasurementInv
<1> QED
  BY <1>1, Elsewhere

LEMMA StartProbeStep == MeasurementInv /\ StartProbe => MeasurementInv'
<1> SUFFICES ASSUME MeasurementInv, StartProbe PROVE MeasurementInv'
  OBVIOUS
<1>1. /\ DOMAIN t' = DOMAIN t /\ t'.pc = "probe" /\ t'.ids = t.ids
      /\ t'.primary = t.primary /\ t'.confirming = t.confirming /\ t'.latest = t.latest
  BY DEF StartProbe, MeasurementInv, TaskOK
<1> QED
  BY <1>1, ControlStep DEF StartProbe, MeasurementInv, TaskOK

LEMMA EndProbeStep == MeasurementInv /\ EndProbe => MeasurementInv'
<1> SUFFICES ASSUME MeasurementInv, EndProbe PROVE MeasurementInv'
  OBVIOUS
<1>1. TaskOK /\ env' = env /\ env \in Environments /\ UNCHANGED <<model, config, seen, ledger>>
  BY DEF EndProbe, MeasurementInv, TaskOK
<1>2. \/ t' = Return("budget_exhausted") \/ t' = Stop("cleanup_unconfirmed") \/ t' = JobDone(None)
      \/ t' = [t EXCEPT !.pc = IF t.count + 1 < Launches THEN "rounds" ELSE "stable",
                        !.count = @ + 1, !.ids = t.ids \union {env}]
  BY DEF EndProbe, AfterProbe
<1>3. CASE t' = Return("budget_exhausted")
  BY <1>1, <1>3, ReturnKeeps, Elsewhere
<1>4. CASE t' = Stop("cleanup_unconfirmed")
  BY <1>1, <1>4, ReturnKeeps, Elsewhere DEF Stop
<1>5. CASE t' = JobDone(None)
  BY <1>1, <1>5, JobDoneKeeps, Elsewhere
<1>6. CASE t' = [t EXCEPT !.pc = IF t.count + 1 < Launches THEN "rounds" ELSE "stable",
                          !.count = @ + 1, !.ids = t.ids \union {env}]
  <2>1. /\ DOMAIN t' = DOMAIN t /\ t'.pc \in {"rounds", "stable"} /\ t'.ids = t.ids \union {env}
        /\ t'.primary = t.primary /\ t'.confirming = t.confirming /\ t'.latest = t.latest
    BY <1>1, <1>6 DEF TaskOK
  <2> QED
    BY <1>1, <2>1, ControlStep DEF TaskOK
<1> QED
  BY <1>2, <1>3, <1>4, <1>5, <1>6

LEMMA ProbeRoundStep ==
    MeasurementInv /\ (ProbeStable \/ ProbeUnstable \/ NotAdmitted) => MeasurementInv'
<1> SUFFICES ASSUME MeasurementInv, ProbeStable \/ ProbeUnstable \/ NotAdmitted
             PROVE  MeasurementInv'
  OBVIOUS
<1>1. TaskOK /\ env' = env /\ UNCHANGED <<model, config, seen, ledger>>
  BY DEF ProbeStable, ProbeUnstable, NotAdmitted, MeasurementInv
<1> DEFINE e == IF Cardinality(t.ids) = 1 THEN CHOOSE x \in t.ids : TRUE ELSE None
<1>2. e \in Environments \cup {None}
  <2>1. Cardinality(t.ids) = 1 => t.ids # {}
    BY FS_EmptySet
  <2> QED
    BY <1>1, <2>1 DEF TaskOK
<1>3. \/ t' = JobDone(e) \/ t' = JobDone(None)
      \/ t' = [t EXCEPT !.pc = "rounds", !.round = @ + 1, !.count = 0, !.ids = {}]
  BY DEF ProbeStable, ProbeUnstable, NotAdmitted
<1> HIDE DEF e
<1>4. CASE t' = JobDone(e)
  BY <1>1, <1>2, <1>4, JobDoneKeeps, Elsewhere
<1>5. CASE t' = JobDone(None)
  BY <1>1, <1>5, JobDoneKeeps, Elsewhere
<1>6. CASE t' = [t EXCEPT !.pc = "rounds", !.round = @ + 1, !.count = 0, !.ids = {}]
  <2>1. /\ DOMAIN t' = DOMAIN t /\ t'.pc = "rounds" /\ t'.ids = {}
        /\ t'.primary = t.primary /\ t'.confirming = t.confirming /\ t'.latest = t.latest
    BY <1>1, <1>6 DEF TaskOK
  <2> QED
    BY <1>1, <2>1, ControlStep DEF TaskOK
<1> QED
  BY <1>3, <1>4, <1>5, <1>6

LEMMA ReturnStep ==
    MeasurementInv /\ (JobBlocked \/ LeaseExpires \/ Unreadable \/ Finish) => MeasurementInv'
<1> SUFFICES ASSUME MeasurementInv, JobBlocked \/ LeaseExpires \/ Unreadable \/ Finish
             PROVE  MeasurementInv'
  OBVIOUS
<1>1. TaskOK /\ env' = env /\ env \in Environments /\ UNCHANGED <<model, config, seen, ledger>>
  BY DEF JobBlocked, LeaseExpires, Unreadable, Finish, MeasurementInv, TaskOK
<1>2. \E status : t' = Return(status) \/ t' = Stop(status)
  BY DEF JobBlocked, LeaseExpires, Unreadable, Finish
<1>3. PICK status : t' = Return(status) \/ t' = Stop(status)
  BY <1>2
<1>4. CASE t' = Return(status)
  BY <1>1, <1>4, ReturnKeeps, Elsewhere
<1>5. CASE t' = Stop(status)
  BY <1>1, <1>5, ReturnKeeps, Elsewhere DEF Stop
<1> QED
  BY <1>3, <1>4, <1>5

(* The identities a fit, the latest record and the cache can supply. *)
LEMMA MeasuredEnv ==
    ASSUME NEW s, Measured(s)
    PROVE  /\ {p.env : p \in Range(s)} \subseteq Environments
           /\ s # <<>> => s[Len(s)].env \in Environments
<1>1. PICK S : s \in Seq(S) /\ \A p \in S : p.env \in Environments
  BY DEF Measured
<1>2. Range(s) \subseteq S
  BY <1>1 DEF Range
<1>3. s # <<>> => s[Len(s)] \in S
  BY <1>1
<1> QED
  BY <1>1, <1>2, <1>3

LEMMA MeasuredJoin ==
    ASSUME NEW s, NEW u, Measured(s), Measured(u) PROVE Measured(s \o u)
<1>1. PICK S : s \in Seq(S) /\ \A p \in S : p.env \in Environments
  BY DEF Measured
<1>2. PICK U : u \in Seq(U) /\ \A p \in U : p.env \in Environments
  BY DEF Measured
<1> DEFINE T == S \cup U
<1>3. s \in Seq(T) /\ u \in Seq(T) /\ \A p \in T : p.env \in Environments
  BY <1>1, <1>2
<1> HIDE DEF T
<1>4. s \o u \in Seq(T)
  BY <1>3
<1> QED
  BY <1>3, <1>4 DEF Measured

LEMMA Joined ==
    ASSUME NEW T, NEW a \in Seq(T), NEW b \in Seq(T)
    PROVE  /\ a \o b \in Seq(T) /\ Len(a \o b) = Len(a) + Len(b)
           /\ \A i \in 1 .. (Len(a) + Len(b)) :
                (a \o b)[i] = IF i <= Len(a) THEN a[i] ELSE b[i - Len(a)]
OBVIOUS

(* The records of a campaign, and the identity the caller makes of them. *)
LEMMA RecordsEnv ==
    ASSUME TaskOK
    PROVE  /\ Measured(Records) /\ LastEnv(Records) \in Environments \cup {None}
           /\ t.latest = None => Records = <<>> /\ t.primary = <<>>
           /\ t.latest # None => /\ LastEnv(Records) # None
                                 /\ LastEnv(Records) \in {t.latest, LastEnv(t.confirming)}
<1>1. Measured(t.primary) /\ Measured(t.confirming) /\ Latest(t.latest, t.primary, t.confirming)
  BY DEF TaskOK
<1>2. Measured(Records)
  BY <1>1, MeasuredJoin DEF Records
<1>3. PICK S : t.primary \in Seq(S)
  BY <1>1 DEF Measured
<1>4. PICK U : t.confirming \in Seq(U)
  BY <1>1 DEF Measured
<1>5. LastEnv(Records) \in Environments \cup {None} /\ (Records # <<>> => LastEnv(Records) \in Environments)
  BY <1>2, MeasuredEnv DEF LastEnv
<1>6. t.latest = None => Records = <<>> /\ t.primary = <<>>
  BY <1>1 DEF Latest, Records
<1>7. t.confirming = <<>> => Records = t.primary
  BY <1>3 DEF Records
<1> DEFINE T == S \cup U
<1>8. t.primary \in Seq(T) /\ t.confirming \in Seq(T)
  BY <1>3, <1>4
<1> HIDE DEF T
<1>9. t.confirming # <<>> => Records # <<>> /\ Records[Len(Records)] = t.confirming[Len(t.confirming)]
  <2> SUFFICES ASSUME t.confirming # <<>>
               PROVE  Records # <<>> /\ Records[Len(Records)] = t.confirming[Len(t.confirming)]
    OBVIOUS
  <2>1. Len(t.confirming) \in Nat \ {0} /\ Len(t.primary) \in Nat
    BY <1>8
  <2>2. /\ Len(Records) = Len(t.primary) + Len(t.confirming)
        /\ \A i \in 1 .. (Len(t.primary) + Len(t.confirming)) :
             Records[i] = IF i <= Len(t.primary) THEN t.primary[i] ELSE t.confirming[i - Len(t.primary)]
    BY <1>8, Joined, Zenon DEF Records
  <2> DEFINE i == Len(t.primary) + Len(t.confirming)
  <2>3. /\ i \in 1 .. i /\ ~(i <= Len(t.primary)) /\ i - Len(t.primary) = Len(t.confirming) /\ i # 0
    <3>1. \A m, n \in Nat : n # 0 => /\ m + n \in 1 .. (m + n) /\ ~(m + n <= m)
                                    /\ (m + n) - m = n /\ m + n # 0
      OBVIOUS
    <3> QED
      BY <2>1, <3>1, Zenon
  <2>4. Records[i] = t.confirming[Len(t.confirming)] /\ Len(<<>>) = 0
    BY <2>2, <2>3
  <2> QED
    BY <2>2, <2>3, <2>4
<1>10. t.latest # None => Records # <<>> /\ LastEnv(Records) \in {t.latest, LastEnv(t.confirming)}
  <2>1. CASE t.confirming = <<>>
    BY <1>1, <1>7, <2>1 DEF Latest, LastEnv
  <2>2. CASE t.confirming # <<>>
    BY <1>9, <2>2 DEF LastEnv
  <2> QED
    BY <2>1, <2>2
<1> QED
  BY <1>2, <1>5, <1>6, <1>10, NoneAssumption

LEMMA FitAndPublishStep == MeasurementInv /\ FitAndPublish => MeasurementInv'
<1> SUFFICES ASSUME MeasurementInv, FitAndPublish PROVE MeasurementInv'
  OBVIOUS
<1> DEFINE qualified(fit) == Cardinality(Identities) = 1 /\ \A e \in Identities : fit[e] = "qualified"
           new(fit) == IF qualified(fit) THEN CHOOSE e \in Identities : TRUE ELSE None
           now(fit) == IF config.history THEN LastEnv(Records) ELSE new(fit)
           ids == {p.env : p \in Range(Records)}
           strays(hits) == IF model'.signature \in hits THEN hits \ {model'.signature} ELSE {}
           remembered(hits) == [latest |-> t.latest, confirmed |-> LastEnv(t.confirming),
                                strays |-> seen.strays \union strays(hits)]
<1>1. PICK fit :
        /\ \E hits \in SUBSET Lookup(ids) : \E young \in SUBSET hits :
             /\ model' = Publish(new(fit), now(fit), hits, young)
             /\ seen' = IF t.latest = None THEN seen ELSE remembered(hits)
        /\ t' = Return("completed") \/ t' = AskMore(fit)
  BY Zenon DEF FitAndPublish
<1>0. PICK hits \in SUBSET Lookup(ids) : \E young \in SUBSET hits :
        /\ model' = Publish(new(fit), now(fit), hits, young)
        /\ seen' = IF t.latest = None THEN seen ELSE remembered(hits)
  BY <1>1
<1>2. PICK young \in SUBSET hits :
        /\ model' = Publish(new(fit), now(fit), hits, young)
        /\ seen' = IF t.latest = None THEN seen ELSE remembered(hits)
  BY <1>0
<1>3. /\ TaskOK /\ ModelOK /\ env' = env /\ env \in Environments
      /\ UNCHANGED <<config, ledger>> /\ Measured(t.primary)
  BY DEF MeasurementInv, TaskOK, FitAndPublish
<1>4. /\ Measured(Records) /\ LastEnv(Records) \in Environments \cup {None}
      /\ t.latest = None => Records = <<>> /\ t.primary = <<>>
      /\ t.latest # None => /\ LastEnv(Records) # None
                            /\ LastEnv(Records) \in {t.latest, LastEnv(t.confirming)}
  BY <1>3, RecordsEnv
<1>5. Identities \subseteq Environments /\ ids \subseteq Environments
  BY <1>3, <1>4, MeasuredEnv DEF Identities
<1>6. new(fit) \in Environments \cup {None} /\ (Identities = {} => new(fit) = None)
  <2>1. Cardinality({}) = 0
    BY FS_EmptySet
  <2>2. Cardinality(Identities) = 1 => Identities # {}
    BY <2>1
  <2> QED
    BY <1>5, <2>2
<1>7. t.latest = None => Identities = {} /\ LastEnv(Records) = None
  <2>1. Range(<<>>) = {}
    BY DEF Range
  <2> QED
    BY <1>4, <2>1 DEF Identities, LastEnv
<1>8. hits \in SUBSET Environments /\ young \subseteq ids /\ (~config.history => hits = {})
  BY <1>5 DEF Lookup
<1>9. First(young) = None \/ First(young) \in young
  BY <1>4, <1>8, FirstFound DEF Measured
<1> HIDE DEF qualified, ids
<1> DEFINE fresh == new(fit)
           is == now(fit)
<1>10. /\ fresh \in Environments \cup {None} /\ is \in Environments \cup {None}
       /\ config.history => is = LastEnv(Records)
       /\ ~config.history => is = fresh
       /\ t.latest = None => fresh = None /\ is = None
       /\ model' = Publish(fresh, is, hits, young)
  BY <1>2, <1>4, <1>6, <1>7
<1> HIDE DEF fresh, is, new, now
<1>11. t.latest = None => hits = {}
  <2>1. t.latest = None => ids = {}
    <3>1. Range(<<>>) = {}
      BY DEF Range
    <3> QED
      BY <1>4, <3>1 DEF ids
  <2> QED
    BY <2>1 DEF Lookup
<1>12. ModelOK'
  <2>1. /\ model'.signature \in Environments \cup {None}
        /\ model'.service.source = "initial" <=> model'.service.value = None
        /\ model'.profile.source = "initial" <=> model'.profile.value = None
        /\ model'.service.value # None => model'.service.value = model'.signature
        /\ model'.profile.value # None =>
             /\ model'.profile.value \in Environments /\ model'.signature # None
             /\ \/ model'.profile.value \in {model'.signature} \cup seen.strays
                \/ model'.signature \in hits /\ model'.profile.value \in hits
        /\ is # None => model'.signature = is
        /\ fresh = None /\ is = None => model'.signature = model.signature
    <3> DEFINE N == Publish(fresh, is, hits, young)
    <3>1. /\ ModelOK /\ fresh \in Environments \cup {None} /\ is \in Environments \cup {None}
          /\ hits \in SUBSET Environments /\ young \in SUBSET hits /\ model' = N
          /\ First(young) = None \/ First(young) \in young
      BY <1>2, <1>3, <1>8, <1>9, <1>10
    <3> HIDE DEF N
    <3>2. N = Publish(fresh, is, hits, young)
      BY DEF N
    <3>3. Published(N, fresh, is, hits)
      BY <3>1, <3>2, PublishSound, Zenon
    <3> QED
      BY <3>1, <3>3 DEF Published
  <2>2. CASE t.latest = None
    <3>1. seen' = seen /\ model'.signature = model.signature /\ hits = {}
      BY <1>2, <1>10, <1>11, <2>1, <2>2
    <3> QED
      BY <1>3, <2>1, <3>1 DEF ModelOK
  <2>3. CASE t.latest # None
    <3>1. /\ seen'.latest = t.latest /\ seen'.confirmed = LastEnv(t.confirming)
          /\ seen'.strays = seen.strays \union strays(hits)
      BY <1>2, <2>3
    <3>2. config.history => model'.signature \in {seen'.latest, seen'.confirmed}
      BY <1>4, <1>10, <2>1, <2>3, <3>1
    <3>3. model'.profile.value # None => model'.profile.value \in {model'.signature} \cup seen'.strays
      BY <2>1, <3>1
    <3> HIDE DEF strays, remembered
    <3> QED
      BY <1>3, <2>1, <3>2, <3>3 DEF ModelOK
  <2> QED
    BY <2>2, <2>3
<1>13. TaskOK' /\ t'.pc \notin {"side", "launch", "measured"}
  <2>1. CASE t' = Return("completed")
    BY <1>3, <2>1, ReturnKeeps
  <2>2. CASE t' = AskMore(fit)
    <3>1. /\ DOMAIN t' = DOMAIN t /\ t'.pc = "job" /\ t'.ids = t.ids
          /\ t'.primary = t.primary /\ t'.confirming = t.confirming /\ t'.latest = t.latest
      BY <1>3, <2>2 DEF AskMore, TaskOK
    <3> QED
      BY <1>3, <3>1 DEF TaskOK
  <2> QED
    BY <1>1, <2>1, <2>2
<1>14. LedgerOK' /\ AttemptOK' /\ ConfigOK'
  BY <1>3, <1>13 DEF MeasurementInv, LedgerOK, AttemptOK, ConfigOK
<1> QED
  BY <1>12, <1>13, <1>14 DEF MeasurementInv

-----------------------------------------------------------------------------
(* Steps of a comparison *)

LEMMA TraceStep == MeasurementInv /\ (StartTrace \/ EndTrace) => MeasurementInv'
<1> SUFFICES ASSUME MeasurementInv, StartTrace \/ EndTrace PROVE MeasurementInv'
  OBVIOUS
<1>1. TaskOK /\ env' = env /\ env \in Environments /\ UNCHANGED <<model, config, seen, ledger>>
  BY DEF StartTrace, EndTrace, MeasurementInv, TaskOK
<1>2. CASE StartTrace
  <2>1. /\ DOMAIN t' = DOMAIN t /\ t'.pc = "trace" /\ t'.ids = t.ids
        /\ t'.primary = t.primary /\ t'.confirming = t.confirming /\ t'.latest = t.latest
    BY <1>1, <1>2 DEF StartTrace, TaskOK
  <2> QED
    BY <1>1, <2>1, ControlStep DEF TaskOK
<1>3. CASE EndTrace
  <2>1. t' = Return("trace_incomplete") \/ t' = [t EXCEPT !.pc = "reserve"]
    BY <1>3 DEF EndTrace
  <2>2. CASE t' = Return("trace_incomplete")
    BY <1>1, <2>2, ReturnKeeps, Elsewhere
  <2>3. CASE t' = [t EXCEPT !.pc = "reserve"]
    <3>1. /\ DOMAIN t' = DOMAIN t /\ t'.pc = "reserve" /\ t'.ids = t.ids
          /\ t'.primary = t.primary /\ t'.confirming = t.confirming /\ t'.latest = t.latest
      BY <1>1, <2>3 DEF TaskOK
    <3> QED
      BY <1>1, <3>1, ControlStep DEF TaskOK
  <2> QED
    BY <2>1, <2>2, <2>3
<1> QED
  BY <1>2, <1>3

(* The next attempt has the next index. *)
LEMMA NextIndex ==
    ASSUME NEW plans \in Seq(Nat), plans = Indices(Len(plans))
    PROVE  /\ Append(plans, Len(plans) + 1) \in Seq(Nat)
           /\ Len(Append(plans, Len(plans) + 1)) = Len(plans) + 1
           /\ Append(plans, Len(plans) + 1) = Indices(Len(plans) + 1)
<1> DEFINE n == Len(plans)
           more == Append(plans, n + 1)
<1>1. n \in Nat /\ more \in Seq(Nat) /\ Len(more) = n + 1
  OBVIOUS
<1>2. \A i \in 1 .. (n + 1) : more[i] = IF i <= n THEN plans[i] ELSE n + 1
  OBVIOUS
<1>3. \A i \in 1 .. n : plans[i] = i
  BY DEF Indices
<1>4. more = [i \in 1 .. (n + 1) |-> more[i]]
  BY <1>1
<1> HIDE DEF n, more
<1>5. \A i \in 1 .. (n + 1) : more[i] = i
  <2> SUFFICES ASSUME NEW i \in 1 .. (n + 1) PROVE more[i] = i
    OBVIOUS
  <2>1. i <= n \/ i = n + 1
    BY <1>1
  <2>2. i <= n => i \in 1 .. n
    BY <1>1
  <2>3. ~(n + 1 <= n)
    BY <1>1
  <2> QED
    BY <1>2, <1>3, <2>1, <2>2, <2>3
<1>6. more = Indices(n + 1)
  BY <1>4, <1>5, Zenon DEF Indices
<1> QED
  BY <1>1, <1>6 DEF n, more

LEMMA ReserveStep == MeasurementInv /\ Reserve => MeasurementInv'
<1> SUFFICES ASSUME MeasurementInv, Reserve PROVE MeasurementInv'
  OBVIOUS
<1>1. ConfigOK /\ TaskOK /\ ModelOK /\ LedgerOK /\ UNCHANGED <<env, model, config, seen>>
  BY DEF Reserve, MeasurementInv
<1> DEFINE n == Len(ledger.plans)
           i == n + 1
<1>2. n \in Nat /\ 1 + n = i
  BY <1>1 DEF LedgerOK
<1>3. /\ DOMAIN t' = DOMAIN t /\ t'.pc = "side" /\ t'.ids = {} /\ t'.attempt = i
      /\ t'.primary = t.primary /\ t'.confirming = t.confirming /\ t'.latest = t.latest
  BY <1>1, <1>2 DEF Reserve, TaskOK
<1>4. /\ DOMAIN ledger' = DOMAIN ledger /\ ledger'.plans = Append(ledger.plans, i)
      /\ ledger'.closed = ledger.closed /\ ledger'.accepted = ledger.accepted
  BY <1>1, <1>2 DEF Reserve, LedgerOK
<1>5. ledger'.plans \in Seq(Nat) /\ Len(ledger'.plans) = i /\ ledger'.plans = Indices(i)
  BY <1>1, <1>4, NextIndex DEF LedgerOK
<1>6. i \in Nat \ {0} /\ 1 .. n \subseteq 1 .. i /\ i \notin 1 .. n
  BY <1>2
<1>7. ledger.closed \subseteq 1 .. n
  BY <1>1 DEF LedgerOK
<1> HIDE DEF i, n
<1>8. LedgerOK'
  BY <1>1, <1>4, <1>5, <1>6, <1>7 DEF LedgerOK
<1>9. ConfigOK' /\ TaskOK' /\ ModelOK'
  BY <1>1, <1>3 DEF ConfigOK, TaskOK, ModelOK
<1>10. AttemptOK'
  BY <1>3, <1>4, <1>5, <1>6, <1>7 DEF AttemptOK
<1> QED
  BY <1>8, <1>9, <1>10 DEF MeasurementInv

(* A decision closes the open attempt, with or without an accepted record. *)
LEMMA CloseKeeps ==
    ASSUME MeasurementInv, t.pc \in {"launch", "measured"}, UNCHANGED <<env, model, config, seen>>,
           NEW verdict, Close(verdict),
           verdict = {} \/ \E a : /\ verdict = {a} /\ a.attempt = t.attempt
                                  /\ TailCount(a.wins, a.pairs) * AlphaInv(a.attempt) <= 2^a.pairs
                                  /\ \E e \in Environments : a.ids = {e}
    PROVE  MeasurementInv'
<1>1. /\ ConfigOK /\ TaskOK /\ ModelOK /\ LedgerOK
      /\ t.attempt = Len(ledger.plans) /\ Len(ledger.plans) # 0
      /\ t.attempt \notin ledger.closed
  BY DEF MeasurementInv, AttemptOK
<1>2. /\ DOMAIN ledger' = DOMAIN ledger /\ ledger'.plans = ledger.plans
      /\ ledger'.closed = ledger.closed \cup {t.attempt}
      /\ ledger'.accepted = ledger.accepted \cup verdict
  BY <1>1 DEF Close, LedgerOK
<1>3. TaskOK' /\ t'.pc = "choose"
  BY <1>1, ReturnKeeps DEF Close, TaskOK
<1>4. ConfigOK' /\ ModelOK' /\ AttemptOK'
  BY <1>1, <1>3 DEF ConfigOK, ModelOK, AttemptOK
<1>5. ledger'.closed \subseteq 1 .. Len(ledger'.plans)
  BY <1>1, <1>2 DEF LedgerOK
<1> DEFINE A == ledger.accepted
           tried == {a.attempt : a \in A}
<1>6. LedgerOK'
  <2>1. CASE verdict = {}
    BY <1>1, <1>2, <1>5, <2>1 DEF LedgerOK
  <2>2. CASE verdict # {}
    <3>1. PICK a : /\ verdict = {a} /\ a.attempt = t.attempt
                   /\ TailCount(a.wins, a.pairs) * AlphaInv(a.attempt) <= 2^a.pairs
                   /\ \E e \in Environments : a.ids = {e}
      BY <2>2
    <3>2. t.attempt \notin tried /\ a \notin A
      BY <1>1, <3>1 DEF LedgerOK
    <3>3. {x.attempt : x \in A \cup {a}} = tried \cup {t.attempt}
      BY <3>1
    <3>4. IsFiniteSet(A) /\ IsFiniteSet(tried) /\ Cardinality(A) = Cardinality(tried)
      BY <1>1 DEF LedgerOK
    <3> HIDE DEF A, tried
    <3>5. /\ IsFiniteSet(A \cup {a}) /\ IsFiniteSet(tried \cup {t.attempt})
          /\ Cardinality(A \cup {a}) = Cardinality(tried \cup {t.attempt})
      <4>1. IsFiniteSet(A \cup {a}) /\ Cardinality(A \cup {a}) = Cardinality(A) + 1
        BY <3>2, <3>4, FS_AddElement
      <4>2. /\ IsFiniteSet(tried \cup {t.attempt})
            /\ Cardinality(tried \cup {t.attempt}) = Cardinality(tried) + 1
        BY <3>2, <3>4, FS_AddElement
      <4> QED
        BY <3>4, <4>1, <4>2
    <3>6. ledger'.accepted = A \cup {a}
      BY <1>2, <3>1 DEF A
    <3>7. \A x \in A \cup {a} :
             /\ x.attempt \in ledger.closed \cup {t.attempt}
             /\ TailCount(x.wins, x.pairs) * AlphaInv(x.attempt) <= 2^x.pairs
             /\ \E e \in Environments : x.ids = {e}
      BY <1>1, <3>1 DEF LedgerOK, A
    <3> QED
      BY <1>1, <1>2, <1>5, <3>3, <3>5, <3>6, <3>7 DEF LedgerOK
  <2> QED
    BY <2>1, <2>2
<1> QED
  BY <1>3, <1>4, <1>6 DEF MeasurementInv

LEMMA SideStep == MeasurementInv /\ (StartSide \/ EndSide) => MeasurementInv'
<1> SUFFICES ASSUME MeasurementInv, StartSide \/ EndSide PROVE MeasurementInv'
  OBVIOUS
<1>1. /\ ConfigOK /\ TaskOK /\ ModelOK /\ LedgerOK /\ AttemptOK
      /\ env \in Environments /\ UNCHANGED <<env, model, config, seen>>
  BY DEF StartSide, EndSide, MeasurementInv, TaskOK
<1>2. CASE EndSide /\ ~ValidSample
  <2>1. t.pc = "launch" /\ Close({})
    BY <1>2 DEF EndSide
  <2> QED
    BY <1>1, <2>1, CloseKeeps
<1>3. CASE StartSide \/ (EndSide /\ ValidSample)
  <2>1. /\ DOMAIN t' = DOMAIN t /\ t'.pc \in {"launch", "measured", "side"}
        /\ t'.primary = t.primary /\ t'.confirming = t.confirming /\ t'.latest = t.latest /\ t'.attempt = t.attempt
        /\ t.pc \in {"side", "launch"} /\ ledger' = ledger
        /\ (t'.ids = {env} \/ (t'.pc = "launch" /\ t'.ids = t.ids))
    BY <1>1, <1>3 DEF StartSide, EndSide, TaskOK
  <2>2. ConfigOK' /\ TaskOK' /\ ModelOK' /\ LedgerOK'
    BY <1>1, <2>1 DEF ConfigOK, TaskOK, ModelOK, LedgerOK
  <2>3. AttemptOK'
    BY <1>1, <2>1 DEF AttemptOK
  <2> QED
    BY <2>2, <2>3 DEF MeasurementInv
<1> QED
  BY <1>2, <1>3

LEMMA RoundStep == MeasurementInv /\ (RoundUnstable \/ RoundDecides) => MeasurementInv'
<1> SUFFICES ASSUME MeasurementInv, RoundUnstable \/ RoundDecides PROVE MeasurementInv'
  OBVIOUS
<1>1. /\ ConfigOK /\ TaskOK /\ ModelOK /\ LedgerOK /\ AttemptOK /\ t.pc = "measured"
      /\ UNCHANGED <<env, model, config, seen>>
  BY DEF RoundUnstable, RoundDecides, MeasurementInv
<1>2. CASE RoundUnstable /\ t.round < MaxRounds
  <2>1. /\ DOMAIN t' = DOMAIN t /\ t'.pc = "side" /\ t'.ids = t.ids /\ t'.attempt = t.attempt
        /\ t'.primary = t.primary /\ t'.confirming = t.confirming /\ t'.latest = t.latest /\ ledger' = ledger
    BY <1>1, <1>2 DEF RoundUnstable, TaskOK
  <2>2. ConfigOK' /\ TaskOK' /\ ModelOK' /\ LedgerOK'
    BY <1>1, <2>1 DEF ConfigOK, TaskOK, ModelOK, LedgerOK
  <2>3. AttemptOK'
    BY <1>1, <2>1 DEF AttemptOK
  <2> QED
    BY <2>2, <2>3 DEF MeasurementInv
<1>3. CASE RoundUnstable /\ ~(t.round < MaxRounds)
  <2>1. Close({})
    BY <1>3 DEF RoundUnstable
  <2> QED
    BY <1>1, <2>1, CloseKeeps
<1>4. CASE RoundDecides
  <2> DEFINE record(wins) == [attempt |-> t.attempt, wins |-> wins, pairs |-> t.pairs, ids |-> t.ids]
             passes(wins) == 2 * wins > t.pairs
                             /\ TailCount(wins, t.pairs) * AlphaInv(t.attempt) <= 2^t.pairs
  <2>1. PICK wins \in 0 .. t.pairs : Close(IF passes(wins) THEN {record(wins)} ELSE {})
    BY <1>4 DEF RoundDecides
  <2>2. CASE ~passes(wins)
    <3>1. Close({})
      BY <2>1, <2>2
    <3> QED
      BY <1>1, <3>1, CloseKeeps
  <2>3. CASE passes(wins)
    <3> DEFINE a == record(wins)
    <3>1. Close({a})
      BY <2>1, <2>3
    <3>2. /\ a.attempt = t.attempt /\ a.wins = wins /\ a.pairs = t.pairs /\ a.ids = t.ids
      OBVIOUS
    <3>3. \E e \in Environments : t.ids = {e}
      BY <1>1 DEF AttemptOK
    <3> HIDE DEF a
    <3>4. /\ a.attempt = t.attempt
          /\ TailCount(a.wins, a.pairs) * AlphaInv(a.attempt) <= 2^a.pairs
          /\ \E e \in Environments : a.ids = {e}
      BY <2>3, <3>2, <3>3
    <3> HIDE DEF record, passes
    <3> QED
      BY <1>1, <3>1, <3>4, CloseKeeps
  <2> QED
    BY <2>2, <2>3
<1> QED
  BY <1>2, <1>3, <1>4

-----------------------------------------------------------------------------
(* Faults *)

LEMMA FaultStep == MeasurementInv /\ (Crash \/ EnvironmentChanges) => MeasurementInv'
<1> SUFFICES ASSUME MeasurementInv, Crash \/ EnvironmentChanges PROVE MeasurementInv'
  OBVIOUS
<1>1. ConfigOK /\ TaskOK /\ ModelOK /\ LedgerOK /\ AttemptOK /\ UNCHANGED <<model, config, seen>>
  BY DEF Crash, EnvironmentChanges, MeasurementInv
<1>2. CASE Crash
  <2>1. /\ DOMAIN ledger' = DOMAIN ledger /\ ledger'.plans = ledger.plans
        /\ ledger'.closed = ledger.closed /\ ledger'.accepted = ledger.accepted
    BY <1>1, <1>2 DEF Crash, LedgerOK
  <2>2. TaskOK' /\ t'.pc = "choose"
    BY <1>1, <1>2, ReturnKeeps DEF Crash, TaskOK
  <2>3. ConfigOK' /\ LedgerOK' /\ ModelOK' /\ AttemptOK'
    BY <1>1, <2>1, <2>2 DEF ConfigOK, LedgerOK, ModelOK, AttemptOK
  <2> QED
    BY <2>2, <2>3 DEF MeasurementInv
<1>3. CASE EnvironmentChanges
  <2>1. env' \in Environments /\ t' = t /\ ledger' = ledger
    BY <1>3 DEF EnvironmentChanges, Environments
  <2> QED
    BY <1>1, <2>1 DEF MeasurementInv, ConfigOK, TaskOK, ModelOK, LedgerOK, AttemptOK
<1> QED
  BY <1>2, <1>3

-----------------------------------------------------------------------------
(* The invariant holds: what the task keeps is consistent whatever happens  *)
(* to its launches, which steps of GpuLaunch decide.                        *)
THEOREM MeasurementInvariant == Spec => []MeasurementInv
<1>1. Init => MeasurementInv
  <2> SUFFICES ASSUME Init PROVE MeasurementInv
    OBVIOUS
  <2>1. /\ {"pc", "queue", "round", "count", "ids", "primary", "confirming", "latest", "attempted", "confirmed",
             "attempt", "pairs", "status", "left"} \subseteq DOMAIN t
        /\ t.ids = {} /\ t.primary = <<>> /\ t.confirming = <<>> /\ t.latest = None /\ t.pc = "choose"
    BY DEF Init, Idle
  <2>2. TaskOK
    BY <2>1, NoPoints DEF TaskOK, Latest, Init, Environments
  <2>3. ModelOK
    BY DEF Init, ModelOK, Cost
  <2>4. LedgerOK
    <3>1. /\ ledger.accepted = {} /\ ledger.closed = {} /\ ledger.plans = <<>>
          /\ {"plans", "closed", "torn", "accepted"} \subseteq DOMAIN ledger
      BY DEF Init
    <3>2. {a.attempt : a \in ledger.accepted} = {}
      BY <3>1
    <3>3. Len(<<>>) = 0 /\ <<>> \in Seq(Nat) /\ <<>> = Indices(0)
      BY DEF Indices
    <3> QED
      BY <3>1, <3>2, <3>3, FS_EmptySet DEF LedgerOK
  <2>5. AttemptOK
    BY <2>1 DEF AttemptOK
  <2>6. ConfigOK
    BY DEF Init, ConfigOK
  <2> QED
    BY <2>2, <2>3, <2>4, <2>5, <2>6 DEF MeasurementInv
<1>2. MeasurementInv /\ [Next]_vars => MeasurementInv'
  <2> SUFFICES ASSUME MeasurementInv, [Next]_vars PROVE MeasurementInv'
    OBVIOUS
  <2>1. CASE UNCHANGED taskVars
    BY <2>1 DEF taskVars, MeasurementInv, ConfigOK, TaskOK, ModelOK, LedgerOK, AttemptOK
  <2>2. CASE UNCHANGED vars
    BY <2>1, <2>2 DEF vars, taskVars
  <2>3. CASE Next
    BY <2>1, <2>3, StartCampaignStep, StartProbeStep, EndProbeStep, ProbeRoundStep, ReturnStep,
       FitAndPublishStep, TraceStep, ReserveStep, SideStep, RoundStep, FaultStep DEF Next
  <2> QED
    BY <2>2, <2>3
<1> QED
  BY <1>1, <1>2, PTL DEF Spec

(* With calibration reuse configured, a service cost that publish_model      *)
(* leaves in the model was measured in the environment of the latest          *)
(* measurement or, where payloads were measured after a confirmation, in the  *)
(* confirmation's; a rate profile there or in that of another identity whose  *)
(* cached profile came along with a hit.  Nothing else reaches the model,     *)
(* however environments change between launches and whatever the cache holds. *)
THEOREM PublishedModelApplies == Spec => []ModelApplies
<1>1. MeasurementInv => ModelApplies
  BY DEF MeasurementInv, ModelOK, ModelApplies
<1> QED
  BY <1>1, MeasurementInvariant, PTL

(* Crashed, failed and repeated attempts included, no level is reserved twice, *)
(* the levels in the ledger stay within task_alpha, and each acceptance is of  *)
(* its own attempt, passed at that attempt's level, from one environment.      *)
THEOREM TaskSpendsItsAlpha == Spec => []AlphaWithinTask
<1>1. MeasurementInv => AlphaWithinTask
  <2> SUFFICES ASSUME MeasurementInv PROVE AlphaWithinTask
    OBVIOUS
  <2> DEFINE n == Len(ledger.plans)
  <2>1. LedgerOK /\ n \in Nat /\ Scale \in Nat /\ ledger.plans = Indices(n)
    BY DEF MeasurementInv, LedgerOK, Scale
  <2>2. AlphaInverse * Spent(ledger.plans, Scale) <= Scale
    <3> HIDE DEF n
    <3>1. AlphaInverse * Spent(Indices(n), Scale) <= Scale
      BY <2>1, LevelsSumWithinTask
    <3> QED
      BY <2>1, <3>1, Zenon
  <2>3. \A e : Cardinality({e}) = 1
    BY FS_Singleton
  <2>4. IsInjective(ledger.plans) /\ Range(ledger.plans) = 1 .. n
    <3> HIDE DEF n
    <3>1. IsInjective(Indices(n)) /\ Range(Indices(n)) = 1 .. n
      BY DEF Indices, IsInjective, Range
    <3> QED
      BY <2>1, <3>1, Zenon
  <2>5. \A a \in ledger.accepted :
          /\ a.attempt \in 1 .. n
          /\ TailCount(a.wins, a.pairs) * AlphaInv(a.attempt) <= 2^a.pairs
          /\ Cardinality(a.ids) = 1
    BY <2>1, <2>3 DEF LedgerOK
  <2> HIDE DEF n
  <2> QED
    BY <2>1, <2>2, <2>4, <2>5 DEF LedgerOK, AlphaWithinTask
<1> QED
  BY <1>1, MeasurementInvariant, PTL

-----------------------------------------------------------------------------
(* The campaign: how many of its jobs can have been measured *)

Campaigning == {"job", "rounds", "probe", "stable"}
TaskSteps == {"choose", "job", "rounds", "probe", "stable", "fit", "trace", "reserve", "side",
            "launch", "measured", "done"}

\* the jobs of a campaign: payloads measured for the first time, one after the
\* other and each of them attempted, before or after the ones measured again to
\* confirm a fit
QueueOK(queue, primary, attempted) ==
    /\ \E S : queue \in Seq(S)
    /\ \E lo, hi \in Nat :
         /\ lo <= hi /\ Len(primary) + (hi - lo) <= Cardinality(attempted)
         /\ \A i \in 1 .. Len(queue) : ~queue[i].confirm => lo < i /\ i <= hi
CampaignOK ==
    /\ t.pc \in TaskSteps /\ t.round \in 0 .. MaxRounds
    /\ t.pc \in Campaigning => t.queue # <<>>
    /\ IsFiniteSet(t.attempted)
    /\ QueueOK(t.queue, t.primary, t.attempted)

(* Steps that leave the jobs of the campaign alone. *)
LEMMA CampaignStands ==
    ASSUME CampaignOK, t'.pc \in TaskSteps, t'.round \in 0 .. MaxRounds,
           t'.queue = t.queue, t'.primary = t.primary, t'.attempted = t.attempted,
           t'.pc \in Campaigning => t.pc \in Campaigning
    PROVE  CampaignOK'
BY DEF CampaignOK, QueueOK

LEMMA NoJobs == QueueOK(<<>>, <<>>, {})
<1>1. <<>> \in Seq({}) /\ Len(<<>>) = 0 /\ 0 <= 0 /\ 0 + (0 - 0) <= 0 /\ Cardinality({}) = 0
  BY FS_EmptySet
<1>2. \A i \in 1 .. 0 : FALSE
  OBVIOUS
<1> QED
  BY <1>1, <1>2 DEF QueueOK

(* A task that returns to its choice has no jobs. *)
LEMMA CampaignReturns ==
    ASSUME NEW status, NEW pc \in {"choose", "done"},
           t' = [Return(status) EXCEPT !.pc = pc] \/ (t' = Return(status) /\ pc = "choose")
    PROVE  CampaignOK'
<1>1. /\ t'.pc = pc /\ t'.queue = <<>> /\ t'.primary = <<>> /\ t'.attempted = {} /\ t'.round = 0
  BY DEF Return, Idle
<1>2. 0 \in 0 .. MaxRounds /\ IsFiniteSet({})
  BY CampaignAssumption, FS_EmptySet
<1>3. QueueOK(t'.queue, t'.primary, t'.attempted)
  BY <1>1, NoJobs
<1> QED
  BY <1>1, <1>2, <1>3 DEF CampaignOK, TaskSteps, Campaigning

(* The job at the head of the queue ends, measured or not. *)
LEMMA JobEnds ==
    ASSUME TaskOK, CampaignOK, t.pc \in Campaigning, NEW e, t' = JobDone(e)
    PROVE  CampaignOK'
<1> DEFINE q == t.queue
           job == Head(q)
           n == [t EXCEPT !.queue = Tail(@), !.round = 0, !.count = 0, !.ids = {},
                          !.pc = IF Len(t.queue) = 1 THEN "fit" ELSE "job"]
<1>1. PICK S : q \in Seq(S)
  BY DEF CampaignOK, QueueOK
<1>2. PICK lo \in Nat, hi \in Nat :
        /\ lo <= hi /\ Len(t.primary) + (hi - lo) <= Cardinality(t.attempted)
        /\ \A i \in 1 .. Len(q) : ~q[i].confirm => lo < i /\ i <= hi
  BY DEF CampaignOK, QueueOK
<1>3. PICK P : t.primary \in Seq(P)
  BY DEF TaskOK, Measured
<1>4. q # <<>> /\ Cardinality(t.attempted) \in Nat
  BY FS_CardinalityType DEF CampaignOK
<1>5. /\ n.queue = Tail(q) /\ n.round = 0 /\ n.primary = t.primary /\ n.attempted = t.attempted
      /\ n.pc = IF Len(q) = 1 THEN "fit" ELSE "job"
      /\ {"primary", "confirming", "latest"} \subseteq DOMAIN n
  BY DEF TaskOK
<1>6. t' = IF e = None THEN n
           ELSE IF job.confirm THEN [n EXCEPT !.confirming = Append(@, Point(job, e)), !.latest = e]
           ELSE [n EXCEPT !.primary = Append(@, Point(job, e)), !.latest = e]
  BY DEF JobDone
<1>7. /\ t'.queue = Tail(q) /\ t'.round = 0 /\ t'.attempted = t.attempted
      /\ t'.pc = IF Len(q) = 1 THEN "fit" ELSE "job"
      /\ t'.primary = t.primary \/ (~job.confirm /\ t'.primary = Append(t.primary, Point(job, e)))
  <2> HIDE DEF n, job
  <2> QED
    BY <1>5, <1>6
<1>8. /\ Tail(q) \in Seq(S) /\ Len(Tail(q)) = Len(q) - 1 /\ Len(q) \in Nat \ {0}
      /\ job = q[1] /\ \A i \in 1 .. Len(q) - 1 : Tail(q)[i] = q[i + 1]
  BY <1>1, <1>4
<1> HIDE DEF q, job, n
<1>9. Len(q) # 1 => Tail(q) # <<>>
  <2>1. Len(<<>>) = 0
    OBVIOUS
  <2>2. Len(q) # 1 => Len(q) - 1 # 0
    BY <1>8
  <2> QED
    BY <1>8, <2>1, <2>2, Zenon
<1>10. Len(t.primary) \in Nat /\ Len(t'.primary) \in {Len(t.primary), Len(t.primary) + 1}
       /\ (Len(t'.primary) = Len(t.primary) + 1 => ~job.confirm)
  BY <1>3, <1>7
<1> DEFINE down(k) == IF k = 0 THEN 0 ELSE k - 1
           lo1 == down(lo)
           hi1 == down(hi)
<1>11. /\ lo1 \in Nat /\ hi1 \in Nat /\ lo1 <= hi1 /\ hi1 - lo1 <= hi - lo
       /\ lo = 0 /\ hi # 0 => hi1 - lo1 = (hi - lo) - 1
  BY <1>2
<1>12. \A i \in 1 .. Len(q) - 1 : ~Tail(q)[i].confirm => lo1 < i /\ i <= hi1
  <2> SUFFICES ASSUME NEW i \in 1 .. Len(q) - 1, ~Tail(q)[i].confirm PROVE lo1 < i /\ i <= hi1
    OBVIOUS
  <2>1. i \in Nat /\ 1 <= i /\ i + 1 \in 1 .. Len(q) /\ Tail(q)[i] = q[i + 1]
    BY <1>8
  <2>2. lo < i + 1 /\ i + 1 <= hi
    BY <1>2, <2>1
  <2> QED
    BY <1>2, <2>1, <2>2
<1>13. Len(t'.primary) + (hi1 - lo1) <= Cardinality(t.attempted)
  <2>1. ~job.confirm => lo = 0 /\ hi # 0
    <3>1. 1 \in 1 .. Len(q)
      BY <1>8
    <3>2. ~job.confirm => lo < 1 /\ 1 <= hi
      BY <1>2, <1>8, <3>1
    <3> QED
      BY <1>2, <3>2
  <2> HIDE DEF lo1, hi1
  <2>4. CASE Len(t'.primary) = Len(t.primary)
    BY <1>2, <1>4, <1>10, <1>11, <2>4
  <2>5. CASE Len(t'.primary) = Len(t.primary) + 1
    <3>1. hi1 - lo1 = (hi - lo) - 1
      BY <1>10, <1>11, <2>1, <2>5
    <3> QED
      BY <1>2, <1>4, <1>10, <1>11, <2>5, <3>1
  <2> QED
    BY <1>10, <2>4, <2>5, Zenon
<1>14. QueueOK(t'.queue, t'.primary, t'.attempted)
  <2>1. \A i \in 1 .. Len(Tail(q)) : ~Tail(q)[i].confirm => lo1 < i /\ i <= hi1
    BY <1>8, <1>12, Zenon
  <2> HIDE DEF lo1, hi1, q
  <2>2. QueueOK(Tail(q), t'.primary, t.attempted)
    BY <1>8, <1>11, <1>13, <2>1, Zenon DEF QueueOK
  <2> QED
    BY <1>7, <2>2, Zenon
<1> QED
  BY <1>7, <1>9, <1>14, CampaignAssumption DEF CampaignOK, TaskSteps, Campaigning

(* A campaign starts with one job for every payload of payload_sizes. *)
LEMMA CampaignStarts == ConfigOK /\ StartCampaign => CampaignOK'
<1> SUFFICES ASSUME ConfigOK, StartCampaign PROVE CampaignOK'
  OBVIOUS
<1> DEFINE sizes == config.sizes
           N == Len(sizes)
<1>0. sizes \in Seq(Nat) /\ sizes # <<>> /\ IsInjective(sizes)
  BY CampaignAssumption DEF ConfigOK
<1>1. /\ t'.pc = "job" /\ t'.round = 0 /\ t'.primary = <<>> /\ t'.attempted = Range(sizes)
      /\ t'.queue = [i \in DOMAIN sizes |-> Job(sizes[i], FALSE)]
  BY DEF StartCampaign, Idle
<1>2. N \in Nat \ {0} /\ DOMAIN sizes = 1 .. N /\ sizes \in [1 .. N -> Nat]
  BY <1>0
<1>3. IsFiniteSet(Range(sizes)) /\ Cardinality(Range(sizes)) = N
  <2>1. sizes \in Bijection(1 .. N, Range(sizes))
    BY <1>0, <1>2 DEF IsInjective, Range, Bijection, Injection, Surjection
  <2>2. ExistsBijection(1 .. N, Range(sizes))
    BY <2>1 DEF ExistsBijection
  <2>3. IsFiniteSet(1 .. N) /\ Cardinality(1 .. N) = N
    BY <1>2, FS_Interval
  <2> QED
    BY <2>2, <2>3, FS_Bijection
<1>4. /\ \E T : t'.queue \in Seq(T)
      /\ Len(t'.queue) = N /\ t'.queue # <<>>
  <2> DEFINE job(i) == Job(sizes[i], FALSE)
             T == {job(i) : i \in 1 .. N}
  <2>1. t'.queue = [i \in 1 .. N |-> job(i)]
    BY <1>1, <1>2
  <2> HIDE DEF job, N
  <2>2. t'.queue \in [1 .. N -> T]
    BY <2>1
  <2> HIDE DEF T
  <2>3. t'.queue \in Seq(T) /\ Len(t'.queue) = N
    BY <1>2, <2>2
  <2>4. Len(<<>>) = 0
    OBVIOUS
  <2> QED
    BY <1>2, <2>3, <2>4
<1>5. QueueOK(t'.queue, t'.primary, t'.attempted)
  <2>1. 0 \in Nat /\ N \in Nat /\ 0 <= N /\ \A i \in 1 .. N : 0 < i /\ i <= N
    BY <1>2
  <2>2. Len(t'.primary) + (N - 0) <= Cardinality(t'.attempted)
    BY <1>1, <1>2, <1>3
  <2> HIDE DEF N, sizes
  <2> QED
    BY <1>4, <2>1, <2>2 DEF QueueOK
<1>6. 0 \in 0 .. MaxRounds
  BY CampaignAssumption
<1> QED
  BY <1>1, <1>3, <1>4, <1>5, <1>6 DEF CampaignOK, TaskSteps, Campaigning

(* A sorted list of jobs for a finite set of sizes. *)
LEMMA JobsOf ==
    ASSUME NEW sizes, IsFiniteSet(sizes), NEW c \in BOOLEAN
    PROVE  \E T : /\ Jobs(sizes, c) \in Seq(T) /\ Len(Jobs(sizes, c)) = Cardinality(sizes)
                  /\ \A i \in 1 .. Cardinality(sizes) : Jobs(sizes, c)[i].confirm = c
<1> DEFINE N == Cardinality(sizes)
           job(i) == Job(CHOOSE s \in sizes : Cardinality({x \in sizes : x < s}) = i - 1, c)
           T == {job(i) : i \in 1 .. N}
           J == Jobs(sizes, c)
<1>1. N \in Nat
  BY FS_CardinalityType
<1>2. J = [i \in 1 .. N |-> job(i)]
  BY DEF Jobs
<1>3. \A i \in 1 .. N : J[i].confirm = c
  BY <1>2 DEF Job
<1> HIDE DEF J, job, N
<1>4. J \in [1 .. N -> T]
  BY <1>2
<1> HIDE DEF T
<1>5. J \in Seq(T) /\ Len(J) = N
  BY <1>1, <1>4
<1> QED
  BY <1>3, <1>5 DEF J, N

(* The sizes measured so far, and those a fit may ask for. *)
LEMMA FiniteSizes ==
    ASSUME TaskOK, NEW e
    PROVE  IsFiniteSet(SizesIn(t.primary, e)) /\ IsFiniteSet(Extra(e))
<1>1. PICK P : t.primary \in Seq(P)
  BY DEF TaskOK, Measured
<1> DEFINE N == Len(t.primary)
           f == [i \in 1 .. N |-> t.primary[i].size]
           R == {f[i] : i \in 1 .. N}
<1>2. N \in Nat /\ Range(t.primary) = {t.primary[i] : i \in 1 .. N}
  BY <1>1 DEF Range
<1>3. SizesIn(t.primary, e) \subseteq R
  BY <1>2 DEF SizesIn
<1>4. f \in Surjection(1 .. N, R)
  BY DEF Surjection
<1>5. IsFiniteSet(R)
  <2> HIDE DEF R, f, N
  <2> QED
    BY <1>2, <1>4, FS_Interval, FS_Surjection
<1>6. IsFiniteSet(SizesIn(t.primary, e))
  <2> HIDE DEF R
  <2> QED
    BY <1>3, <1>5, FS_Subset
<1> DEFINE top(scale) == Min({MaxSize, Max(SizesIn(t.primary, e)) * scale})
           E == {top(2), top(4), top(8)}
<1>7. Extra(e) \subseteq E
  BY DEF Extra
<1> HIDE DEF top
<1>8. IsFiniteSet(E)
  <2>1. IsFiniteSet({top(2)}) /\ IsFiniteSet({top(4)}) /\ IsFiniteSet({top(8)})
    BY FS_Singleton
  <2>2. IsFiniteSet({top(2)} \cup {top(4)})
    BY <2>1, FS_Union
  <2>3. IsFiniteSet(({top(2)} \cup {top(4)}) \cup {top(8)})
    BY <2>1, <2>2, FS_Union
  <2>4. E = ({top(2)} \cup {top(4)}) \cup {top(8)}
    OBVIOUS
  <2> QED
    BY <2>3, <2>4
<1> HIDE DEF E
<1> QED
  BY <1>6, <1>7, <1>8, FS_Subset

(* A fit asks for finitely many sizes, and never again for one it attempted. *)
LEMMA FollowupsFinite ==
    ASSUME TaskOK, NEW fit
    PROVE  /\ IsFiniteSet(Followups(fit).more) /\ IsFiniteSet(Followups(fit).confirm)
           /\ Followups(fit).more \cap t.attempted = {}
<1> DEFINE old == SizesIn(t.primary, 1) \cup SizesIn(t.primary, 2)
           new == Extra(1) \cup Extra(2)
<1>1. IsFiniteSet(old) /\ IsFiniteSet(new)
  <2>1. /\ IsFiniteSet(SizesIn(t.primary, 1)) /\ IsFiniteSet(SizesIn(t.primary, 2))
        /\ IsFiniteSet(Extra(1)) /\ IsFiniteSet(Extra(2))
    BY FiniteSizes
  <2> QED
    BY <2>1, FS_Union
<1>2. Identities \subseteq {1, 2}
  BY MeasuredEnv DEF TaskOK, Identities, Environments
<1>3. /\ Followups(fit).more \subseteq new /\ Followups(fit).confirm \subseteq old
      /\ Followups(fit).more \cap t.attempted = {}
  BY <1>2 DEF Followups
<1> HIDE DEF old, new
<1> QED
  BY <1>1, <1>3, FS_Subset

(* New payloads, in any case attempted, and payloads to confirm, in either order. *)
LEMMA JobsJoined ==
    ASSUME NEW T, NEW a \in Seq(T), NEW b \in Seq(T), \A i \in 1 .. Len(b) : b[i].confirm,
           NEW primary, NEW attempted, Len(primary) \in Nat, Cardinality(attempted) \in Nat,
           Len(primary) + Len(a) <= Cardinality(attempted)
    PROVE  QueueOK(a \o b, primary, attempted) /\ QueueOK(b \o a, primary, attempted)
<1> DEFINE m == Len(a)
           c == Len(b)
           q == a \o b
           r == b \o a
<1>1. m \in Nat /\ c \in Nat
  OBVIOUS
<1>2. /\ q \in Seq(T) /\ Len(q) = m + c
      /\ \A i \in 1 .. (m + c) : q[i] = IF i <= m THEN a[i] ELSE b[i - m]
  BY Joined, Zenon
<1>3. /\ r \in Seq(T) /\ Len(r) = c + m
      /\ \A i \in 1 .. (c + m) : r[i] = IF i <= c THEN b[i] ELSE a[i - c]
  BY Joined, Zenon
<1>4. Len(primary) + m <= Cardinality(attempted) /\ \A i \in 1 .. c : b[i].confirm
  OBVIOUS
<1> HIDE DEF q, r, m, c
<1>5. \A i \in 1 .. (m + c) : ~q[i].confirm => 0 < i /\ i <= m
  <2> SUFFICES ASSUME NEW i \in 1 .. (m + c), ~(i <= m) PROVE q[i].confirm
    BY <1>1
  <2>1. i - m \in 1 .. c /\ q[i] = b[i - m]
    BY <1>1, <1>2
  <2> QED
    BY <1>4, <2>1, Zenon
<1>6. \A i \in 1 .. (c + m) : ~r[i].confirm => c < i /\ i <= c + m
  <2> SUFFICES ASSUME NEW i \in 1 .. (c + m), i <= c PROVE r[i].confirm
    BY <1>1
  <2>1. i \in 1 .. c /\ r[i] = b[i]
    BY <1>1, <1>3
  <2> QED
    BY <1>4, <2>1, Zenon
<1>7. QueueOK(q, primary, attempted)
  <2>1. 0 <= m /\ Len(primary) + (m - 0) <= Cardinality(attempted) /\ 0 \in Nat
    BY <1>1, <1>4
  <2> QED
    BY <1>1, <1>2, <1>5, <2>1 DEF QueueOK
<1>8. QueueOK(r, primary, attempted)
  <2>1. c <= c + m /\ Len(primary) + ((c + m) - c) <= Cardinality(attempted) /\ c + m \in Nat
    BY <1>1, <1>4
  <2> QED
    BY <1>1, <1>3, <1>6, <2>1 DEF QueueOK
<1> QED
  BY <1>7, <1>8 DEF q, r

(* The next pass of a campaign: new payloads and the ones to confirm. *)
LEMMA AskMoreKeeps ==
    ASSUME TaskOK, CampaignOK, NEW fit, t' = AskMore(fit),
           NEW f, f = Followups(fit), f.more # {} \/ f.confirm # {},
           IsFiniteSet(f.more), IsFiniteSet(f.confirm), f.more \cap t.attempted = {}
    PROVE  CampaignOK'
<1> DEFINE a == Jobs(f.more, FALSE)
           b == Jobs(f.confirm, TRUE)
           m == Cardinality(f.more)
           c == Cardinality(f.confirm)
<1>1. /\ t'.pc = "job" /\ t'.round = t.round /\ t'.primary = t.primary
      /\ t'.attempted = t.attempted \cup f.more /\ (t'.queue = a \o b \/ t'.queue = b \o a)
  <2> DEFINE first == fit[t.primary[1].env] = "needs_confirmation"
  <2>1. t' = [t EXCEPT !.pc = "job", !.attempted = @ \union f.more, !.confirmed = @ \union f.confirm,
                       !.queue = IF first THEN b \o a ELSE a \o b]
    BY Zenon DEF AskMore
  <2> HIDE DEF a, b, first
  <2> QED
    BY <2>1 DEF TaskOK
<1>2. m \in Nat /\ c \in Nat /\ (f.more # {} => m # 0) /\ (f.confirm # {} => c # 0)
  BY FS_CardinalityType, FS_EmptySet
<1>3. PICK A : a \in Seq(A) /\ Len(a) = m
  BY JobsOf
<1>4. PICK B : b \in Seq(B) /\ Len(b) = c /\ \A i \in 1 .. c : b[i].confirm = TRUE
  BY JobsOf
<1>5. /\ IsFiniteSet(t.attempted) /\ Cardinality(t.attempted) \in Nat
      /\ Len(t.primary) <= Cardinality(t.attempted) /\ Len(t.primary) \in Nat
  <2>1. IsFiniteSet(t.attempted) /\ Cardinality(t.attempted) \in Nat
    BY FS_CardinalityType DEF CampaignOK
  <2>2. PICK lo \in Nat, hi \in Nat : lo <= hi /\ Len(t.primary) + (hi - lo) <= Cardinality(t.attempted)
    BY DEF CampaignOK, QueueOK
  <2>3. Len(t.primary) \in Nat
    BY DEF TaskOK, Measured
  <2> QED
    BY <2>1, <2>2, <2>3
<1>6. IsFiniteSet(t'.attempted) /\ Cardinality(t'.attempted) = Cardinality(t.attempted) + m
  <2>1. t.attempted \cap f.more = {} /\ Cardinality({}) = 0
    BY FS_EmptySet
  <2>2. /\ IsFiniteSet(t.attempted \cup f.more)
        /\ Cardinality(t.attempted \cup f.more)
             = Cardinality(t.attempted) + Cardinality(f.more) - Cardinality(t.attempted \cap f.more)
    BY <1>5, FS_Union
  <2> HIDE DEF m
  <2>3. Cardinality(t'.attempted) = Cardinality(t.attempted) + m - 0
    BY <1>1, <2>1, <2>2 DEF m
  <2> QED
    BY <1>1, <1>2, <1>5, <2>2, <2>3
<1> HIDE DEF a, b, m, c
<1> DEFINE T == A \cup B
<1>7. a \in Seq(T) /\ b \in Seq(T)
  BY <1>3, <1>4
<1> HIDE DEF T
<1>8. QueueOK(a \o b, t.primary, t'.attempted) /\ QueueOK(b \o a, t.primary, t'.attempted)
  <2>1. /\ Len(t.primary) + Len(a) <= Cardinality(t'.attempted)
        /\ Cardinality(t'.attempted) \in Nat
    BY <1>2, <1>3, <1>4, <1>5, <1>6
  <2>2. \A i \in 1 .. Len(b) : b[i].confirm
    BY <1>4, Zenon
  <2> QED
    BY <1>5, <1>7, <2>1, <2>2, JobsJoined, Zenon
<1>9. a \o b # <<>> /\ b \o a # <<>>
  <2>1. m + c # 0 /\ c + m # 0 /\ Len(<<>>) = 0
    BY <1>2
  <2>2. Len(a \o b) = m + c /\ Len(b \o a) = c + m
    <3>1. Len(a \o b) = Len(a) + Len(b) /\ Len(b \o a) = Len(b) + Len(a)
      BY <1>7, Joined, Zenon
    <3> QED
      BY <1>3, <1>4, <3>1, Zenon
  <2> QED
    BY <2>1, <2>2, Zenon
<1>10. QueueOK(t'.queue, t'.primary, t'.attempted) /\ t'.queue # <<>>
  BY <1>1, <1>8, <1>9, Zenon
<1>11. t'.round \in 0 .. MaxRounds
  BY <1>1 DEF CampaignOK
<1> QED
  BY <1>1, <1>6, <1>10, <1>11 DEF CampaignOK, TaskSteps, Campaigning

LEMMA CampaignStep == MeasurementInv /\ CampaignOK /\ [Next]_vars => CampaignOK'
<1> SUFFICES ASSUME MeasurementInv, CampaignOK, [Next]_vars PROVE CampaignOK'
  OBVIOUS
<1>1. ConfigOK /\ TaskOK /\ t.round \in 0 .. MaxRounds /\ MaxRounds \in Nat \ {0}
  BY CampaignAssumption DEF MeasurementInv, CampaignOK
<1> USE DEF TaskSteps, Campaigning
<1>2. CASE t' = t
  BY <1>1, <1>2, CampaignStands DEF CampaignOK
<1>3. CASE \E status : t' = Return(status) \/ t' = Stop(status)
  BY <1>3, CampaignReturns DEF Stop
<1>4. CASE \E e : t' = JobDone(e) /\ t.pc \in Campaigning
  BY <1>1, <1>4, JobEnds
<1>5. CASE StartCampaign
  BY <1>1, <1>5, CampaignStarts
<1>6. CASE JobBlocked \/ LeaseExpires \/ Unreadable \/ Finish \/ Crash
  BY <1>3, <1>6 DEF JobBlocked, LeaseExpires, Unreadable, Finish, Crash
<1>7. CASE NotAdmitted \/ ProbeStable
  BY <1>4, <1>7 DEF NotAdmitted, ProbeStable
<1>8. CASE StartProbe
  <2>1. /\ t'.pc = "probe" /\ t.pc \in {"job", "rounds"} /\ t'.round = (IF t.pc = "job" THEN 1 ELSE t.round)
        /\ t'.queue = t.queue /\ t'.primary = t.primary /\ t'.attempted = t.attempted
    BY <1>1, <1>8 DEF StartProbe, TaskOK
  <2>2. t'.round \in 0 .. MaxRounds
    BY <1>1, <2>1
  <2> QED
    BY <2>1, <2>2, CampaignStands
<1>9. CASE EndProbe
  <2>1. CASE t' = [t EXCEPT !.pc = IF t.count + 1 < Launches THEN "rounds" ELSE "stable",
                            !.count = @ + 1, !.ids = t.ids \union {env}]
    <3>1. /\ t'.pc \in {"rounds", "stable"} /\ t'.round = t.round
          /\ t'.queue = t.queue /\ t'.primary = t.primary /\ t'.attempted = t.attempted
      BY <1>1, <2>1 DEF TaskOK
    <3> QED
      BY <1>1, <1>9, <3>1, CampaignStands DEF EndProbe
  <2>2. \/ t' = Return("budget_exhausted") \/ t' = Stop("cleanup_unconfirmed") \/ t' = JobDone(None)
        \/ t' = [t EXCEPT !.pc = IF t.count + 1 < Launches THEN "rounds" ELSE "stable",
                          !.count = @ + 1, !.ids = t.ids \union {env}]
    BY <1>9 DEF EndProbe, AfterProbe
  <2> QED
    BY <1>3, <1>4, <1>9, <2>1, <2>2 DEF EndProbe
<1>10. CASE ProbeUnstable
  <2>1. CASE t.round < MaxRounds
    <3>1. /\ t'.pc = "rounds" /\ t'.round = t.round + 1
          /\ t'.queue = t.queue /\ t'.primary = t.primary /\ t'.attempted = t.attempted
      BY <1>1, <1>10, <2>1 DEF ProbeUnstable, TaskOK
    <3>2. t'.round \in 0 .. MaxRounds
      BY <1>1, <2>1, <3>1
    <3> QED
      BY <1>10, <3>1, <3>2, CampaignStands DEF ProbeUnstable
  <2>2. CASE ~(t.round < MaxRounds)
    BY <1>4, <1>10, <2>2 DEF ProbeUnstable
  <2> QED
    BY <2>1, <2>2
<1>11. CASE FitAndPublish
  <2>1. PICK fit : t' = IF Followups(fit).confirm = {} /\ Followups(fit).more = {}
                        THEN Return("completed") ELSE AskMore(fit)
    BY <1>11, Zenon DEF FitAndPublish
  <2>2. CASE t' = Return("completed")
    BY <1>3, <2>2
  <2>3. CASE /\ t' = AskMore(fit)
             /\ Followups(fit).more # {} \/ Followups(fit).confirm # {}
    BY <1>1, <2>3, FollowupsFinite, AskMoreKeeps
  <2> QED
    BY <2>1, <2>2, <2>3
<1>12. CASE StartTrace \/ StartSide
  <2>1. /\ t'.pc \in {"trace", "launch"} /\ t'.round = t.round
        /\ t'.queue = t.queue /\ t'.primary = t.primary /\ t'.attempted = t.attempted
    BY <1>1, <1>12 DEF StartTrace, StartSide, TaskOK
  <2> QED
    BY <1>1, <2>1, CampaignStands
<1>13. CASE EndTrace
  <2>1. CASE t' = [t EXCEPT !.pc = "reserve"]
    <3>1. /\ t'.pc = "reserve" /\ t'.round = t.round
          /\ t'.queue = t.queue /\ t'.primary = t.primary /\ t'.attempted = t.attempted
      BY <1>1, <2>1 DEF TaskOK
    <3> QED
      BY <1>1, <3>1, CampaignStands
  <2> QED
    BY <1>3, <1>13, <2>1 DEF EndTrace
<1>14. CASE Reserve
  <2>1. /\ t'.pc = "side" /\ t'.round = 1
        /\ t'.queue = t.queue /\ t'.primary = t.primary /\ t'.attempted = t.attempted
    BY <1>1, <1>14 DEF Reserve, TaskOK
  <2>2. 1 \in 0 .. MaxRounds
    BY <1>1
  <2> QED
    BY <2>1, <2>2, CampaignStands
<1>15. CASE EndSide
  <2>1. CASE ValidSample
    <3>1. /\ t'.pc \in {"measured", "side"} /\ t'.round = t.round
          /\ t'.queue = t.queue /\ t'.primary = t.primary /\ t'.attempted = t.attempted
      BY <1>1, <1>15, <2>1 DEF EndSide, TaskOK
    <3> QED
      BY <1>1, <3>1, CampaignStands
  <2>2. CASE ~ValidSample
    BY <1>3, <1>15, <2>2 DEF EndSide, Close
  <2> QED
    BY <2>1, <2>2
<1>16. CASE RoundUnstable
  <2>1. CASE t.round < MaxRounds
    <3>1. /\ t'.pc = "side" /\ t'.round = t.round + 1
          /\ t'.queue = t.queue /\ t'.primary = t.primary /\ t'.attempted = t.attempted
      BY <1>1, <1>16, <2>1 DEF RoundUnstable, TaskOK
    <3>2. t'.round \in 0 .. MaxRounds
      BY <1>1, <2>1, <3>1
    <3> QED
      BY <3>1, <3>2, CampaignStands
  <2>2. CASE ~(t.round < MaxRounds)
    BY <1>3, <1>16, <2>2 DEF RoundUnstable, Close
  <2> QED
    BY <2>1, <2>2
<1>17. CASE RoundDecides
  BY <1>3, <1>17 DEF RoundDecides, Close
<1>18. CASE EnvironmentChanges \/ UNCHANGED taskVars \/ UNCHANGED vars
  BY <1>2, <1>18 DEF EnvironmentChanges, taskVars, vars
<1> QED
  BY <1>5, <1>6, <1>7, <1>8, <1>9, <1>10, <1>11, <1>12, <1>13, <1>14, <1>15, <1>16, <1>17, <1>18
     DEF Next

(* run_calibration: a campaign has no more primary measurements than sizes  *)
(* it attempted, its rounds stay within max_rounds, and while it measures   *)
(* there is a job to measure.                                               *)
THEOREM CampaignInvariant == Spec => []CampaignOK
<1>1. Init => CampaignOK
  <2> SUFFICES ASSUME Init PROVE CampaignOK
    OBVIOUS
  <2>1. t.pc = "choose" /\ t.queue = <<>> /\ t.primary = <<>> /\ t.attempted = {} /\ t.round = 0
    BY DEF Init, Idle
  <2>2. 0 \in 0 .. MaxRounds /\ IsFiniteSet({})
    BY CampaignAssumption, FS_EmptySet
  <2> QED
    BY <2>1, <2>2, NoJobs DEF CampaignOK, TaskSteps, Campaigning
<1> QED
  BY <1>1, MeasurementInvariant, CampaignStep, PTL DEF Spec

-----------------------------------------------------------------------------
(* One rank: what its processes and its files never take back *)

Held(h, r) == reg[h].owner = r /\ reg[h].state # "released"

Ranks ==
    [prep : BOOLEAN, stop : BOOLEAN, notStarted : BOOLEAN, late : BOOLEAN, sameBoot : BOOLEAN,
     wrapper : {"none", "spawned", "cleared", "done", "dead"},
     native : {"none", "running", "released", "ok", "failed"},
     identity : BOOLEAN, receipt : BOOLEAN, result : Results \cup {None}, reconciled : BOOLEAN]
Calls ==
    [root : Roots, host : Hosts, op : {"prepare", "cancel", "cleanup", "collect"},
     at : {"begin", "acquired", "stopped", "read"}, data : Pages \cup {None}]
Launching ==
    [pc : {"idle", "prepare", "start", "mpi", "cleanup", "collect", "judge"},
     root : Roots \cup {None}, kind : {"probe", "schedule"},
     todo : Seq(Hosts), prepared : Seq(Hosts), wait : Hosts \cup {None},
     started : BOOLEAN, error : BOOLEAN, fatal : BOOLEAN, launcher : BOOLEAN,
     got : [Hosts -> Pages \cup {None}]]

\* what the processes of a rank and its files have to do with each other
RankOK(d) ==
    /\ d \in Ranks
    /\ d.wrapper \in {"none", "spawned"} => d.native = "none" /\ ~d.reconciled
    /\ d.identity \/ d.reconciled => d.native # "none"
    /\ d.reconciled => ~Alive(d)
    /\ d.native \in {"released", "ok"} => d.receipt
    /\ d.result # None <=> d.wrapper = "done"
    /\ d.result # None /\ d.result.clean => ~Alive(d)
    /\ d.result # None /\ d.result.completed => d.native = "ok" /\ d.result.clean /\ d.result.released
    /\ d.notStarted => d.stop

\* a page of receipts is still true of the rank, whenever it was read
PageOK(p, d) ==
    /\ Settled(p) => ~MayUse(d)
    /\ p.completed => d.native = "ok" /\ Confirmed(p.receipt)

\* what a rank never takes back
Goes(d, e) ==
    /\ RankOK(e)
    /\ MayUse(e) => MayUse(d)
    /\ d.stop => e.stop
    /\ d.native = "ok" => e.native = "ok"
    /\ ExitedZero(d) => ExitedZero(e)
    /\ d.wrapper = "none" => e.wrapper = "none"

LEMMA GoesNowhere ==
    ASSUME NEW d, RankOK(d)
    PROVE  Goes(d, d)
BY DEF Goes

LEMMA PageStays ==
    ASSUME NEW p, NEW d, NEW e, PageOK(p, d), Goes(d, e)
    PROVE  PageOK(p, e)
BY DEF PageOK, Goes

(* What the wrapper, its native process and a restart do to a rank. *)
LEMMA RankGoes ==
    ASSUME NEW d, RankOK(d)
    PROVE  /\ d.wrapper = "spawned" =>
                /\ ~d.sameBoot => Goes(d, [d EXCEPT !.wrapper = "dead"])
                /\ d.stop \/ d.late =>
                     Goes(d, [d EXCEPT !.wrapper = "done", !.result = Result(TRUE, TRUE, FALSE)])
                /\ ~(d.stop \/ d.late) => Goes(d, [d EXCEPT !.wrapper = "cleared"])
           /\ d.wrapper = "cleared" /\ d.native = "none" => Goes(d, [d EXCEPT !.native = "running"])
           /\ d.wrapper = "cleared" /\ d.native # "none" => Goes(d, [d EXCEPT !.identity = TRUE])
           /\ d.native = "running" => Goes(d, [d EXCEPT !.native = "released", !.receipt = TRUE])
           /\ d.native = "released" => Goes(d, [d EXCEPT !.native = "ok"])
           /\ d.wrapper = "cleared" /\ d.identity /\ ~Alive(d) =>
                Goes(d, [d EXCEPT !.wrapper = "done", !.result = Result(TRUE, d.receipt, d.native = "ok")])
           /\ d.wrapper = "cleared" /\ d.identity /\ Alive(d) =>
                \A gone \in BOOLEAN :
                  Goes(d, [d EXCEPT !.wrapper = "done", !.native = IF gone THEN "failed" ELSE @,
                                    !.result = Result(gone, d.receipt, FALSE)])
           /\ Alive(d) => Goes(d, [d EXCEPT !.native = "failed"])
           /\ Goes(d, [d EXCEPT !.late = TRUE])
           /\ Goes(d, Restarted(d))
<1> USE NoneIsNothing
<1>1. \A a, b, c \in BOOLEAN : /\ Result(a, b, c) \in Results /\ Result(a, b, c) # None
                                /\ Result(a, b, c).clean = a /\ Result(a, b, c).released = b
                                /\ Result(a, b, c).completed = c
  BY DEF Result, Results
<1>2. d \in Ranks
  BY DEF RankOK
<1>3. ASSUME d.wrapper = "spawned"
      PROVE  /\ ~d.sameBoot => Goes(d, [d EXCEPT !.wrapper = "dead"])
             /\ d.stop \/ d.late =>
                  Goes(d, [d EXCEPT !.wrapper = "done", !.result = Result(TRUE, TRUE, FALSE)])
             /\ ~(d.stop \/ d.late) => Goes(d, [d EXCEPT !.wrapper = "cleared"])
  <2>1. ~d.sameBoot => Goes(d, [d EXCEPT !.wrapper = "dead"])
    BY <1>2, <1>3 DEF Goes, RankOK, Ranks, MayUse, ExitedZero, Alive
  <2>2. d.stop \/ d.late =>
          Goes(d, [d EXCEPT !.wrapper = "done", !.result = Result(TRUE, TRUE, FALSE)])
    BY <1>1, <1>2, <1>3 DEF Goes, RankOK, Ranks, MayUse, ExitedZero, Alive
  <2>3. ~(d.stop \/ d.late) => Goes(d, [d EXCEPT !.wrapper = "cleared"])
    BY <1>2, <1>3 DEF Goes, RankOK, Ranks, MayUse, ExitedZero, Alive
  <2> QED
    BY <2>1, <2>2, <2>3
<1>4. d.wrapper = "cleared" /\ d.native = "none" => Goes(d, [d EXCEPT !.native = "running"])
  BY <1>2 DEF Goes, RankOK, Ranks, MayUse, ExitedZero, Alive
<1>5. d.wrapper = "cleared" /\ d.native # "none" => Goes(d, [d EXCEPT !.identity = TRUE])
  BY <1>2 DEF Goes, RankOK, Ranks, MayUse, ExitedZero, Alive
<1>6. d.native = "running" => Goes(d, [d EXCEPT !.native = "released", !.receipt = TRUE])
  BY <1>2 DEF Goes, RankOK, Ranks, MayUse, ExitedZero, Alive
<1>7. d.native = "released" => Goes(d, [d EXCEPT !.native = "ok"])
  BY <1>2 DEF Goes, RankOK, Ranks, MayUse, ExitedZero, Alive
<1>8. d.wrapper = "cleared" /\ d.identity /\ ~Alive(d) =>
        Goes(d, [d EXCEPT !.wrapper = "done", !.result = Result(TRUE, d.receipt, d.native = "ok")])
  <2> DEFINE x == Result(TRUE, d.receipt, d.native = "ok")
  <2>1. /\ x \in Results /\ x # None /\ x.clean /\ x.released = d.receipt
        /\ x.completed = (d.native = "ok") /\ d.receipt \in BOOLEAN
    BY <1>1, <1>2 DEF Ranks
  <2> HIDE DEF x
  <2> SUFFICES ASSUME d.wrapper = "cleared", d.identity, ~Alive(d)
               PROVE  Goes(d, [d EXCEPT !.wrapper = "done", !.result = x])
    BY DEF x
  <2> DEFINE e == [d EXCEPT !.wrapper = "done", !.result = x]
  <2>2. /\ e \in Ranks /\ e.native = d.native /\ e.wrapper = "done" /\ e.result = x
        /\ e.stop = d.stop /\ e.late = d.late /\ e.identity = d.identity /\ e.receipt = d.receipt
        /\ e.reconciled = d.reconciled /\ e.notStarted = d.notStarted
    BY <1>2, <2>1 DEF Ranks
  <2> HIDE DEF e
  <2>3. RankOK(e)
    BY <2>1, <2>2 DEF RankOK, Alive
  <2>4. ~MayUse(e) /\ ~ExitedZero(d)
    BY <2>2 DEF MayUse, Alive, ExitedZero
  <2>5. Goes(d, e)
    BY <2>2, <2>3, <2>4 DEF Goes
  <2> QED
    BY <2>5 DEF e
<1>9. d.wrapper = "cleared" /\ d.identity /\ Alive(d) =>
        \A gone \in BOOLEAN :
          Goes(d, [d EXCEPT !.wrapper = "done", !.native = IF gone THEN "failed" ELSE @,
                            !.result = Result(gone, d.receipt, FALSE)])
  <2> SUFFICES ASSUME d.wrapper = "cleared", d.identity, Alive(d), NEW gone \in BOOLEAN
               PROVE  Goes(d, [d EXCEPT !.wrapper = "done", !.native = IF gone THEN "failed" ELSE @,
                                        !.result = Result(gone, d.receipt, FALSE)])
    OBVIOUS
  <2> DEFINE x == Result(gone, d.receipt, FALSE)
  <2>1. x \in Results /\ x # None /\ x.clean = gone /\ ~x.completed
    BY <1>1, <1>2 DEF Ranks
  <2> HIDE DEF x
  <2> DEFINE e == [d EXCEPT !.wrapper = "done", !.native = IF gone THEN "failed" ELSE @, !.result = x]
  <2>2. /\ e \in Ranks /\ e.native = (IF gone THEN "failed" ELSE d.native)
        /\ e.wrapper = "done" /\ e.result = x
        /\ e.stop = d.stop /\ e.late = d.late /\ e.identity = d.identity /\ e.receipt = d.receipt
        /\ e.reconciled = d.reconciled /\ e.notStarted = d.notStarted
    BY <1>2, <2>1 DEF Ranks
  <2> HIDE DEF e
  <2>3. RankOK(e)
    BY <2>1, <2>2 DEF RankOK, Alive
  <2>4. (MayUse(e) => MayUse(d)) /\ ~ExitedZero(d) /\ d.native # "ok"
    BY <2>2 DEF MayUse, Alive, ExitedZero
  <2>5. Goes(d, e)
    BY <2>2, <2>3, <2>4 DEF Goes
  <2> QED
    BY <2>5 DEF e, x
<1>10. Alive(d) => Goes(d, [d EXCEPT !.native = "failed"])
  BY <1>2 DEF Goes, RankOK, Ranks, MayUse, ExitedZero, Alive
<1>11. Goes(d, [d EXCEPT !.late = TRUE])
  BY <1>2 DEF Goes, RankOK, Ranks, MayUse, ExitedZero, Alive
<1>12. Goes(d, Restarted(d))
  <2> DEFINE e == Restarted(d)
             boot == ~d.prep
             nat == IF Alive(d) THEN "failed" ELSE d.native
             wrap == IF d.wrapper = "cleared" THEN "dead" ELSE d.wrapper
  <2>1. /\ e = [d EXCEPT !.sameBoot = boot, !.native = nat, !.wrapper = wrap] /\ boot \in BOOLEAN
        /\ nat \in {"none", "running", "released", "ok", "failed"}
        /\ wrap \in {"none", "spawned", "cleared", "done", "dead"}
    BY <1>2 DEF Restarted, Ranks
  <2> HIDE DEF boot, nat, wrap, e
  <2>2. /\ e \in Ranks /\ e.native = nat /\ e.wrapper = wrap
        /\ e.stop = d.stop /\ e.late = d.late /\ e.identity = d.identity /\ e.receipt = d.receipt
        /\ e.result = d.result /\ e.reconciled = d.reconciled /\ e.notStarted = d.notStarted
    BY <1>2, <2>1 DEF Ranks
  <2>3. /\ e \in Ranks /\ e.native = (IF Alive(d) THEN "failed" ELSE d.native)
        /\ e.wrapper = (IF d.wrapper = "cleared" THEN "dead" ELSE d.wrapper)
        /\ e.stop = d.stop /\ e.late = d.late /\ e.identity = d.identity /\ e.receipt = d.receipt
        /\ e.result = d.result /\ e.reconciled = d.reconciled /\ e.notStarted = d.notStarted
    BY <2>2 DEF nat, wrap
  <2>4. RankOK(e)
    BY <2>3 DEF RankOK, Alive
  <2>5. MayUse(e) => MayUse(d)
    BY <2>3 DEF MayUse, Alive
  <2>6. ExitedZero(d) => ExitedZero(e)
    BY <2>3 DEF ExitedZero
  <2>7. Goes(d, e)
    BY <2>3, <2>4, <2>5, <2>6 DEF Goes, Alive
  <2> QED
    BY <2>7 DEF e
<1> QED
  BY <1>3, <1>4, <1>5, <1>6, <1>7, <1>8, <1>9, <1>10, <1>11, <1>12

(* What helpers and mpirun do to the files and the wrapper of a rank. *)
LEMMA HelperGoes ==
    ASSUME NEW d, RankOK(d)
    PROVE  /\ Goes(d, [d EXCEPT !.prep = TRUE])
           /\ Goes(d, [d EXCEPT !.stop = TRUE])
           /\ d.stop => Goes(d, [d EXCEPT !.notStarted = NoRanks(d)])
           /\ Goes(d, Reconciled(d))
           /\ d.wrapper \in {"spawned", "cleared"} => Goes(d, [d EXCEPT !.wrapper = "dead"])
<1>1. d \in Ranks
  BY DEF RankOK
<1>2. Goes(d, [d EXCEPT !.prep = TRUE])
  BY <1>1 DEF Goes, RankOK, Ranks, MayUse, ExitedZero, Alive
<1>3. Goes(d, [d EXCEPT !.stop = TRUE])
  BY <1>1 DEF Goes, RankOK, Ranks, MayUse, ExitedZero, Alive
<1>4. d.stop => Goes(d, [d EXCEPT !.notStarted = NoRanks(d)])
  <2>1. NoRanks(d) \in BOOLEAN
    BY DEF NoRanks
  <2> QED
    BY <1>1, <2>1 DEF Goes, RankOK, Ranks, MayUse, ExitedZero, Alive
<1>5. Goes(d, Reconciled(d))
  BY <1>1 DEF Goes, RankOK, Ranks, MayUse, ExitedZero, Alive, Reconciled, Reconcilable
<1>6. d.wrapper \in {"spawned", "cleared"} => Goes(d, [d EXCEPT !.wrapper = "dead"])
  BY <1>1 DEF Goes, RankOK, Ranks, MayUse, ExitedZero, Alive
<1> QED
  BY <1>2, <1>3, <1>4, <1>5, <1>6

(* A page is true of the rank when it is read, and confirms one that ended. *)
LEMMA PageReads ==
    ASSUME NEW d, RankOK(d)
    PROVE  /\ Page(d) \in Pages /\ PageOK(Page(d), d)
           /\ ExitedZero(d) => Confirmed(Page(d).receipt)
<1> USE NoneIsNothing
<1>1. d \in Ranks
  BY DEF RankOK
<1>2. Receipt(d) \in Receipts \cup {None}
  BY <1>1 DEF Receipt, Receipts, Ranks, Results
<1>3. Confirmed(Receipt(d)) => ~MayUse(d)
  BY <1>1 DEF Confirmed, Receipt, RankOK, Ranks, Results, MayUse, Alive
<1>4. d.notStarted /\ NoRanks(d) => ~MayUse(d)
  BY <1>1 DEF NoRanks, RankOK, MayUse
<1>5. d.result # None /\ d.result.completed => d.native = "ok" /\ Confirmed(Receipt(d))
  <2>1. CASE d.reconciled
    <3> DEFINE x == [clean |-> TRUE, released |-> TRUE]
    <3>1. x \in Receipts /\ x.clean /\ x.released
      BY DEF Receipts
    <3> HIDE DEF x
    <3>2. Receipt(d) = x
      BY <2>1 DEF Receipt, x
    <3>3. Confirmed(Receipt(d))
      BY <3>1, <3>2 DEF Confirmed
    <3> QED
      BY <3>3 DEF RankOK
  <2>2. CASE ~d.reconciled
    <3> SUFFICES ASSUME d.result # None, d.result.completed
                 PROVE  d.native = "ok" /\ Confirmed(Receipt(d))
      OBVIOUS
    <3>1. Receipt(d) = [clean |-> d.result.clean, released |-> d.result.released]
      BY <2>2 DEF Receipt
    <3>2. d.native = "ok" /\ d.result.clean /\ d.result.released
      BY DEF RankOK
    <3>3. Receipt(d) # None
      BY <1>1, <3>1 DEF Receipts, Ranks, Results
    <3> QED
      BY <3>1, <3>2, <3>3 DEF Confirmed
  <2> QED
    BY <2>1, <2>2
<1>6. Page(d) \in Pages
  BY <1>1, <1>2 DEF Page, Pages, NoRanks, Ranks, Results
<1>7. PageOK(Page(d), d)
  BY <1>3, <1>4, <1>5 DEF PageOK, Page, Settled
<1>8. ExitedZero(d) => Confirmed(Page(d).receipt)
  BY <1>1, <1>5 DEF ExitedZero, RankOK, Page
<1> QED
  BY <1>6, <1>7, <1>8
-----------------------------------------------------------------------------
(* The inductive invariant of the launches *)

RanksOK ==
    /\ dir \in [Roots -> [Hosts -> Ranks]]
    /\ \A r \in Roots, h \in Hosts : RankOK(dir[r][h])

RegistryOK ==
    /\ reg \in [Hosts -> [owner : Roots \cup {Rival, None}, state : {"active", "released", "quarantined"}]]
    /\ rival \in [Hosts -> {"none", "running"}]
    /\ partial \subseteq Hosts /\ faults \in Nat

\* whoever uses a GPU, or still may, holds it
UseOK ==
    /\ \A r \in Roots, h \in Hosts : MayUse(dir[r][h]) => Held(h, r)
    /\ \A h \in Hosts : rival[h] = "running" => Held(h, Rival)

HelperOK(x) ==
    /\ x \in Calls
    /\ x.op = "cancel" /\ x.at = "stopped" => dir[x.root][x.host].stop
    /\ x.op = "collect" /\ x.at = "read" => x.data # None /\ PageOK(x.data, dir[x.root][x.host])
HelpersOK == \A x \in helpers : HelperOK(x)

ControlOK ==
    /\ l \in Launching
    /\ l.pc = "idle" <=> l.root = None
    /\ Calling <=> l.todo # <<>>
    /\ l.wait # None => Calling /\ l.wait = Head(l.todo)
    /\ l.pc \in {"prepare", "start", "mpi"} => ~l.error
    /\ l.pc = "mpi" => l.started
    /\ l.pc = "cleanup" => l.error /\ l.prepared # <<>>
    /\ l.pc \in {"collect", "judge"} /\ ~l.error => l.started

\* until mpirun starts, the hosts prepared so far are held, and nothing but
\* prepare was ever called for this launch
PreparingOK ==
    l.pc \in {"prepare", "start"} =>
      /\ \A h \in Hosts : h \in Range(l.todo) \/ (h \in Range(l.prepared) /\ Held(h, l.root))
      /\ \A x \in helpers : x.root = l.root =>
            x.op = "prepare" /\ (x.at = "acquired" => Held(x.host, l.root))
      /\ \A h \in Hosts : dir[l.root][h].wrapper = "none"

\* while nothing has gone wrong, no helper is left over from an earlier call,
\* and what was collected gave the GPU back
CleanOK ==
    l.pc # "idle" /\ ~l.error =>
      /\ \A x \in helpers : x.root = l.root =>
           /\ Awaited(x) /\ \A y \in helpers : y.root = l.root => x = y
           /\ x.op = "collect" /\ x.at = "read" /\ l.kind = "probe" => Confirmed(x.data.receipt)
      /\ l.pc = "mpi" => \A h \in Hosts : h \in Range(l.prepared)
      /\ l.pc \in {"collect", "judge"} =>
           /\ l.kind = "probe" => \A h \in Hosts : ExitedZero(dir[l.root][h])
           /\ \A h \in Hosts : h \in Range(l.todo) \/ l.got[h] # None
           /\ \A h \in Hosts : l.got[h] # None =>
                /\ l.kind = "probe" => Confirmed(l.got[h].receipt)
                /\ Confirmed(l.got[h].receipt) => ~Held(h, l.root)

PagesOK ==
    \A h \in Hosts : l.got[h] # None =>
      l.pc \in {"collect", "judge"} /\ PageOK(l.got[h], dir[l.root][h])

LaunchInv == ControlOK /\ PreparingOK /\ CleanOK /\ PagesOK
GpuInv == RanksOK /\ RegistryOK /\ UseOK /\ HelpersOK /\ LaunchInv

-----------------------------------------------------------------------------
(* Every step takes every rank where a rank may go *)

DirGoes ==
    /\ dir' \in [Roots -> [Hosts -> Ranks]]
    /\ \A r \in Roots, h \in Hosts : Goes(dir[r][h], dir'[r][h])

LEMMA DirStands ==
    ASSUME RanksOK, dir' = dir
    PROVE  DirGoes
BY GoesNowhere DEF RanksOK, DirGoes

LEMMA OneRankGoes ==
    ASSUME RanksOK, NEW r \in Roots, NEW h \in Hosts, NEW e, Goes(dir[r][h], e),
           dir' = [dir EXCEPT ![r][h] = e]
    PROVE  DirGoes
<1>1. e \in Ranks
  BY DEF Goes, RankOK
<1>2. dir' \in [Roots -> [Hosts -> Ranks]]
  BY <1>1 DEF RanksOK
<1>3. \A q \in Roots, g \in Hosts : dir'[q][g] = IF q = r /\ g = h THEN e ELSE dir[q][g]
  BY DEF RanksOK
<1>4. \A q \in Roots, g \in Hosts : Goes(dir[q][g], dir'[q][g])
  BY <1>3, GoesNowhere DEF RanksOK
<1> QED
  BY <1>2, <1>4 DEF DirGoes

(* As long as the registry stands, nobody new comes to use a GPU. *)
LEMMA UseKept ==
    ASSUME RanksOK, RegistryOK, UseOK, DirGoes, reg' = reg, rival' = rival,
           partial' \subseteq Hosts, faults' \in Nat
    PROVE  RanksOK' /\ RegistryOK' /\ UseOK'
<1>1. RanksOK'
  BY DEF RanksOK, DirGoes, Goes
<1>2. RegistryOK'
  BY DEF RegistryOK
<1>3. UseOK'
  BY DEF UseOK, DirGoes, Goes, Held
<1> QED
  BY <1>1, <1>2, <1>3

LEMMA HelpersKept ==
    ASSUME HelpersOK, DirGoes, \A x \in helpers' : x \in helpers \/ HelperOK(x)'
    PROVE  HelpersOK'
<1> SUFFICES ASSUME NEW x \in helpers, HelperOK(x) PROVE HelperOK(x)'
  BY DEF HelpersOK
<1>1. x.root \in Roots /\ x.host \in Hosts
  BY DEF HelperOK, Calls
<1>2. Goes(dir[x.root][x.host], dir'[x.root][x.host])
  BY <1>1 DEF DirGoes
<1>3. x.op = "cancel" /\ x.at = "stopped" => dir'[x.root][x.host].stop
  BY <1>2 DEF HelperOK, Goes
<1>4. x.op = "collect" /\ x.at = "read" => x.data # None /\ PageOK(x.data, dir'[x.root][x.host])
  BY <1>2, PageStays DEF HelperOK
<1> QED
  BY <1>3, <1>4 DEF HelperOK

\* what the registry says of the launch in progress stands
HoldsStand ==
    /\ l.pc \in {"prepare", "start"} => \A h \in Hosts : Held(h, l.root) => Held(h, l.root)'
    /\ l.pc \in {"collect", "judge"} /\ ~l.error => \A h \in Hosts : Held(h, l.root)' => Held(h, l.root)

LEMMA RegistryStands ==
    ASSUME l' = l, reg' = reg
    PROVE  HoldsStand
BY DEF HoldsStand, Held

(* The coordinator stands, ranks go on, helpers end. *)
LEMMA LaunchStands ==
    ASSUME LaunchInv, HelpersOK, DirGoes, l' = l, HoldsStand, helpers' \subseteq helpers
    PROVE  LaunchInv'
<1>1. ControlOK'
  BY DEF LaunchInv, ControlOK, Calling
<1>2. l.pc # "idle" => l.root \in Roots
  BY DEF LaunchInv, ControlOK, Launching
<1>3. PreparingOK'
  <2> SUFFICES ASSUME l.pc \in {"prepare", "start"} PROVE PreparingOK'
    BY DEF PreparingOK
  <2>1. /\ \A h \in Hosts : Held(h, l.root) => Held(h, l.root)'
        /\ \A x \in helpers : x.host \in Hosts
    BY DEF HoldsStand, HelpersOK, HelperOK, Calls
  <2> QED
    BY <1>2, <2>1 DEF LaunchInv, PreparingOK, DirGoes, Goes
<1>4. CleanOK'
  <2>1. \A x : Awaited(x)' <=> Awaited(x)
    BY DEF Awaited, Op
  <2> QED
    BY <1>2, <2>1 DEF LaunchInv, CleanOK, DirGoes, Goes, HoldsStand
<1>5. PagesOK'
  <2> SUFFICES ASSUME NEW h \in Hosts, l.got[h] # None
               PROVE  l.pc \in {"collect", "judge"} /\ PageOK(l.got[h], dir'[l.root][h])
    BY DEF PagesOK
  <2>1. l.pc \in {"collect", "judge"} /\ PageOK(l.got[h], dir[l.root][h])
    BY DEF LaunchInv, PagesOK
  <2> QED
    BY <1>2, <2>1, PageStays DEF DirGoes
<1> QED
  BY <1>1, <1>3, <1>4, <1>5 DEF LaunchInv

(* A launch that has met an error only has pages to keep. *)
LEMMA ErrorKeeps ==
    ASSUME LaunchInv, DirGoes, ControlOK', l'.error, l'.pc \in {"cleanup", "collect", "judge"},
           l'.root = l.root, l.pc # "idle",
           \A h \in Hosts : l'.got[h] # None => l'.got[h] = l.got[h],
           l.pc \in {"collect", "judge"} => l'.pc \in {"collect", "judge"}
    PROVE  LaunchInv'
<1>1. PreparingOK' /\ CleanOK'
  BY DEF PreparingOK, CleanOK
<1>2. l.root \in Roots
  BY DEF LaunchInv, ControlOK, Launching
<1>3. PagesOK'
  <2> SUFFICES ASSUME NEW h \in Hosts, l'.got[h] # None
               PROVE  l'.pc \in {"collect", "judge"} /\ PageOK(l'.got[h], dir'[l.root][h])
    BY DEF PagesOK
  <2>1. l.pc \in {"collect", "judge"} /\ PageOK(l.got[h], dir[l.root][h]) /\ l'.got[h] = l.got[h]
    BY DEF LaunchInv, PagesOK
  <2> QED
    BY <1>2, <2>1, PageStays DEF DirGoes
<1> QED
  BY <1>1, <1>3 DEF LaunchInv
-----------------------------------------------------------------------------
(* Steps of the ranks *)

LEMMA FaultCounts == RegistryOK /\ Fault => faults' \in Nat
BY DEF RegistryOK, Fault

LEMMA RanksOnly ==
    ASSUME GpuInv, DirGoes, UNCHANGED <<reg, helpers, l, rival>>,
           partial' \subseteq Hosts, faults' \in Nat
    PROVE  GpuInv'
<1>1. RanksOK' /\ RegistryOK' /\ UseOK'
  BY UseKept DEF GpuInv
<1>2. HelpersOK'
  BY HelpersKept DEF GpuInv
<1>3. LaunchInv'
  BY LaunchStands, RegistryStands DEF GpuInv
<1> QED
  BY <1>1, <1>2, <1>3 DEF GpuInv

LEMMA OneRankStep ==
    ASSUME NEW r \in Roots, NEW h \in Hosts, RanksOK,
           \/ RankChecks(r, h) \/ NativeStarts(r, h)
           \/ IdentityWritten(r, h) \/ NativeReleases(r, h) \/ NativeExits(r, h)
           \/ RankRecords(r, h) \/ RankTimesOut(r, h)
    PROVE  DirGoes
<1> DEFINE d == dir[r][h]
<1>1. RankOK(d)
  BY DEF RanksOK
<1>2. \E e : Goes(d, e) /\ dir' = [dir EXCEPT ![r][h] = e]
  <2> HIDE DEF d
  <2>1. CASE RankChecks(r, h)
    <3>1. d.wrapper = "spawned"
          /\ dir' = [dir EXCEPT ![r][h] = IF ~d.sameBoot THEN [d EXCEPT !.wrapper = "dead"]
                     ELSE IF d.stop \/ d.late
                     THEN [d EXCEPT !.wrapper = "done", !.result = Result(TRUE, TRUE, FALSE)]
                     ELSE [d EXCEPT !.wrapper = "cleared"]]
      BY <2>1 DEF RankChecks, Becomes, d
    <3>2. CASE ~d.sameBoot
      BY <1>1, <3>1, <3>2, RankGoes
    <3>3. CASE d.sameBoot /\ (d.stop \/ d.late)
      BY <1>1, <3>1, <3>3, RankGoes
    <3>4. CASE d.sameBoot /\ ~(d.stop \/ d.late)
      BY <1>1, <3>1, <3>4, RankGoes
    <3> QED
      BY <3>2, <3>3, <3>4
  <2>2. CASE NativeStarts(r, h)
    <3>1. d.wrapper = "cleared" /\ d.native = "none" /\ dir' = [dir EXCEPT ![r][h] = [d EXCEPT !.native = "running"]]
      BY <2>2 DEF NativeStarts, Becomes, d
    <3> QED
      BY <1>1, <3>1, RankGoes
  <2>3. CASE IdentityWritten(r, h)
    <3>1. d.wrapper = "cleared" /\ d.native # "none" /\ dir' = [dir EXCEPT ![r][h] = [d EXCEPT !.identity = TRUE]]
      BY <2>3 DEF IdentityWritten, Becomes, d
    <3> QED
      BY <1>1, <3>1, RankGoes
  <2>4. CASE NativeReleases(r, h)
    <3>1. d.native = "running" /\ dir' = [dir EXCEPT ![r][h] = [d EXCEPT !.native = "released", !.receipt = TRUE]]
      BY <2>4 DEF NativeReleases, Becomes, d
    <3> QED
      BY <1>1, <3>1, RankGoes
  <2>5. CASE NativeExits(r, h)
    <3>1. d.native = "released" /\ dir' = [dir EXCEPT ![r][h] = [d EXCEPT !.native = "ok"]]
      BY <2>5 DEF NativeExits, Becomes, d
    <3> QED
      BY <1>1, <3>1, RankGoes
  <2>6. CASE RankRecords(r, h)
    <3>1. /\ d.wrapper = "cleared" /\ d.identity /\ ~Alive(d)
          /\ dir' = [dir EXCEPT ![r][h] =
                [d EXCEPT !.wrapper = "done", !.result = Result(TRUE, d.receipt, d.native = "ok")]]
      BY <2>6 DEF RankRecords, Becomes, d
    <3> QED
      BY <1>1, <3>1, RankGoes
  <2>7. CASE RankTimesOut(r, h)
    <3>1. /\ d.wrapper = "cleared" /\ d.identity /\ Alive(d)
          /\ \E gone \in BOOLEAN :
               dir' = [dir EXCEPT ![r][h] =
                 [d EXCEPT !.wrapper = "done", !.native = IF gone THEN "failed" ELSE @,
                           !.result = Result(gone, d.receipt, FALSE)]]
      BY <2>7 DEF RankTimesOut, Becomes, d
    <3> QED
      BY <1>1, <3>1, RankGoes
  <2> QED
    BY <2>1, <2>2, <2>3, <2>4, <2>5, <2>6, <2>7
<1> QED
  BY <1>2, OneRankGoes

LEMMA RankStepKeeps == GpuInv /\ RankStep => GpuInv'
<1> SUFFICES ASSUME GpuInv, RankStep PROVE GpuInv'
  OBVIOUS
<1>1. DirGoes
  BY OneRankStep DEF RankStep, GpuInv
<1> QED
  BY <1>1, RanksOnly DEF RankStep, GpuInv, RegistryOK

LEMMA MisfortuneOfRank == GpuInv /\ (NativeFails \/ Expires) => GpuInv'
<1> SUFFICES ASSUME GpuInv, NativeFails \/ Expires PROVE GpuInv'
  OBVIOUS
<1>1. \E r \in Roots, h \in Hosts : \E e : Goes(dir[r][h], e) /\ dir' = [dir EXCEPT ![r][h] = e]
  <2>1. CASE NativeFails
    <3>1. PICK r \in Roots, h \in Hosts :
             Alive(dir[r][h]) /\ dir' = [dir EXCEPT ![r][h] = [dir[r][h] EXCEPT !.native = "failed"]]
      BY <2>1 DEF NativeFails, Becomes
    <3>2. Goes(dir[r][h], [dir[r][h] EXCEPT !.native = "failed"])
      BY <3>1, RankGoes DEF GpuInv, RanksOK
    <3> QED
      BY <3>1, <3>2
  <2>2. CASE Expires
    <3>1. PICK r \in Roots, h \in Hosts :
             dir' = [dir EXCEPT ![r][h] = [dir[r][h] EXCEPT !.late = TRUE]]
      BY <2>2 DEF Expires, Becomes
    <3>2. Goes(dir[r][h], [dir[r][h] EXCEPT !.late = TRUE])
      BY <3>1, RankGoes DEF GpuInv, RanksOK
    <3> QED
      BY <3>1, <3>2
  <2> QED
    BY <2>1, <2>2
<1>2. DirGoes
  BY <1>1, OneRankGoes DEF GpuInv
<1>3. faults' \in Nat /\ UNCHANGED <<reg, helpers, l, rival>> /\ partial' \subseteq Hosts
  <2>1. Fault /\ UNCHANGED <<reg, partial, helpers, l, rival>>
    BY DEF NativeFails, Expires
  <2> QED
    BY <2>1, FaultCounts DEF GpuInv, RegistryOK
<1> QED
  BY <1>2, <1>3, RanksOnly

LEMMA KillingGoes ==
    ASSUME RanksOK, NEW r \in Roots, NEW hs, hs \subseteq Unfinished(r), dir' = Killing(r, hs)
    PROVE  DirGoes
<1>1. /\ dir' \in [Roots -> [Hosts -> Ranks]]
      /\ \A q \in Roots, h \in Hosts :
           dir'[q][h] = IF q = r /\ h \in hs THEN [dir[q][h] EXCEPT !.wrapper = "dead"] ELSE dir[q][h]
  <2>1. \A h \in Hosts : [dir[r][h] EXCEPT !.wrapper = "dead"] \in Ranks
    <3> SUFFICES ASSUME NEW d \in Ranks PROVE [d EXCEPT !.wrapper = "dead"] \in Ranks
      BY DEF RanksOK
    <3> QED
      BY DEF Ranks
  <2> QED
    BY <2>1 DEF Killing, RanksOK
<1>2. ASSUME NEW h \in hs PROVE Goes(dir[r][h], [dir[r][h] EXCEPT !.wrapper = "dead"])
  BY HelperGoes DEF Unfinished, RanksOK
<1>3. \A q \in Roots, h \in Hosts : Goes(dir[q][h], dir[q][h])
  BY GoesNowhere DEF RanksOK
<1>4. ASSUME NEW q \in Roots, NEW h \in Hosts PROVE Goes(dir[q][h], dir'[q][h])
  <2>1. CASE q = r /\ h \in hs
    BY <1>1, <1>2, <2>1
  <2>2. CASE ~(q = r /\ h \in hs)
    BY <1>1, <1>3, <2>2
  <2> QED
    BY <2>1, <2>2
<1> QED
  BY <1>1, <1>4 DEF DirGoes

LEMMA MpiAbortsKeeps == GpuInv /\ MpiAborts => GpuInv'
<1> SUFFICES ASSUME GpuInv, MpiAborts PROVE GpuInv'
  OBVIOUS
<1>1. l.root \in Roots
  BY DEF MpiAborts, GpuInv, LaunchInv, ControlOK, Launching
<1>2. DirGoes
  BY <1>1, KillingGoes DEF MpiAborts, GpuInv
<1> QED
  BY <1>2, RanksOnly DEF MpiAborts, GpuInv, RegistryOK
-----------------------------------------------------------------------------
(* The coordinator *)

LEMMA ToCleanupGoes ==
    ASSUME NEW k \in Launching, k.wait = None
    PROVE  /\ ToCleanup(k) \in Launching
           /\ ToCleanup(k).root = k.root /\ ToCleanup(k).error = k.error
           /\ ToCleanup(k).started = k.started /\ ToCleanup(k).kind = k.kind
           /\ ToCleanup(k).prepared = k.prepared /\ ToCleanup(k).got = k.got
           /\ ToCleanup(k).wait = None /\ ToCleanup(k).todo = k.prepared
           /\ ToCleanup(k).pc = IF k.prepared = <<>> THEN "judge"
                                ELSE IF NeedsCleanup(k) THEN "cleanup" ELSE "collect"
<1>1. CASE k.prepared = <<>>
  BY <1>1 DEF ToCleanup, Launching
<1>2. CASE k.prepared # <<>> /\ NeedsCleanup(k)
  BY <1>2 DEF ToCleanup, Launching
<1>3. CASE k.prepared # <<>> /\ ~NeedsCleanup(k)
  BY <1>3 DEF ToCleanup, Launching
<1> QED
  BY <1>1, <1>2, <1>3

(* The call on the first of the hosts to do has ended. *)
LEMMA CallEnds ==
    ASSUME NEW k \in Launching, k.todo # <<>>, NEW failed \in BOOLEAN
    PROVE  LET n == [k EXCEPT !.todo = Tail(@), !.wait = None, !.error = @ \/ failed]
           IN  /\ n \in Launching /\ n.pc = k.pc /\ n.root = k.root /\ n.kind = k.kind
               /\ n.todo = Tail(k.todo) /\ n.prepared = k.prepared /\ n.wait = None
               /\ n.started = k.started /\ n.error = (k.error \/ failed) /\ n.got = k.got
               /\ Head(k.todo) \in Hosts
<1>1. Tail(k.todo) \in Seq(Hosts) /\ Head(k.todo) \in Hosts
  BY DEF Launching
<1> QED
  BY <1>1 DEF Launching

LEMMA AdvanceFails ==
    ASSUME NEW k \in Launching, k.todo # <<>>, k.pc \in {"prepare", "cleanup", "collect"},
           k.pc = "cleanup" => k.prepared # <<>>
    PROVE  LET n == Advance(k, TRUE, None)
           IN  /\ n \in Launching /\ n.root = k.root /\ n.error /\ n.wait = None
               /\ n.pc \in {"cleanup", "collect", "judge"}
               /\ n.pc # "judge" <=> n.todo # <<>>
               /\ n.pc = "cleanup" => n.prepared # <<>>
               /\ k.pc = "collect" => n.pc # "cleanup"
               /\ \A h \in Hosts : n.got[h] # None => n.got[h] = k.got[h]
<1> DEFINE h == Head(k.todo)
           m == [k EXCEPT !.todo = Tail(@), !.wait = None, !.error = @ \/ TRUE]
           n == Advance(k, TRUE, None)
<1>1. /\ m \in Launching /\ m.pc = k.pc /\ m.root = k.root
      /\ m.todo = Tail(k.todo) /\ m.prepared = k.prepared /\ m.wait = None
      /\ m.error /\ m.got = k.got /\ h \in Hosts
  BY CallEnds
<1>2. CASE k.pc = "prepare"
  <2>1. n = ToCleanup(m)
    BY <1>2 DEF Advance
  <2> HIDE DEF m, n, h
  <2>2. /\ n \in Launching /\ n.root = m.root /\ n.error = m.error /\ n.prepared = m.prepared
        /\ n.got = m.got /\ n.wait = None /\ n.todo = m.prepared
        /\ n.pc = IF m.prepared = <<>> THEN "judge" ELSE IF NeedsCleanup(m) THEN "cleanup" ELSE "collect"
    BY <1>1, <2>1, ToCleanupGoes
  <2> QED
    BY <1>1, <1>2, <2>2 DEF n
<1>3. CASE k.pc = "cleanup"
  <2>1. n = IF m.todo # <<>> THEN m ELSE [m EXCEPT !.pc = "collect", !.todo = k.prepared]
    BY <1>3 DEF Advance
  <2> HIDE DEF m, n, h
  <2>2. CASE m.todo # <<>>
    BY <1>1, <1>3, <2>1, <2>2 DEF n
  <2>3. CASE m.todo = <<>>
    <3>1. /\ n \in Launching /\ n.root = m.root /\ n.error /\ n.wait = None /\ n.pc = "collect"
          /\ n.todo = k.prepared /\ n.got = m.got
      BY <1>1, <1>3, <2>1, <2>3 DEF Launching
    <3> QED
      BY <1>1, <1>3, <3>1 DEF n
  <2> QED
    BY <2>2, <2>3
<1>4. CASE k.pc = "collect"
  <2>1. n = [m EXCEPT !.got[h] = None, !.pc = IF m.todo # <<>> THEN @ ELSE "judge"]
    BY <1>4 DEF Advance
  <2> HIDE DEF m, n, h
  <2> DEFINE p == IF m.todo # <<>> THEN "collect" ELSE "judge"
             G == [m.got EXCEPT ![h] = None]
  <2>2. n = [m EXCEPT !.got = G, !.pc = p]
    BY <1>1, <1>4, <2>1 DEF Launching
  <2>3. /\ p \in {"collect", "judge"} /\ G \in [Hosts -> Pages \cup {None}]
        /\ \A g \in Hosts : G[g] = IF g = h THEN None ELSE m.got[g]
    BY <1>1 DEF Launching
  <2> HIDE DEF p, G
  <2>4. /\ n \in Launching /\ n.root = m.root /\ n.error /\ n.wait = None
        /\ n.pc = p /\ n.todo = m.todo /\ n.got = G
    BY <1>1, <2>2, <2>3 DEF Launching
  <2>5. /\ n.pc = (IF m.todo # <<>> THEN "collect" ELSE "judge")
        /\ \A g \in Hosts : n.got[g] = IF g = h THEN None ELSE m.got[g]
    BY <2>3, <2>4 DEF p
  <2> QED
    BY <1>1, <1>4, <2>4, <2>5 DEF n
<1> QED
  BY <1>2, <1>3, <1>4

(* The call of the launch in progress fails. *)
LEMMA FailingCall ==
    ASSUME LaunchInv, DirGoes, Calling, NEW k \in Launching,
           k.pc = l.pc, k.root = l.root, k.todo = l.todo, k.prepared = l.prepared, k.got = l.got,
           l' = Advance(k, TRUE, None)
    PROVE  LaunchInv'
<1>1. /\ l'.root = l.root /\ l'.error /\ l'.wait = None /\ l' \in Launching
      /\ l'.pc \in {"cleanup", "collect", "judge"} /\ (l'.pc # "judge" <=> l'.todo # <<>>)
      /\ l'.pc = "cleanup" => l'.prepared # <<>>
      /\ l.pc = "collect" => l'.pc # "cleanup"
      /\ \A h \in Hosts : l'.got[h] # None => l'.got[h] = l.got[h]
  BY AdvanceFails DEF LaunchInv, ControlOK, Calling
<1>2. l.pc \in {"prepare", "cleanup", "collect"} /\ l.root # None
  BY DEF Calling, LaunchInv, ControlOK
<1>3. ControlOK'
  BY <1>1, <1>2 DEF ControlOK, Calling
<1> QED
  BY <1>1, <1>2, <1>3, ErrorKeeps

LEMMA WaitingFor ==
    ASSUME LaunchInv, HelpersOK, NEW x \in helpers, Awaited(x)
    PROVE  /\ Calling /\ l.todo # <<>> /\ x.host = Head(l.todo) /\ l.root \in Roots
           /\ x.op = "prepare" => l.pc = "prepare"
           /\ x.op \in {"cleanup", "cancel"} => l.pc = "cleanup"
           /\ x.op = "collect" => l.pc = "collect"
<1>1. x \in Calls /\ x.host \in Hosts /\ x.root \in Roots /\ l.wait = x.host /\ x.op = Op /\ l.root = x.root
  BY DEF HelpersOK, HelperOK, Calls, Awaited
<1>2. Calling /\ l.todo # <<>> /\ l.wait = Head(l.todo)
  BY <1>1, NoneIsNothing DEF LaunchInv, ControlOK
<1> QED
  BY <1>1, <1>2 DEF Calling, Op

LEMMA CallHelperKeeps == GpuInv /\ CallHelper => GpuInv'
<1> SUFFICES ASSUME GpuInv, CallHelper PROVE GpuInv'
  OBVIOUS
<1>0. PICK h, x : h = Head(l.todo) /\ x = [root |-> l.root, host |-> h, op |-> Op, at |-> "begin", data |-> None]
  OBVIOUS
<1>1. /\ RanksOK /\ RegistryOK /\ UseOK /\ HelpersOK /\ ControlOK /\ PreparingOK /\ CleanOK /\ PagesOK
      /\ Calling /\ l.wait = None /\ UNCHANGED <<reg, partial, dir, rival, faults>>
      /\ helpers' = helpers \cup {x} /\ l' = [l EXCEPT !.wait = h]
  BY <1>0 DEF GpuInv, LaunchInv, CallHelper
<1>2. DirGoes
  BY <1>1, DirStands
<1>3. l.root \in Roots /\ h \in Hosts /\ l.todo # <<>> /\ l \in Launching
  BY <1>0, <1>1 DEF ControlOK, Launching, Calling
<1>4. x \in Calls /\ x.at = "begin" /\ x.root = l.root /\ x.host = h /\ x.op = Op
  BY <1>0, <1>3 DEF Calls, Op
<1>5. /\ l' \in Launching /\ l'.pc = l.pc /\ l'.root = l.root /\ l'.todo = l.todo /\ l'.wait = h
      /\ l'.started = l.started /\ l'.error = l.error /\ l'.prepared = l.prepared
      /\ l'.kind = l.kind /\ l'.got = l.got
  BY <1>1, <1>3 DEF Launching
<1>6. RanksOK' /\ RegistryOK' /\ UseOK'
  BY <1>1, <1>2, UseKept DEF RegistryOK
<1>7. HelpersOK'
  <2>1. HelperOK(x)'
    BY <1>4 DEF HelperOK
  <2> QED
    BY <1>1, <1>2, <2>1, HelpersKept
<1>8. ControlOK'
  BY <1>0, <1>1, <1>5 DEF ControlOK, Calling
<1>9. PreparingOK'
  BY <1>1, <1>4, <1>5 DEF PreparingOK, Calling, Held, Op
<1>10. CleanOK'
  <2>1. ~l.error => \A y \in helpers : y.root # l.root
    BY <1>1, NoneIsNothing DEF CleanOK, Calling, Awaited, HelpersOK, HelperOK, Calls
  <2>2. Awaited(x)'
    BY <1>4, <1>5 DEF Awaited, Op
  <2> QED
    BY <1>1, <1>4, <1>5, <2>1, <2>2 DEF CleanOK, Held
<1>11. PagesOK'
  BY <1>1, <1>5 DEF PagesOK
<1> QED
  BY <1>6, <1>7, <1>8, <1>9, <1>10, <1>11 DEF GpuInv, LaunchInv

LEMMA CallRefusedKeeps == GpuInv /\ CallRefused => GpuInv'
<1> SUFFICES ASSUME GpuInv, CallRefused PROVE GpuInv'
  OBVIOUS
<1> DEFINE k == [l EXCEPT !.fatal = @ \/ l.pc = "prepare"]
<1>1. /\ RanksOK /\ RegistryOK /\ UseOK /\ HelpersOK /\ LaunchInv /\ Calling /\ Fault
      /\ UNCHANGED <<reg, partial, dir, helpers, rival>> /\ l' = Advance(k, TRUE, None)
      /\ l \in Launching
  BY DEF GpuInv, CallRefused, LaunchInv, ControlOK
<1>2. /\ k \in Launching /\ k.pc = l.pc /\ k.root = l.root /\ k.todo = l.todo
      /\ k.prepared = l.prepared /\ k.got = l.got
  BY <1>1 DEF Launching
<1> HIDE DEF k
<1>3. DirGoes
  BY <1>1, DirStands
<1>4. RanksOK' /\ RegistryOK' /\ UseOK'
  BY <1>1, <1>3, UseKept, FaultCounts DEF RegistryOK
<1>5. HelpersOK'
  BY <1>1, <1>3, HelpersKept
<1>6. LaunchInv'
  BY <1>1, <1>2, <1>3, FailingCall
<1> QED
  BY <1>4, <1>5, <1>6 DEF GpuInv

(* A call that timed out is an error of the launch; its helper may go on. *)
(* Helpers that are killed leave files on their own hosts. *)
LEMMA TornHosts ==
    ASSUME RegistryOK, HelpersOK, partial' \in Torn(helpers \ helpers')
    PROVE  partial' \subseteq Hosts
<1>1. \A x \in helpers : x.host \in Hosts
  BY DEF HelpersOK, HelperOK, Calls
<1> QED
  BY <1>1 DEF RegistryOK, Torn

LEMMA CallTimeoutKeeps == GpuInv /\ CallTimeout => GpuInv'
<1> SUFFICES ASSUME GpuInv, CallTimeout PROVE GpuInv'
  OBVIOUS
<1>1. PICK x \in helpers : /\ Awaited(x) /\ Fault /\ helpers' \subseteq helpers
                           /\ partial' \in Torn(helpers \ helpers')
                           /\ l' = Advance(l, TRUE, None) /\ UNCHANGED <<reg, dir, rival>>
  BY DEF CallTimeout
<1>2. RanksOK /\ RegistryOK /\ UseOK /\ HelpersOK /\ LaunchInv /\ l \in Launching
  BY DEF GpuInv, LaunchInv, ControlOK
<1>3. DirGoes
  BY <1>1, <1>2, DirStands
<1>4. partial' \subseteq Hosts /\ Calling
  BY <1>1, <1>2, TornHosts, WaitingFor
<1>5. RanksOK' /\ RegistryOK' /\ UseOK'
  BY <1>1, <1>2, <1>3, <1>4, UseKept, FaultCounts DEF RegistryOK
<1>6. HelpersOK'
  BY <1>1, <1>2, <1>3, HelpersKept
<1>7. LaunchInv'
  BY <1>1, <1>2, <1>3, <1>4, FailingCall
<1> QED
  BY <1>5, <1>6, <1>7 DEF GpuInv

-----------------------------------------------------------------------------
(* Helpers *)

(* A helper goes on. *)
LEMMA HelperMoves ==
    ASSUME HelpersOK, LaunchInv, DirGoes, l' = l, HoldsStand,
           NEW x \in helpers, NEW y, helpers' = (helpers \ {x}) \cup {y},
           y.root = x.root, y.host = x.host, y.op = x.op,
           y.at = "acquired" /\ y.root = l.root => Held(y.host, l.root)',
           (y.op = "collect" /\ y.at = "read" /\ y.root = l.root /\ l.pc = "collect" /\ ~l.error
            /\ l.kind = "probe") => Confirmed(y.data.receipt)
    PROVE  LaunchInv'
<1>1. ControlOK'
  BY DEF LaunchInv, ControlOK, Calling
<1>2. l.pc # "idle" => l.root \in Roots
  BY DEF LaunchInv, ControlOK, Launching
<1>3. PagesOK'
  <2> SUFFICES ASSUME NEW h \in Hosts, l.got[h] # None
               PROVE  l.pc \in {"collect", "judge"} /\ PageOK(l.got[h], dir'[l.root][h])
    BY DEF PagesOK
  <2>1. l.pc \in {"collect", "judge"} /\ PageOK(l.got[h], dir[l.root][h])
    BY DEF LaunchInv, PagesOK
  <2> QED
    BY <1>2, <2>1, PageStays DEF DirGoes
<1>4. PreparingOK'
  <2> SUFFICES ASSUME l.pc \in {"prepare", "start"} PROVE PreparingOK'
    BY DEF PreparingOK
  <2>1. /\ \A h \in Hosts : Held(h, l.root) => Held(h, l.root)'
        /\ \A z \in helpers : z.host \in Hosts
    BY DEF HoldsStand, HelpersOK, HelperOK, Calls
  <2> QED
    BY <1>2, <2>1 DEF LaunchInv, PreparingOK, DirGoes, Goes
<1>5. CleanOK'
  <2> SUFFICES ASSUME l.pc # "idle", ~l.error PROVE CleanOK'
    BY DEF CleanOK
  <2>1. \A z \in helpers : z.root = l.root =>
          /\ Awaited(z) /\ \A w \in helpers : w.root = l.root => z = w
          /\ z.op = "collect" /\ z.at = "read" /\ l.kind = "probe" => Confirmed(z.data.receipt)
    BY DEF LaunchInv, CleanOK
  <2>2. \A z : Awaited(z)' <=> Awaited(z)
    BY DEF Awaited, Op
  <2>3. ASSUME y.root = l.root
        PROVE  /\ Awaited(y) /\ \A z \in helpers' : z.root = l.root => z = y
               /\ y.op = "collect" => l.pc = "collect"
    <3>1. Awaited(x)
      BY <2>1, <2>3
    <3>2. x.op = "collect" => l.pc = "collect"
      BY <3>1, WaitingFor
    <3> QED
      BY <2>1, <2>3, <3>1, <3>2 DEF Awaited
  <2>4. \A z \in helpers' : z.root = l.root =>
          /\ Awaited(z)' /\ \A w \in helpers' : w.root = l.root => z = w
          /\ z.op = "collect" /\ z.at = "read" /\ l.kind = "probe" => Confirmed(z.data.receipt)
    BY <2>1, <2>2, <2>3
  <2> QED
    BY <1>2, <2>4 DEF LaunchInv, CleanOK, DirGoes, Goes, HoldsStand
<1> QED
  BY <1>1, <1>3, <1>4, <1>5 DEF LaunchInv

LEMMA StepsKeeps ==
    ASSUME GpuInv, DirGoes, UNCHANGED <<reg, l, rival, partial, faults>>,
           NEW x \in helpers, NEW y, helpers' = (helpers \ {x}) \cup {y},
           y.root = x.root, y.host = x.host, y.op = x.op, y.at # "acquired", HelperOK(y)',
           (y.op = "collect" /\ y.at = "read" /\ y.root = l.root /\ l.pc = "collect" /\ ~l.error
            /\ l.kind = "probe") => Confirmed(y.data.receipt)
    PROVE  GpuInv'
<1>1. RanksOK /\ RegistryOK /\ UseOK /\ HelpersOK /\ LaunchInv
  BY DEF GpuInv
<1>2. RanksOK' /\ RegistryOK' /\ UseOK'
  BY <1>1, UseKept DEF RegistryOK
<1>3. HelpersOK'
  BY <1>1, HelpersKept
<1>4. LaunchInv'
  BY <1>1, RegistryStands, HelperMoves
<1> QED
  BY <1>2, <1>3, <1>4 DEF GpuInv

LEMMA RaisesKeeps ==
    ASSUME GpuInv, DirGoes, UNCHANGED <<reg, rival, partial, faults>>, NEW x \in helpers, Raises(x)
    PROVE  GpuInv'
<1>1. /\ RanksOK /\ RegistryOK /\ UseOK /\ HelpersOK /\ LaunchInv /\ l \in Launching
      /\ helpers' \subseteq helpers
      /\ l' = IF Awaited(x) THEN Advance(l, TRUE, None) ELSE l
  BY DEF GpuInv, LaunchInv, ControlOK, Raises, Ends
<1>2. RanksOK' /\ RegistryOK' /\ UseOK'
  BY <1>1, UseKept DEF RegistryOK
<1>3. HelpersOK'
  BY <1>1, HelpersKept
<1>4. LaunchInv'
  <2>1. CASE Awaited(x)
    BY <1>1, <2>1, WaitingFor, FailingCall
  <2>2. CASE ~Awaited(x)
    BY <1>1, <2>2, LaunchStands, RegistryStands
  <2> QED
    BY <2>1, <2>2
<1> QED
  BY <1>2, <1>3, <1>4 DEF GpuInv

(* A helper that stops what may still run has done its work. *)
LEMMA StoppedKeeps ==
    ASSUME GpuInv, DirGoes, UNCHANGED <<reg, rival, partial, faults>>, NEW x \in helpers, Returns(x),
           x.op \in {"cleanup", "cancel"}
    PROVE  GpuInv'
<1>1. /\ RanksOK /\ RegistryOK /\ UseOK /\ HelpersOK /\ LaunchInv /\ ControlOK /\ l \in Launching
      /\ helpers' \subseteq helpers
      /\ l' = IF Awaited(x) THEN Advance(l, FALSE, x.data) ELSE l
  BY DEF GpuInv, LaunchInv, ControlOK, Returns, Ends
<1>2. RanksOK' /\ RegistryOK' /\ UseOK'
  BY <1>1, UseKept DEF RegistryOK
<1>3. HelpersOK'
  BY <1>1, HelpersKept
<1>4. LaunchInv'
  <2>1. CASE Awaited(x)
    <3>1. l.pc = "cleanup" /\ l.todo # <<>> /\ l.error /\ l.prepared # <<>> /\ l.root \in Roots
      BY <1>1, <2>1, WaitingFor DEF ControlOK
    <3> DEFINE n == [l EXCEPT !.todo = Tail(@), !.wait = None, !.error = @ \/ FALSE]
    <3>2. /\ n \in Launching /\ n.pc = "cleanup" /\ n.root = l.root /\ n.error /\ n.wait = None
          /\ n.todo = Tail(l.todo) /\ n.got = l.got /\ n.prepared = l.prepared
      BY <1>1, <3>1, CallEnds
    <3>3. l' = IF n.todo # <<>> THEN n ELSE [n EXCEPT !.pc = "collect", !.todo = l.prepared]
      BY <1>1, <2>1, <3>1 DEF Advance
    <3> HIDE DEF n
    <3>4. /\ l' \in Launching /\ l'.pc \in {"cleanup", "collect"} /\ l'.root = l.root /\ l'.error
          /\ l'.wait = None /\ l'.todo # <<>> /\ l'.got = l.got /\ l'.prepared # <<>>
      <4>1. CASE n.todo # <<>>
        BY <3>1, <3>2, <3>3, <4>1
      <4>2. CASE n.todo = <<>>
        <5>1. l' = [n EXCEPT !.pc = "collect", !.todo = l.prepared] /\ l.prepared \in Seq(Hosts)
          BY <1>1, <3>3, <4>2 DEF Launching
        <5>2. /\ l' \in Launching /\ l'.pc = "collect" /\ l'.root = n.root /\ l'.error = n.error
              /\ l'.wait = n.wait /\ l'.todo = l.prepared /\ l'.got = n.got /\ l'.prepared = n.prepared
          BY <3>2, <5>1 DEF Launching
        <5> QED
          BY <3>1, <3>2, <5>2
      <4> QED
        BY <4>1, <4>2
    <3>5. ControlOK'
      BY <3>1, <3>4, NoneIsNothing DEF ControlOK, Calling
    <3> QED
      BY <1>1, <3>1, <3>4, <3>5, ErrorKeeps
  <2>2. CASE ~Awaited(x)
    BY <1>1, <2>2, LaunchStands, RegistryStands
  <2> QED
    BY <2>1, <2>2
<1> QED
  BY <1>2, <1>3, <1>4 DEF GpuInv

(* Steps of a helper that leave the registry alone. *)
LEMMA HelperWrites ==
    ASSUME GpuInv, NEW x \in helpers, UNCHANGED <<partial, rival, faults>>,
           \/ CancelStops(x) \/ CancelCertifies(x)
           \/ CleanupStops(x) \/ CleanupSignals(x) \/ CleanupLooks(x) \/ CollectReads(x)
    PROVE  GpuInv'
<1> DEFINE d == dir[x.root][x.host]
<1>1. /\ RanksOK /\ HelpersOK /\ LaunchInv /\ HelperOK(x) /\ x \in Calls
      /\ x.root \in Roots /\ x.host \in Hosts
  BY DEF GpuInv, HelpersOK, HelperOK, Calls
<1>2. RankOK(d)
  BY <1>1 DEF RanksOK
<1>3. CASE CancelStops(x) \/ CleanupStops(x)
  <2>1. /\ dir' = [dir EXCEPT ![x.root][x.host] = [d EXCEPT !.stop = TRUE]]
        /\ UNCHANGED <<reg, l>> /\ x.op \in {"cancel", "cleanup"}
        /\ helpers' = (helpers \ {x}) \cup {[x EXCEPT !.at = "stopped", !.data = None]}
    BY <1>3 DEF CancelStops, CleanupStops, Put, Steps
  <2>2. Goes(d, [d EXCEPT !.stop = TRUE])
    BY <1>2, HelperGoes
  <2>3. DirGoes
    BY <1>1, <2>1, <2>2, OneRankGoes
  <2>4. dir'[x.root][x.host].stop
    BY <1>1, <2>1 DEF RanksOK, Ranks
  <2>5. PICK y : y = [x EXCEPT !.at = "stopped", !.data = None]
    OBVIOUS
  <2>6. /\ y \in Calls /\ y.root = x.root /\ y.host = x.host /\ y.op = x.op /\ y.at = "stopped"
    BY <1>1, <2>5 DEF Calls
  <2>7. HelperOK(y)'
    BY <2>4, <2>6 DEF HelperOK
  <2>8. UNCHANGED <<reg, l, rival, partial, faults>> /\ helpers' = (helpers \ {x}) \cup {y}
    BY <2>1, <2>5
  <2>9. y.at # "acquired" /\
        ((y.op = "collect" /\ y.at = "read" /\ y.root = l.root /\ l.pc = "collect" /\ ~l.error
            /\ l.kind = "probe") => Confirmed(y.data.receipt))
    BY <2>6
  <2> QED
    BY <2>3, <2>6, <2>7, <2>8, <2>9, StepsKeeps
<1>4. CASE CancelCertifies(x)
  <2>1. /\ dir' = [dir EXCEPT ![x.root][x.host] = [d EXCEPT !.notStarted = NoRanks(d)]]
        /\ reg' = reg /\ x.op = "cancel" /\ d.stop /\ Ends(x, ~NoRanks(d))
    BY <1>1, <1>4 DEF CancelCertifies, Put, HelperOK
  <2>2. Goes(d, [d EXCEPT !.notStarted = NoRanks(d)])
    BY <1>2, <2>1, HelperGoes
  <2>3. DirGoes
    BY <1>1, <2>1, <2>2, OneRankGoes
  <2>4. CASE NoRanks(d)
    <3>1. Returns(x)
      BY <2>1, <2>4 DEF Returns
    <3> QED
      BY <2>1, <2>3, <3>1, StoppedKeeps
  <2>5. CASE ~NoRanks(d)
    <3>1. Raises(x)
      BY <2>1, <2>5 DEF Raises
    <3> QED
      BY <2>1, <2>3, <3>1, RaisesKeeps
  <2> QED
    BY <2>4, <2>5
<1>5. CASE CleanupSignals(x)
  <2>1. /\ dir' = [dir EXCEPT ![x.root][x.host] = [d EXCEPT !.native = "failed"]]
        /\ UNCHANGED <<reg, helpers, l>> /\ Alive(d)
    BY <1>5 DEF CleanupSignals, Put
  <2>2. Goes(d, [d EXCEPT !.native = "failed"])
    BY <1>2, <2>1, RankGoes
  <2>3. DirGoes
    BY <1>1, <2>1, <2>2, OneRankGoes
  <2> QED
    BY <2>1, <2>3, RanksOnly DEF GpuInv, RegistryOK
<1>6. CASE CleanupLooks(x)
  <2>1. /\ dir' = [dir EXCEPT ![x.root][x.host] = Reconciled(d)]
        /\ reg' = reg /\ x.op = "cleanup" /\ Returns(x)
    BY <1>6 DEF CleanupLooks, Put
  <2>2. Goes(d, Reconciled(d))
    BY <1>2, HelperGoes
  <2>3. DirGoes
    BY <1>1, <2>1, <2>2, OneRankGoes
  <2> QED
    BY <2>1, <2>3, StoppedKeeps
<1>7. CASE CollectReads(x)
  <2>1. PICK e, y : e = Reconciled(d) /\ y = [x EXCEPT !.at = "read", !.data = Page(e)]
    OBVIOUS
  <2>2. /\ dir' = [dir EXCEPT ![x.root][x.host] = e]
        /\ UNCHANGED <<reg, l>> /\ x.op = "collect" /\ helpers' = (helpers \ {x}) \cup {y}
    BY <1>7, <2>1 DEF CollectReads, Put, Steps
  <2>3. Goes(d, e) /\ RankOK(e)
    BY <1>2, <2>1, HelperGoes DEF Goes
  <2>4. DirGoes /\ dir'[x.root][x.host] = e
    BY <1>1, <2>2, <2>3, OneRankGoes DEF RanksOK
  <2>5. Page(e) \in Pages /\ PageOK(Page(e), e) /\ (ExitedZero(e) => Confirmed(Page(e).receipt))
    BY <2>3, PageReads
  <2>6. /\ y \in Calls /\ y.root = x.root /\ y.host = x.host /\ y.op = "collect" /\ y.at = "read"
        /\ y.data = Page(e)
    BY <1>1, <2>1, <2>2, <2>5 DEF Calls
  <2>7. HelperOK(y)'
    BY <2>4, <2>5, <2>6, NoneIsNothing DEF HelperOK
  <2>8. (y.op = "collect" /\ y.at = "read" /\ y.root = l.root /\ l.pc = "collect" /\ ~l.error
         /\ l.kind = "probe") => Confirmed(y.data.receipt)
    <3> SUFFICES ASSUME y.root = l.root, l.pc = "collect", ~l.error, l.kind = "probe"
                 PROVE  ExitedZero(e)
      BY <2>5, <2>6
    <3>1. ExitedZero(d)
      BY <1>1, <2>6 DEF LaunchInv, CleanOK
    <3> QED
      BY <2>3, <3>1 DEF Goes
  <2>9. UNCHANGED <<reg, l, rival, partial, faults>> /\ y.at # "acquired" /\ y.op = x.op
    BY <2>2, <2>6
  <2> QED
    BY <2>2, <2>4, <2>6, <2>7, <2>8, <2>9, StepsKeeps
<1> QED
  BY <1>3, <1>4, <1>5, <1>6, <1>7

(* _prepare takes a GPU that is free or that its own launch has. *)
LEMMA AcquireKeeps ==
    ASSUME RegistryOK, UseOK, NEW g \in Hosts, NEW owner \in Roots \cup {Rival}, MayAcquire(g, owner),
           reg' = Acquired(g, owner), dir' = dir, UNCHANGED <<partial, faults>>,
           \A h \in Hosts : rival'[h] = "running" => rival[h] = "running" \/ (h = g /\ owner = Rival),
           rival' \in [Hosts -> {"none", "running"}]
    PROVE  /\ RegistryOK' /\ UseOK' /\ Held(g, owner)'
           /\ \A h \in Hosts, r \in Roots :
                /\ Held(h, r) => Held(h, r)'
                /\ r # owner => (Held(h, r)' => Held(h, r))
<1>1. \A h \in Hosts : reg'[h] = IF h = g THEN [owner |-> owner, state |-> "active"] ELSE reg[h]
  BY DEF RegistryOK, Acquired
<1>2. reg' \in [Hosts -> [owner : Roots \cup {Rival, None}, state : {"active", "released", "quarantined"}]]
  BY <1>1 DEF RegistryOK, Acquired
<1>3. \A h \in Hosts : \A r : /\ Held(h, r) => Held(h, r)'
                              /\ r # owner => (Held(h, r)' => Held(h, r))
  BY <1>1 DEF Held, MayAcquire
<1>4. Held(g, owner)'
  BY <1>1 DEF Held
<1>5. UseOK'
  BY <1>3, <1>4 DEF UseOK
<1> QED
  BY <1>2, <1>3, <1>4, <1>5 DEF RegistryOK

(* The registry gives a GPU to a launch only if no other holds it. *)
LEMMA PrepareAcquiresKeeps ==
    ASSUME GpuInv, NEW x \in helpers, UNCHANGED <<partial, rival, faults>>, PrepareAcquires(x)
    PROVE  GpuInv'
<1>1. /\ RanksOK /\ RegistryOK /\ UseOK /\ HelpersOK /\ LaunchInv /\ x \in Calls
      /\ x.root \in Roots /\ x.host \in Hosts /\ x.op = "prepare" /\ dir' = dir
  BY DEF GpuInv, HelpersOK, HelperOK, Calls, PrepareAcquires
<1>2. DirGoes
  BY <1>1, DirStands
<1>3. CASE Raises(x) /\ reg' = reg
  BY <1>2, <1>3, RaisesKeeps
<1>4. CASE MayAcquire(x.host, x.root) /\ Steps(x, "acquired", None) /\ reg' = Acquired(x.host, x.root)
  <2>1. PICK y : y = [x EXCEPT !.at = "acquired", !.data = None]
    OBVIOUS
  <2>2. helpers' = (helpers \ {x}) \cup {y} /\ l' = l
    BY <1>4, <2>1 DEF Steps
  <2>3. /\ y \in Calls /\ y.root = x.root /\ y.host = x.host /\ y.op = "prepare" /\ y.at = "acquired"
    BY <1>1, <2>1 DEF Calls
  <2>4. /\ RegistryOK' /\ UseOK' /\ Held(x.host, x.root)'
        /\ \A h \in Hosts, r \in Roots :
             /\ Held(h, r) => Held(h, r)'
             /\ r # x.root => (Held(h, r)' => Held(h, r))
    BY <1>1, <1>4, AcquireKeeps DEF RegistryOK
  <2>5. HelperOK(y)'
    BY <2>3 DEF HelperOK
  <2>6. HelpersOK'
    BY <1>1, <1>2, <2>2, <2>5, HelpersKept
  <2>7. HoldsStand
    <3>1. l.pc # "idle" => l.root \in Roots
      BY <1>1 DEF LaunchInv, ControlOK, Launching
    <3>2. \A h : Held(h, l.root)' <=> (reg'[h].owner = l.root /\ reg'[h].state # "released")
      BY <2>2 DEF Held
    <3>3. l.pc \in {"collect", "judge"} /\ ~l.error => l.root # x.root
      <4> SUFFICES ASSUME l.pc \in {"collect", "judge"}, ~l.error, l.root = x.root PROVE FALSE
        OBVIOUS
      <4>1. Awaited(x)
        BY <1>1 DEF LaunchInv, CleanOK
      <4> QED
        BY <1>1, <4>1, WaitingFor
    <3> QED
      BY <2>4, <3>1, <3>2, <3>3 DEF HoldsStand, Held
  <2>8. y.root = l.root => Held(y.host, l.root)'
    BY <2>2, <2>3, <2>4 DEF Held
  <2>9. LaunchInv'
    BY <1>1, <1>2, <2>2, <2>3, <2>7, <2>8, HelperMoves
  <2>10. RanksOK'
    BY <1>1 DEF RanksOK
  <2> QED
    BY <2>4, <2>6, <2>9, <2>10 DEF GpuInv
<1> QED
  BY <1>3, <1>4 DEF PrepareAcquires

LEMMA OneLess ==
    ASSUME NEW S, NEW s \in Seq(S), s # <<>>, NEW g \in Range(s)
    PROVE  g = Head(s) \/ g \in Range(Tail(s))
<1>1. PICK i \in 1 .. Len(s) : g = s[i]
  BY DEF Range
<1>2. CASE i = 1
  BY <1>1, <1>2
<1>3. CASE i # 1
  <2>1. i - 1 \in 1 .. Len(Tail(s)) /\ Tail(s)[i - 1] = s[i]
    BY <1>3
  <2>2. i - 1 \in DOMAIN Tail(s)
    BY <2>1
  <2> QED
    BY <1>1, <2>1, <2>2 DEF Range
<1> QED
  BY <1>2, <1>3

LEMMA OneMore ==
    ASSUME NEW S, NEW s \in Seq(S), NEW e \in S, NEW g, g \in Range(s) \/ g = e
    PROVE  g \in Range(Append(s, e))
<1>1. \E i \in 1 .. (Len(s) + 1) : g = Append(s, e)[i]
  <2>1. CASE g = e
    BY <2>1
  <2>2. CASE g \in Range(s)
    BY <2>2 DEF Range
  <2> QED
    BY <2>1, <2>2
<1>2. DOMAIN Append(s, e) = 1 .. (Len(s) + 1)
  OBVIOUS
<1> QED
  BY <1>1, <1>2 DEF Range

(* A host more is prepared. *)
LEMMA PrepareRecordsKeeps ==
    ASSUME GpuInv, NEW x \in helpers, UNCHANGED <<partial, rival, faults>>, PrepareRecords(x)
    PROVE  GpuInv'
<1> DEFINE d == dir[x.root][x.host]
<1>1. /\ RanksOK /\ RegistryOK /\ UseOK /\ HelpersOK /\ LaunchInv /\ x \in Calls
      /\ x.root \in Roots /\ x.host \in Hosts /\ x.op = "prepare" /\ x.at = "acquired" /\ reg' = reg
      /\ dir' = [dir EXCEPT ![x.root][x.host] = [d EXCEPT !.prep = TRUE]]
      /\ helpers' = helpers \ {x} /\ l' = IF Awaited(x) THEN Advance(l, FALSE, x.data) ELSE l
  BY DEF GpuInv, HelpersOK, HelperOK, Calls, PrepareRecords, Put, Returns, Ends
<1>2. DirGoes
  <2>1. Goes(d, [d EXCEPT !.prep = TRUE])
    BY <1>1, HelperGoes DEF RanksOK
  <2> QED
    BY <1>1, <2>1, OneRankGoes
<1>3. RanksOK' /\ RegistryOK' /\ UseOK'
  BY <1>1, <1>2, UseKept DEF RegistryOK
<1>4. HelpersOK'
  BY <1>1, <1>2, HelpersKept
<1>5. LaunchInv'
  <2>1. CASE ~Awaited(x)
    BY <1>1, <1>2, <2>1, LaunchStands, RegistryStands
  <2>2. CASE Awaited(x)
    <3> DEFINE h == Head(l.todo)
               n == [l EXCEPT !.todo = Tail(@), !.wait = None, !.error = @ \/ FALSE]
    <3>1. /\ ControlOK /\ PreparingOK /\ CleanOK /\ PagesOK /\ l \in Launching
          /\ l.pc = "prepare" /\ l.todo # <<>> /\ x.host = h /\ l.root \in Roots /\ ~l.error
          /\ x.root = l.root /\ Held(h, l.root)
      BY <1>1, <2>2, WaitingFor DEF LaunchInv, ControlOK, PreparingOK, Awaited
    <3>2. /\ n \in Launching /\ n.pc = "prepare" /\ n.root = l.root /\ ~n.error /\ n.wait = None
          /\ n.todo = Tail(l.todo) /\ n.got = l.got /\ n.prepared = l.prepared /\ h \in Hosts
      BY <3>1, CallEnds
    <3>3. l' = [n EXCEPT !.prepared = Append(@, h), !.pc = IF n.todo # <<>> THEN @ ELSE "start"]
      BY <1>1, <2>2, <3>1 DEF Advance
    <3> HIDE DEF n
    <3>4. Append(n.prepared, h) \in Seq(Hosts)
      BY <3>2 DEF Launching
    <3>5. /\ l' \in Launching /\ l'.pc = (IF n.todo # <<>> THEN "prepare" ELSE "start")
          /\ l'.root = l.root /\ ~l'.error /\ l'.wait = None /\ l'.todo = n.todo /\ l'.got = l.got
          /\ l'.prepared = Append(l.prepared, h)
      BY <3>2, <3>3, <3>4 DEF Launching
    <3>6. ControlOK'
      BY <3>1, <3>5, NoneIsNothing DEF ControlOK, Calling
    <3>7. \A y \in helpers' : y.root # l.root
      BY <1>1, <3>1 DEF CleanOK
    <3>8. /\ \A g \in Hosts : g \in Range(l.todo) => g = h \/ g \in Range(l'.todo)
          /\ \A g \in Hosts : g \in Range(l.prepared) \/ g = h => g \in Range(l'.prepared)
      <4>1. l.todo \in Seq(Hosts) /\ l.prepared \in Seq(Hosts)
        BY <3>1 DEF Launching
      <4>2. \A g \in Hosts : g \in Range(l.todo) => g = h \/ g \in Range(Tail(l.todo))
        BY <3>1, <4>1, OneLess
      <4>3. \A g \in Hosts : g \in Range(l.prepared) \/ g = h => g \in Range(Append(l.prepared, h))
        BY <3>2, <4>1, OneMore
      <4> QED
        BY <3>2, <3>5, <4>2, <4>3
    <3>9. PreparingOK'
      <4>1. \A g \in Hosts : g \in Range(l.todo) \/ (g \in Range(l.prepared) /\ Held(g, l.root))
        BY <3>1 DEF PreparingOK
      <4>2. \A g \in Hosts : g \in Range(l'.todo) \/ (g \in Range(l'.prepared) /\ Held(g, l.root))
        BY <3>1, <3>8, <4>1
      <4>3. \A g \in Hosts : Held(g, l.root) => Held(g, l.root)'
        BY <1>1, <3>5 DEF Held
      <4>4. \A g \in Hosts : dir'[l.root][g].wrapper = "none"
        BY <1>2, <3>1 DEF PreparingOK, DirGoes, Goes
      <4> QED
        BY <3>5, <3>7, <4>2, <4>3, <4>4 DEF PreparingOK
    <3>10. CleanOK'
      BY <3>5, <3>7 DEF CleanOK
    <3>11. PagesOK'
      BY <3>1, <3>5 DEF PagesOK
    <3> QED
      BY <3>6, <3>9, <3>10, <3>11 DEF LaunchInv
  <2> QED
    BY <2>1, <2>2
<1> QED
  BY <1>3, <1>4, <1>5 DEF GpuInv

(* A GPU is given back, by the launch that has it, only when that launch can *)
(* no longer use it.                                                         *)
LEMMA FinishKeeps ==
    ASSUME RegistryOK, UseOK, NEW g \in Hosts, NEW done \in BOOLEAN, reg' = Finished(g, done, done),
           dir' = dir, UNCHANGED <<partial, faults>>,
           done => \A r \in Roots : r = reg[g].owner => ~MayUse(dir[r][g]),
           done /\ reg[g].owner = Rival => rival'[g] # "running",
           \A h \in Hosts : rival'[h] = "running" => rival[h] = "running",
           rival' \in [Hosts -> {"none", "running"}]
    PROVE  /\ RegistryOK' /\ UseOK' /\ (done => reg'[g].state = "released")
           /\ \A h \in Hosts : \A r : h # g \/ r # reg[g].owner => (Held(h, r)' <=> Held(h, r))
<1>1. \A h \in Hosts : /\ reg'[h].owner = reg[h].owner
                       /\ reg'[h].state = IF h = g THEN IF done THEN "released" ELSE "quarantined"
                                          ELSE reg[h].state
  BY DEF RegistryOK, Finished
<1>2. reg' \in [Hosts -> [owner : Roots \cup {Rival, None}, state : {"active", "released", "quarantined"}]]
  BY DEF RegistryOK, Finished
<1>3. \A h \in Hosts : \A r : h # g \/ r # reg[g].owner => (Held(h, r)' <=> Held(h, r))
  BY <1>1 DEF Held
<1>4. \A h \in Hosts : \A r : h = g /\ ~done /\ Held(h, r) => Held(h, r)'
  BY <1>1 DEF Held
<1>5. UseOK'
  BY <1>3, <1>4, RootAssumption DEF UseOK
<1> QED
  BY <1>1, <1>2, <1>3, <1>5 DEF RegistryOK

(* The registry gives a GPU back only on a page that settles the rank. *)
LEMMA CollectFinishesKeeps ==
    ASSUME GpuInv, NEW x \in helpers, UNCHANGED <<partial, rival, faults>>, CollectFinishes(x)
    PROVE  GpuInv'
<1>1. /\ RanksOK /\ RegistryOK /\ UseOK /\ HelpersOK /\ LaunchInv /\ x \in Calls /\ HelperOK(x)
      /\ x.root \in Roots /\ x.host \in Hosts /\ x.op = "collect" /\ x.at = "read" /\ dir' = dir
      /\ x.data # None /\ x.data \in Pages /\ PageOK(x.data, dir[x.root][x.host])
  BY DEF GpuInv, HelpersOK, HelperOK, Calls, CollectFinishes
<1>2. DirGoes
  BY <1>1, DirStands
<1>3. CASE Raises(x) /\ reg' = reg
  BY <1>2, <1>3, RaisesKeeps
<1>4. CASE /\ reg[x.host].owner = x.root /\ Returns(x)
           /\ reg' = Finished(x.host, Settled(x.data), Settled(x.data))
  <2>1. helpers' = helpers \ {x} /\ l' = IF Awaited(x) THEN Advance(l, FALSE, x.data) ELSE l
    BY <1>4 DEF Returns, Ends
  <2> DEFINE done == Settled(x.data)
  <2>2. done \in BOOLEAN /\ (done => ~MayUse(dir[x.root][x.host]))
        /\ reg' = Finished(x.host, done, done)
    BY <1>1, <1>4 DEF PageOK, Settled, Pages
  <2> HIDE DEF done
  <2>3. /\ RegistryOK' /\ UseOK' /\ (done => reg'[x.host].state = "released")
        /\ \A h \in Hosts : \A r : h # x.host \/ r # x.root => (Held(h, r)' <=> Held(h, r))
    <3>1. /\ done => \A r \in Roots : r = reg[x.host].owner => ~MayUse(dir[r][x.host])
          /\ done /\ reg[x.host].owner = Rival => rival'[x.host] # "running"
          /\ \A h \in Hosts : rival'[h] = "running" => rival[h] = "running"
          /\ rival' \in [Hosts -> {"none", "running"}]
      BY <1>1, <1>4, <2>2, RootAssumption DEF RegistryOK
    <3>2. /\ RegistryOK' /\ UseOK' /\ (done => reg'[x.host].state = "released")
          /\ \A h \in Hosts : \A r : h # x.host \/ r # reg[x.host].owner => (Held(h, r)' <=> Held(h, r))
      BY <1>1, <2>2, <3>1, FinishKeeps
    <3> QED
      BY <1>4, <3>2
  <2>4. RanksOK' /\ HelpersOK'
    BY <1>1, <1>2, <2>1, HelpersKept DEF RanksOK
  <2>5. CASE ~Awaited(x)
    <3>1. l' = l /\ helpers' \subseteq helpers
      BY <2>1, <2>5
    <3>2. l.pc \in {"prepare", "start", "collect", "judge"} /\ ~l.error => x.root # l.root
      BY <1>1, <2>5 DEF LaunchInv, CleanOK
    <3>3. l.pc \in {"prepare", "start"} => ~l.error
      BY <1>1 DEF LaunchInv, ControlOK
    <3>4. HoldsStand
      BY <2>3, <3>1, <3>2, <3>3 DEF HoldsStand, Held
    <3>5. LaunchInv'
      BY <1>1, <1>2, <3>1, <3>4, LaunchStands
    <3> QED
      BY <2>3, <2>4, <3>5 DEF GpuInv
  <2>6. CASE Awaited(x)
    <3>0. PICK h : h = Head(l.todo)
      OBVIOUS
    <3> DEFINE n == [l EXCEPT !.todo = Tail(@), !.wait = None, !.error = @ \/ FALSE]
    <3>1. /\ ControlOK /\ CleanOK /\ PagesOK /\ l \in Launching /\ l.root # None
          /\ l.pc = "collect" /\ l.todo # <<>> /\ x.host = h /\ l.root \in Roots /\ x.root = l.root
      BY <1>1, <2>6, <3>0, WaitingFor, NoneIsNothing DEF LaunchInv, ControlOK, Awaited
    <3>2. /\ n \in Launching /\ n.pc = "collect" /\ n.root = l.root /\ n.error = l.error /\ n.wait = None
          /\ n.todo = Tail(l.todo) /\ n.got = l.got /\ n.prepared = l.prepared /\ h \in Hosts
          /\ n.kind = l.kind /\ n.started = l.started
      <4>1. l.error \in BOOLEAN
        BY <3>1 DEF Launching
      <4>2. (l.error \/ FALSE) = l.error
        BY <4>1
      <4>3. /\ n \in Launching /\ n.pc = "collect" /\ n.root = l.root /\ n.error = (l.error \/ FALSE)
            /\ n.wait = None /\ n.todo = Tail(l.todo) /\ n.got = l.got /\ n.prepared = l.prepared
            /\ h \in Hosts /\ n.kind = l.kind /\ n.started = l.started
        BY <3>0, <3>1, CallEnds
      <4> HIDE DEF n
      <4> QED
        BY <4>2, <4>3
    <3>3. l' = [n EXCEPT !.got[h] = x.data, !.pc = IF n.todo # <<>> THEN @ ELSE "judge"]
      BY <2>1, <2>6, <3>0, <3>1 DEF Advance
    <3> HIDE DEF n
    <3>4. /\ l' \in Launching /\ l'.pc = (IF n.todo # <<>> THEN "collect" ELSE "judge")
          /\ l'.root = l.root /\ l'.error = l.error /\ l'.wait = None /\ l'.todo = Tail(l.todo)
          /\ l'.prepared = l.prepared /\ l'.kind = l.kind /\ l'.started = l.started
          /\ \A g \in Hosts : l'.got[g] = IF g = h THEN x.data ELSE l.got[g]
      BY <1>1, <3>2, <3>3 DEF Launching
    <3>5. ControlOK'
      BY <3>1, <3>2, <3>4, NoneIsNothing DEF ControlOK, Calling
    <3>6. PreparingOK'
      BY <3>4 DEF PreparingOK
    <3>7. PagesOK'
      BY <1>1, <3>1, <3>4 DEF PagesOK
    <3>8. CleanOK'
      <4> SUFFICES ASSUME ~l.error PROVE CleanOK'
        BY <3>4 DEF CleanOK
      <4>1. \A y \in helpers' : y.root # l.root
        BY <2>1, <3>1 DEF CleanOK
      <4>2. \A g \in Hosts : g \in Range(l'.todo) \/ l'.got[g] # None
        <5>1. l.todo \in Seq(Hosts)
          BY <3>1 DEF Launching
        <5>2. \A g \in Hosts : g \in Range(l.todo) => g = h \/ g \in Range(Tail(l.todo))
          BY <3>0, <3>1, <5>1, OneLess
        <5> QED
          BY <1>1, <3>1, <3>4, <5>2 DEF CleanOK
      <4>3. l.kind = "probe" => Confirmed(x.data.receipt)
        BY <1>1, <3>1 DEF CleanOK
      <4>4. Confirmed(x.data.receipt) => ~Held(h, l.root)'
        <5> SUFFICES ASSUME Confirmed(x.data.receipt) PROVE ~Held(h, l.root)'
          OBVIOUS
        <5>1. done
          BY DEF done, Settled
        <5> QED
          BY <2>3, <3>1, <5>1 DEF Held
      <4>5. \A g \in Hosts : g # h => (Held(g, l.root)' <=> Held(g, l.root))
        BY <2>3, <3>1, <3>4 DEF Held
      <4>6. \A g \in Hosts : l'.got[g] # None =>
              /\ l.kind = "probe" => Confirmed(l'.got[g].receipt)
              /\ Confirmed(l'.got[g].receipt) => ~Held(g, l.root)'
        BY <3>1, <3>4, <4>3, <4>4, <4>5 DEF CleanOK
      <4>7. l.kind = "probe" => \A g \in Hosts : ExitedZero(dir[l.root][g])
        BY <3>1 DEF CleanOK
      <4> QED
        BY <1>1, <3>4, <4>1, <4>2, <4>6, <4>7 DEF CleanOK
    <3> QED
      BY <2>3, <2>4, <3>5, <3>6, <3>7, <3>8 DEF GpuInv, LaunchInv
  <2> QED
    BY <2>5, <2>6
<1> QED
  BY <1>3, <1>4 DEF CollectFinishes

LEMMA HelperStepKeeps == GpuInv /\ HelperStep => GpuInv'
BY HelperWrites, PrepareAcquiresKeeps, PrepareRecordsKeeps, CollectFinishesKeeps DEF HelperStep

-----------------------------------------------------------------------------
(* mpirun *)

(* mpirun starts when every host was prepared, so every GPU is held. *)
LEMMA StartMpiKeeps == GpuInv /\ StartMpi => GpuInv'
<1> SUFFICES ASSUME GpuInv, StartMpi PROVE GpuInv'
  OBVIOUS
<1>1. /\ RanksOK /\ RegistryOK /\ UseOK /\ HelpersOK /\ ControlOK /\ PreparingOK /\ CleanOK /\ PagesOK
      /\ l.pc = "start" /\ l \in Launching /\ UNCHANGED <<reg, partial, helpers, rival, faults>>
      /\ l' = [l EXCEPT !.pc = "mpi", !.started = TRUE]
      /\ dir' = [dir EXCEPT ![l.root] = [h \in Hosts |-> [@[h] EXCEPT !.wrapper = "spawned"]]]
  BY DEF GpuInv, LaunchInv, StartMpi, ControlOK
<1>2. PICK r : r = l.root
  OBVIOUS
<1>3. r \in Roots /\ l.todo = <<>> /\ ~l.error /\ l.wait = None
  BY <1>1, <1>2 DEF ControlOK, Launching, Calling
<1>4. /\ l' \in Launching /\ l'.pc = "mpi" /\ l'.root = r /\ l'.todo = <<>> /\ l'.wait = None
      /\ ~l'.error /\ l'.prepared = l.prepared /\ l'.got = l.got /\ l'.started
  BY <1>1, <1>2, <1>3 DEF Launching
<1>5. \A h \in Hosts : /\ dir[r][h].wrapper = "none" /\ Held(h, r) /\ h \in Range(l.prepared)
  BY <1>1, <1>2, <1>3 DEF PreparingOK, Range
<1>6. \A q \in Roots, h \in Hosts :
        dir'[q][h] = IF q = r THEN [dir[q][h] EXCEPT !.wrapper = "spawned"] ELSE dir[q][h]
  BY <1>1, <1>2, <1>3 DEF RanksOK
<1>7. \A h \in Hosts : RankOK([dir[r][h] EXCEPT !.wrapper = "spawned"])
  <2> SUFFICES ASSUME NEW d, RankOK(d), d.wrapper = "none"
               PROVE  RankOK([d EXCEPT !.wrapper = "spawned"])
    BY <1>1, <1>3, <1>5 DEF RanksOK
  <2> QED
    BY DEF RankOK, Ranks, Alive
<1>8. RanksOK'
  <2>1. \A h \in Hosts : [dir[r][h] EXCEPT !.wrapper = "spawned"] \in Ranks
    BY <1>7 DEF RankOK
  <2>2. dir' \in [Roots -> [Hosts -> Ranks]]
    BY <1>1, <1>2, <2>1 DEF RanksOK
  <2> QED
    BY <1>1, <1>6, <1>7, <2>2 DEF RanksOK
<1>9. RegistryOK' /\ UseOK'
  <2>1. \A q \in Roots, h \in Hosts : MayUse(dir'[q][h]) => Held(h, q)
    BY <1>1, <1>5, <1>6 DEF UseOK
  <2> QED
    BY <1>1, <2>1 DEF UseOK, RegistryOK, Held
<1>10. \A x \in helpers : x.root # r
  BY <1>1, <1>2, <1>3, NoneIsNothing DEF CleanOK, Awaited, HelpersOK, HelperOK, Calls
<1>11. HelpersOK'
  BY <1>1, <1>6, <1>10 DEF HelpersOK, HelperOK, Calls
<1>12. ControlOK' /\ PreparingOK'
  BY <1>3, <1>4, NoneIsNothing DEF ControlOK, Calling, PreparingOK
<1>13. CleanOK' /\ PagesOK'
  BY <1>1, <1>4, <1>5, <1>10 DEF CleanOK, PagesOK
<1> QED
  BY <1>8, <1>9, <1>11, <1>12, <1>13 DEF GpuInv, LaunchInv

(* The launch is over before its time; its hosts have to be cleaned up. *)
LEMMA ToCleanupKeeps ==
    ASSUME LaunchInv, DirGoes, l.pc \in {"start", "mpi"}, NEW k \in Launching, k.root = l.root,
           k.wait = None, k.got = l.got, k.error, l' = ToCleanup(k)
    PROVE  LaunchInv'
<1>1. /\ l' \in Launching /\ l'.root = k.root /\ l'.error = k.error /\ l'.prepared = k.prepared
      /\ l'.got = k.got /\ l'.wait = None /\ l'.todo = k.prepared
      /\ l'.pc = IF k.prepared = <<>> THEN "judge" ELSE IF NeedsCleanup(k) THEN "cleanup" ELSE "collect"
  BY ToCleanupGoes
<1>2. l.root # None
  BY DEF LaunchInv, ControlOK
<1>3. ControlOK'
  BY <1>1, <1>2 DEF ControlOK, Calling
<1> QED
  BY <1>1, <1>2, <1>3, ErrorKeeps

LEMMA MpiFailsKeeps == GpuInv /\ (MpiRefused \/ MpiTimeout) => GpuInv'
<1> SUFFICES ASSUME GpuInv, MpiRefused \/ MpiTimeout PROVE GpuInv'
  OBVIOUS
<1>1. /\ RanksOK /\ RegistryOK /\ UseOK /\ HelpersOK /\ LaunchInv /\ ControlOK /\ l \in Launching
      /\ l.pc \in {"start", "mpi"} /\ Fault /\ UNCHANGED <<reg, partial, helpers, rival>>
  BY DEF GpuInv, LaunchInv, ControlOK, MpiRefused, MpiTimeout
<1>2. l.root \in Roots /\ l.wait = None
  BY <1>1 DEF ControlOK, Launching, Calling
<1>3. DirGoes
  <2>1. CASE MpiRefused
    BY <1>1, <2>1, DirStands DEF MpiRefused
  <2>2. CASE MpiTimeout
    BY <1>1, <1>2, <2>2, KillingGoes DEF MpiTimeout
  <2> QED
    BY <2>1, <2>2
<1>4. \E k \in Launching : /\ k.root = l.root /\ k.wait = None /\ k.got = l.got /\ k.error
                           /\ l' = ToCleanup(k)
  <2>1. CASE MpiRefused
    <3> DEFINE k == [l EXCEPT !.started = TRUE, !.error = TRUE, !.fatal = TRUE, !.launcher = FALSE]
    <3>1. k \in Launching /\ k.root = l.root /\ k.wait = None /\ k.got = l.got /\ k.error
      BY <1>1, <1>2 DEF Launching
    <3>2. l' = ToCleanup(k)
      BY <2>1 DEF MpiRefused
    <3> QED
      BY <3>1, <3>2
  <2>2. CASE MpiTimeout
    <3>1. PICK clean \in BOOLEAN : l' = ToCleanup([l EXCEPT !.error = TRUE, !.launcher = clean])
      BY <2>2 DEF MpiTimeout
    <3> DEFINE k == [l EXCEPT !.error = TRUE, !.launcher = clean]
    <3>2. k \in Launching /\ k.root = l.root /\ k.wait = None /\ k.got = l.got /\ k.error
      BY <1>1, <1>2 DEF Launching
    <3> QED
      BY <3>1, <3>2
  <2> QED
    BY <2>1, <2>2
<1>5. LaunchInv'
  BY <1>1, <1>3, <1>4, ToCleanupKeeps
<1>6. HelpersOK'
  BY <1>1, <1>3, HelpersKept
<1>7. RanksOK' /\ RegistryOK' /\ UseOK'
  BY <1>1, <1>3, UseKept, FaultCounts DEF RegistryOK
<1> QED
  BY <1>5, <1>6, <1>7 DEF GpuInv

LEMMA MpiEndsKeeps == GpuInv /\ MpiEnds => GpuInv'
<1> SUFFICES ASSUME GpuInv, MpiEnds PROVE GpuInv'
  OBVIOUS
<1>1. /\ RanksOK /\ RegistryOK /\ UseOK /\ HelpersOK /\ LaunchInv
      /\ ControlOK /\ CleanOK /\ PagesOK /\ l \in Launching
      /\ l.pc = "mpi" /\ UNCHANGED <<reg, partial, dir, helpers, rival, faults>>
  BY DEF GpuInv, LaunchInv, ControlOK, MpiEnds
<1>2. l.root \in Roots /\ l.wait = None /\ ~l.error /\ l.started /\ l.kind \in {"probe", "schedule"}
  BY <1>1 DEF ControlOK, Launching, Calling
<1>3. PICK error \in BOOLEAN :
        /\ l' = ToCleanup([l EXCEPT !.error = error])
        /\ ~error /\ l.kind = "probe" => \A h \in Hosts : ExitedZero(dir[l.root][h])
  BY <1>1 DEF MpiEnds
<1>4. DirGoes
  BY <1>1, DirStands
<1>5. RanksOK' /\ RegistryOK' /\ UseOK' /\ HelpersOK'
  BY <1>1, <1>4, UseKept, HelpersKept DEF RegistryOK
<1> DEFINE k == [l EXCEPT !.error = error]
<1>6. /\ k \in Launching /\ k.root = l.root /\ k.wait = None /\ k.got = l.got /\ k.error = error
      /\ k.started /\ k.kind = l.kind /\ k.prepared = l.prepared
  BY <1>1, <1>2 DEF Launching
<1> HIDE DEF k
<1>7. l' = ToCleanup(k)
  BY <1>3 DEF k
<1>8. CASE error
  BY <1>1, <1>4, <1>5, <1>6, <1>7, <1>8, ToCleanupKeeps DEF GpuInv
<1>9. CASE ~error
  <2>1. /\ l' \in Launching /\ l'.root = l.root /\ ~l'.error /\ l'.prepared = l.prepared
        /\ l'.got = l.got /\ l'.wait = None /\ l'.todo = l.prepared /\ l'.started /\ l'.kind = l.kind
        /\ l'.pc = IF l.prepared = <<>> THEN "judge" ELSE "collect"
    <3>1. ~NeedsCleanup(k)
      BY <1>6, <1>9 DEF NeedsCleanup
    <3> QED
      BY <1>6, <1>7, <1>9, <3>1, ToCleanupGoes
  <2>2. ControlOK' /\ PreparingOK'
    BY <1>2, <2>1, NoneIsNothing DEF ControlOK, Calling, PreparingOK
  <2>3. \A h \in Hosts : l.got[h] = None /\ h \in Range(l.prepared)
    BY <1>1, <1>2 DEF PagesOK, CleanOK
  <2>4. \A x \in helpers : x.root # l.root
    BY <1>1, <1>2, NoneIsNothing DEF CleanOK, Awaited, HelpersOK, HelperOK, Calls
  <2>5. CleanOK' /\ PagesOK'
    BY <1>1, <1>3, <1>9, <2>1, <2>3, <2>4 DEF CleanOK, PagesOK
  <2> QED
    BY <1>5, <2>2, <2>5 DEF GpuInv, LaunchInv
<1> QED
  BY <1>8, <1>9

LEMMA ArtifactsFailKeeps == GpuInv /\ ArtifactsFail => GpuInv'
<1> SUFFICES ASSUME GpuInv, ArtifactsFail PROVE GpuInv'
  OBVIOUS
<1>1. /\ RanksOK /\ RegistryOK /\ UseOK /\ HelpersOK /\ LaunchInv /\ ControlOK /\ l \in Launching
      /\ l.pc = "judge" /\ Fault /\ UNCHANGED <<reg, partial, dir, helpers, rival>>
      /\ l' = [l EXCEPT !.error = TRUE]
  BY DEF GpuInv, LaunchInv, ControlOK, ArtifactsFail
<1>2. DirGoes
  BY <1>1, DirStands
<1>3. RanksOK' /\ RegistryOK' /\ UseOK' /\ HelpersOK'
  BY <1>1, <1>2, UseKept, HelpersKept, FaultCounts DEF RegistryOK
<1>4. /\ l' \in Launching /\ l'.pc = "judge" /\ l'.root = l.root /\ l'.error /\ l'.got = l.got
      /\ l'.todo = l.todo /\ l'.wait = l.wait
  BY <1>1 DEF Launching
<1>5. ControlOK'
  BY <1>1, <1>4 DEF ControlOK, Calling
<1>6. LaunchInv'
  BY <1>1, <1>2, <1>4, <1>5, ErrorKeeps
<1> QED
  BY <1>3, <1>6 DEF GpuInv

LEMMA MpiStepKeeps == GpuInv /\ MpiStep => GpuInv'
BY StartMpiKeeps, MpiFailsKeeps, MpiEndsKeeps, MpiAbortsKeeps, ArtifactsFailKeeps DEF MpiStep

-----------------------------------------------------------------------------
(* Restarts, and another run *)

(* A restart ends the processes of one host and keeps its files. *)
LEMMA HostRestartsKeeps == GpuInv /\ HostRestarts => GpuInv'
<1> SUFFICES ASSUME GpuInv, HostRestarts PROVE GpuInv'
  OBVIOUS
<1>1. PICK g \in Hosts :
        /\ Fault /\ dir' = [r \in Roots |-> [dir[r] EXCEPT ![g] = Restarted(@)]]
        /\ helpers' \subseteq helpers /\ l' = IF l.wait = g THEN Advance(l, TRUE, None) ELSE l
        /\ partial' \in Torn(helpers \ helpers') /\ UNCHANGED <<reg, rival>>
  BY DEF HostRestarts
<1>2. RanksOK /\ RegistryOK /\ UseOK /\ HelpersOK /\ LaunchInv /\ l \in Launching
  BY DEF GpuInv, LaunchInv, ControlOK
<1>3. DirGoes
  <2>1. \A r \in Roots, h \in Hosts : dir'[r][h] = IF h = g THEN Restarted(dir[r][h]) ELSE dir[r][h]
    BY <1>1, <1>2 DEF RanksOK
  <2>2. \A r \in Roots, h \in Hosts : Goes(dir[r][h], Restarted(dir[r][h])) /\ Goes(dir[r][h], dir[r][h])
    BY <1>2, RankGoes, GoesNowhere DEF RanksOK
  <2>3. \A r \in Roots, h \in Hosts : Goes(dir[r][h], dir'[r][h])
    BY <2>1, <2>2
  <2>4. \A r \in Roots : Restarted(dir[r][g]) \in Ranks
    BY <2>2 DEF Goes, RankOK
  <2>5. dir' \in [Roots -> [Hosts -> Ranks]]
    BY <1>1, <1>2, <2>4 DEF RanksOK
  <2> QED
    BY <2>3, <2>5 DEF DirGoes
<1>4. RanksOK' /\ RegistryOK' /\ UseOK'
  <2>1. partial' \subseteq Hosts
    BY <1>1, <1>2, TornHosts
  <2> QED
    BY <1>1, <1>2, <1>3, <2>1, UseKept, FaultCounts DEF RegistryOK
<1>5. HelpersOK'
  BY <1>1, <1>2, <1>3, HelpersKept
<1>6. LaunchInv'
  <2>1. CASE l.wait = g
    <3>1. Calling
      BY <1>2, <2>1, NoneIsNothing DEF LaunchInv, ControlOK
    <3> QED
      BY <1>1, <1>2, <1>3, <2>1, <3>1, FailingCall
  <2>2. CASE l.wait # g
    BY <1>1, <1>2, <1>3, <2>2, LaunchStands, RegistryStands
  <2> QED
    BY <2>1, <2>2
<1> QED
  BY <1>4, <1>5, <1>6 DEF GpuInv

LEMMA RivalStepKeeps == GpuInv /\ RivalStep => GpuInv'
<1> SUFFICES ASSUME GpuInv, RivalStep PROVE GpuInv'
  OBVIOUS
<1>1. /\ RanksOK /\ RegistryOK /\ UseOK /\ HelpersOK /\ LaunchInv /\ dir' = dir
      /\ UNCHANGED <<partial, dir, helpers, l, faults>>
  BY DEF GpuInv, RivalStep
<1>2. DirGoes /\ RanksOK'
  BY <1>1, DirStands DEF RanksOK
<1>3. l.pc # "idle" => l.root \in Roots
  BY <1>1 DEF LaunchInv, ControlOK, Launching
<1>4. RegistryOK' /\ UseOK' /\ \A h \in Hosts, r \in Roots : Held(h, r)' <=> Held(h, r)
  <2>1. CASE \E h \in RivalHosts : /\ RivalMoves(h, "none", "running") /\ MayAcquire(h, Rival)
                                   /\ reg' = Acquired(h, Rival)
    <3>1. PICK g \in Hosts : /\ rival' = [rival EXCEPT ![g] = "running"] /\ MayAcquire(g, Rival)
                            /\ reg' = Acquired(g, Rival)
      BY <2>1, HostAssumption DEF RivalMoves
    <3>2. /\ rival' \in [Hosts -> {"none", "running"}]
          /\ \A h \in Hosts : rival'[h] = "running" => rival[h] = "running" \/ h = g
      BY <1>1, <3>1 DEF RegistryOK
    <3>3. /\ RegistryOK' /\ UseOK'
          /\ \A h \in Hosts, r \in Roots :
               (Held(h, r) => Held(h, r)') /\ (r # Rival => (Held(h, r)' => Held(h, r)))
      BY <1>1, <3>1, <3>2, AcquireKeeps
    <3> QED
      BY <3>3, RootAssumption
  <2>2. CASE \E h \in RivalHosts : /\ RivalMoves(h, "running", "none") /\ reg[h].owner = Rival
                                   /\ reg' = Finished(h, TRUE, TRUE)
    <3>1. PICK g \in Hosts : /\ rival' = [rival EXCEPT ![g] = "none"] /\ reg[g].owner = Rival
                            /\ reg' = Finished(g, TRUE, TRUE)
      BY <2>2, HostAssumption DEF RivalMoves
    <3>2. /\ rival' \in [Hosts -> {"none", "running"}] /\ rival'[g] # "running"
          /\ \A h \in Hosts : rival'[h] = "running" => rival[h] = "running"
          /\ \A r \in Roots : r # reg[g].owner
      BY <1>1, <3>1, RootAssumption DEF RegistryOK
    <3>3. /\ RegistryOK' /\ UseOK'
          /\ \A h \in Hosts : \A r : h # g \/ r # reg[g].owner => (Held(h, r)' <=> Held(h, r))
      BY <1>1, <3>1, <3>2, FinishKeeps
    <3> QED
      BY <3>2, <3>3
  <2> QED
    BY <2>1, <2>2 DEF RivalStep
<1>5. HoldsStand
  BY <1>1, <1>3, <1>4 DEF HoldsStand, Held
<1>6. HelpersOK'
  BY <1>1, <1>2, HelpersKept
<1>7. LaunchInv'
  BY <1>1, <1>2, <1>5, LaunchStands
<1> QED
  BY <1>2, <1>4, <1>6, <1>7 DEF GpuInv

-----------------------------------------------------------------------------
(* The task starts, ends and abandons launches *)

LEMMA BlankRank == RankOK(Blank) /\ ~MayUse(Blank) /\ Blank.wrapper = "none"
<1>1. Blank \in Ranks
  BY DEF Blank, Ranks
<1> QED
  BY <1>1 DEF Blank, RankOK, MayUse, Alive

LEMMA IdleLaunch ==
    ASSUME l' = NoLaunch
    PROVE  LaunchInv'
<1>1. /\ l' \in Launching /\ l'.pc = "idle" /\ l'.root = None /\ l'.todo = <<>> /\ l'.wait = None
      /\ \A h \in Hosts : l'.got[h] = None
  BY DEF NoLaunch, Launching
<1> QED
  BY <1>1 DEF LaunchInv, ControlOK, Calling, PreparingOK, CleanOK, PagesOK

(* A directory of which nothing is left is used again. *)
LEMMA BlankDirectory ==
    ASSUME RanksOK, RegistryOK, UseOK, HelpersOK, NEW r \in Roots, Quiet(r),
           dir' = [dir EXCEPT ![r] = [h \in Hosts |-> Blank]],
           UNCHANGED <<reg, partial, helpers, rival, faults>>
    PROVE  RanksOK' /\ RegistryOK' /\ UseOK' /\ HelpersOK'
<1>1. Blank \in Ranks
  BY BlankRank DEF RankOK
<1>2. /\ dir' \in [Roots -> [Hosts -> Ranks]]
      /\ \A q \in Roots, h \in Hosts : dir'[q][h] = IF q = r THEN Blank ELSE dir[q][h]
  BY <1>1 DEF RanksOK
<1>3. RanksOK'
  BY <1>2, BlankRank DEF RanksOK
<1>4. RegistryOK' /\ UseOK'
  BY <1>2, BlankRank DEF RegistryOK, UseOK, Held
<1>5. HelpersOK'
  BY <1>2 DEF HelpersOK, HelperOK, Calls, Quiet
<1> QED
  BY <1>3, <1>4, <1>5

(* A launch takes a directory that nothing uses any more. *)
LEMMA BeginLaunchKeeps ==
    ASSUME GpuInv, NEW kind \in {"probe", "schedule"}, Fresh # {}, BeginLaunch(kind),
           UNCHANGED <<reg, partial, helpers, rival, faults>>
    PROVE  GpuInv'
<1>1. RanksOK /\ RegistryOK /\ UseOK /\ HelpersOK
  BY DEF GpuInv
<1>2. PICK r : r = CHOOSE m \in Fresh : \A q \in Fresh : m <= q
  OBVIOUS
<1>3. r \in Roots /\ Quiet(r)
  <2>1. Fresh \in SUBSET Nat
    BY RootAssumption DEF Fresh
  <2>2. \E m \in Fresh : \A q \in Fresh : m <= q
    BY <2>1, LeastNatural
  <2>3. r \in Fresh
    BY <1>2, <2>2
  <2> QED
    BY <2>3 DEF Fresh
<1>4. /\ l' = [NoLaunch EXCEPT !.pc = "prepare", !.root = r, !.kind = kind, !.todo = HostList]
      /\ dir' = [dir EXCEPT ![r] = [h \in Hosts |-> Blank]]
  BY <1>2 DEF BeginLaunch
<1>5. RanksOK' /\ RegistryOK' /\ UseOK' /\ HelpersOK'
  BY <1>1, <1>3, <1>4, BlankDirectory
<1>6. /\ l' \in Launching /\ l'.pc = "prepare" /\ l'.root = r /\ l'.todo = HostList /\ l'.wait = None
      /\ ~l'.error /\ \A h \in Hosts : l'.got[h] = None
  <2>1. /\ NoLaunch \in Launching /\ NoLaunch.wait = None /\ ~NoLaunch.error
        /\ \A h \in Hosts : NoLaunch.got[h] = None
    BY DEF NoLaunch, Launching
  <2>2. HostList \in Seq(Hosts)
    BY HostAssumption
  <2> QED
    BY <1>3, <1>4, <2>1, <2>2 DEF Launching
<1>7. \A x \in helpers' : x.root # r
  BY <1>3 DEF Quiet
<1>8. \A h \in Hosts : dir'[r][h].wrapper = "none"
  BY <1>1, <1>3, <1>4, BlankRank DEF RanksOK
<1>9. ControlOK'
  BY <1>3, <1>6, HostAssumption, NoneIsNothing DEF ControlOK, Calling
<1>10. PreparingOK'
  BY <1>6, <1>7, <1>8 DEF PreparingOK, Hosts
<1>11. CleanOK' /\ PagesOK'
  BY <1>6, <1>7 DEF CleanOK, PagesOK
<1> QED
  BY <1>5, <1>9, <1>10, <1>11 DEF GpuInv, LaunchInv

(* A directory that is quiet can be named again. *)
LEMMA EndLaunchKeeps == GpuInv /\ EndLaunch => GpuInv'
<1> SUFFICES ASSUME GpuInv, EndLaunch PROVE GpuInv'
  OBVIOUS
<1>1. RanksOK /\ RegistryOK /\ UseOK /\ HelpersOK /\ l.root \in Roots
  BY DEF GpuInv, EndLaunch, LaunchInv, ControlOK, Launching
<1>2. LaunchInv'
  BY IdleLaunch DEF EndLaunch
<1>3. RanksOK' /\ RegistryOK' /\ UseOK' /\ HelpersOK'
  <2>1. CASE Quiet(l.root)
    <3>1. dir' = [dir EXCEPT ![l.root] = [h \in Hosts |-> Blank]]
          /\ UNCHANGED <<reg, partial, helpers, rival, faults>>
      BY <2>1 DEF EndLaunch
    <3> QED
      BY <1>1, <2>1, <3>1, BlankDirectory
  <2>2. CASE ~Quiet(l.root)
    <3>1. UNCHANGED <<reg, partial, dir, helpers, rival, faults>>
      BY <2>2 DEF EndLaunch
    <3>2. DirGoes
      BY <1>1, <3>1, DirStands
    <3> QED
      BY <1>1, <3>1, <3>2, UseKept, HelpersKept DEF RegistryOK
  <2> QED
    BY <2>1, <2>2
<1> QED
  BY <1>2, <1>3 DEF GpuInv

(* A crash leaves wrappers, helpers and the registry as they are, or kills some. *)
LEMMA CrashKeeps == GpuInv /\ Crash => GpuInv'
<1> SUFFICES ASSUME GpuInv, Crash PROVE GpuInv'
  OBVIOUS
<1>1. /\ RanksOK /\ RegistryOK /\ UseOK /\ HelpersOK /\ ControlOK
      /\ Fault /\ l' = NoLaunch /\ helpers' \subseteq helpers
      /\ partial' \in Torn(helpers \ helpers') /\ UNCHANGED <<reg, rival>>
  BY DEF GpuInv, LaunchInv, Crash
<1>2. DirGoes
  <2>1. CASE l.pc = "idle"
    BY <1>1, <2>1, DirStands DEF Crash
  <2>2. CASE l.pc # "idle"
    <3>1. l.root \in Roots
      BY <1>1, <2>2 DEF ControlOK, Launching
    <3>2. PICK hs \in IF l.pc = "mpi" THEN SUBSET Unfinished(l.root) ELSE {{}} : dir' = Killing(l.root, hs)
      BY <2>2 DEF Crash
    <3> QED
      BY <1>1, <3>1, <3>2, KillingGoes
  <2> QED
    BY <2>1, <2>2
<1>3. RanksOK' /\ RegistryOK' /\ UseOK' /\ HelpersOK'
  <2>1. partial' \subseteq Hosts
    BY <1>1, TornHosts
  <2> QED
    BY <1>1, <1>2, <2>1, UseKept, HelpersKept, FaultCounts DEF RegistryOK
<1>4. LaunchInv'
  BY <1>1, IdleLaunch
<1> QED
  BY <1>3, <1>4 DEF GpuInv

LEMMA LaunchesStand ==
    ASSUME GpuInv, UNCHANGED <<reg, partial, dir, helpers, l, rival>>, faults' \in Nat
    PROVE  GpuInv'
<1>1. DirGoes
  BY DirStands DEF GpuInv
<1> QED
  BY <1>1, RanksOnly DEF GpuInv, RegistryOK

-----------------------------------------------------------------------------
(* The inductive invariant of native launches: whoever may use a GPU holds  *)
(* it in the registry, every page of receipts, on its way or collected, is  *)
(* still true of its rank, and the coordinator knows what it has started.   *)
THEOREM GpuInvariant == Spec => []GpuInv
<1>1. Init => GpuInv
  <2> SUFFICES ASSUME Init PROVE GpuInv
    OBVIOUS
  <2>1. /\ reg = [h \in Hosts |-> [owner |-> None, state |-> "released"]] /\ partial = {}
        /\ dir = [r \in Roots |-> [h \in Hosts |-> Blank]] /\ helpers = {} /\ l = NoLaunch
        /\ rival = [h \in Hosts |-> "none"] /\ faults \in Nat
    BY WorkloadAssumption DEF Init, LaunchInit
  <2>2. RanksOK
    BY <2>1, BlankRank DEF RanksOK, RankOK
  <2>3. RegistryOK
    BY <2>1 DEF RegistryOK
  <2>4. UseOK /\ HelpersOK
    BY <2>1, BlankRank DEF UseOK, HelpersOK
  <2>5. /\ l \in Launching /\ l.pc = "idle" /\ l.root = None /\ l.todo = <<>> /\ l.wait = None
        /\ \A h \in Hosts : l.got[h] = None
    BY <2>1 DEF NoLaunch, Launching
  <2>6. LaunchInv
    BY <2>5 DEF LaunchInv, ControlOK, Calling, PreparingOK, CleanOK, PagesOK
  <2> QED
    BY <2>2, <2>3, <2>4, <2>6 DEF GpuInv
<1>2. GpuInv /\ [Next]_vars => GpuInv'
  <2> SUFFICES ASSUME GpuInv, [Next]_vars PROVE GpuInv'
    OBVIOUS
  <2>1. CASE UNCHANGED launchVars
    BY <2>1, LaunchesStand DEF launchVars, GpuInv, RegistryOK
  <2>2. CASE StartCampaign \/ JobBlocked \/ ProbeStable \/ FitAndPublish \/ Unreadable \/ Reserve
             \/ RoundDecides \/ Finish \/ UNCHANGED vars
    BY <2>1, <2>2 DEF StartCampaign, JobBlocked, ProbeStable, FitAndPublish, Unreadable, Reserve,
       RoundDecides, Finish, vars
  <2>3. CASE NotAdmitted \/ LeaseExpires \/ ProbeUnstable \/ RoundUnstable \/ EnvironmentChanges
    <3>1. Fault /\ UNCHANGED <<reg, partial, dir, helpers, l, rival>>
      BY <2>3 DEF NotAdmitted, LeaseExpires, ProbeUnstable, RoundUnstable, EnvironmentChanges
    <3> QED
      BY <3>1, FaultCounts, LaunchesStand DEF GpuInv
  <2>4. CASE StartProbe \/ StartTrace \/ StartSide
    <3>1. \E kind \in {"probe", "schedule"} :
            Fresh # {} /\ BeginLaunch(kind) /\ UNCHANGED <<reg, partial, helpers, rival, faults>>
      BY <2>4 DEF StartProbe, StartTrace, StartSide
    <3> QED
      BY <3>1, BeginLaunchKeeps
  <2>5. CASE EndProbe \/ EndTrace \/ EndSide
    BY <2>5, EndLaunchKeeps DEF EndProbe, EndTrace, EndSide
  <2>6. CASE Crash
    BY <2>6, CrashKeeps
  <2>7. CASE LaunchStep \/ Misfortune \/ RivalStep
    BY <2>7, CallHelperKeeps, CallRefusedKeeps, CallTimeoutKeeps, HelperStepKeeps, MpiStepKeeps,
       RankStepKeeps, MisfortuneOfRank, HostRestartsKeeps, RivalStepKeeps DEF LaunchStep, Misfortune
  <2> QED
    BY <2>2, <2>3, <2>4, <2>5, <2>6, <2>7 DEF Next
<1> QED
  BY <1>1, <1>2, PTL DEF Spec

-----------------------------------------------------------------------------
(* What the invariant says of GPUs and samples *)

(* Whoever runs holds the GPU in the registry, and a GPU has one holder. *)
LEMMA OneUser == GpuInv => GpuExclusive
<1> SUFFICES ASSUME GpuInv, NEW h \in Hosts
             PROVE  Cardinality({r \in Roots : dir[r][h].native = "running"})
                      + (IF rival[h] = "running" THEN 1 ELSE 0) <= 1
  BY DEF GpuExclusive
<1> DEFINE S == {r \in Roots : dir[r][h].native = "running"}
<1>1. \A r \in S : reg[h].owner = r
  BY DEF GpuInv, UseOK, Held, MayUse
<1>2. rival[h] = "running" => reg[h].owner = Rival
  BY DEF GpuInv, UseOK, Held
<1>3. CASE S = {}
  BY <1>3, FS_EmptySet
<1>4. CASE S # {}
  <2>1. PICK r : S = {r}
    BY <1>1, <1>4
  <2>2. rival[h] # "running"
    BY <1>1, <1>2, <2>1, RootAssumption
  <2>3. Cardinality(S) = 1
    BY <2>1, FS_Singleton
  <2> QED
    BY <2>2, <2>3
<1> QED
  BY <1>3, <1>4

(* A page of receipts that counts as a sample speaks of a rank that ended. *)
LEMMA SamplesGenuine == GpuInv => SampleIsGenuine
<1> SUFFICES ASSUME GpuInv, l.pc = "judge", Sample, NEW h \in Hosts
             PROVE  dir[l.root][h].native = "ok" /\ ~Held(h, l.root)
  BY DEF SampleIsGenuine, Held
<1>1. ~l.error /\ ControlOK /\ CleanOK /\ PagesOK
  BY DEF Sample, GpuInv, LaunchInv
<1>2. l.root \in Roots /\ l.kind \in {"probe", "schedule"} /\ l.todo = <<>>
  BY <1>1 DEF ControlOK, Launching, Calling
<1>3. l.got[h] # None
  <2>1. h \notin Range(l.todo)
    BY <1>2 DEF Range
  <2> QED
    BY <1>1, <2>1 DEF CleanOK
<1>4. PageOK(l.got[h], dir[l.root][h])
  BY <1>1, <1>3 DEF PagesOK
<1>5. RankOK(dir[l.root][h])
  BY <1>2 DEF GpuInv, RanksOK
<1>6. CASE l.kind = "probe"
  <2>1. Confirmed(l.got[h].receipt) /\ ExitedZero(dir[l.root][h])
    BY <1>1, <1>3, <1>6 DEF CleanOK
  <2>2. dir[l.root][h].native = "ok"
    BY <1>5, <2>1 DEF ExitedZero, RankOK
  <2> QED
    BY <1>1, <1>3, <2>1, <2>2 DEF CleanOK
<1>7. CASE l.kind = "schedule"
  <2>1. l.got[h].completed
    BY <1>7 DEF Sample, ScheduleSample
  <2>2. dir[l.root][h].native = "ok" /\ Confirmed(l.got[h].receipt)
    BY <1>4, <2>1 DEF PageOK
  <2> QED
    BY <1>1, <1>3, <2>2 DEF CleanOK
<1> QED
  BY <1>2, <1>6, <1>7

(* A confirmed page is still true of its rank when the launch is judged. *)
LEMMA ConfirmedQuiet == GpuInv => ConfirmedIsQuiet
<1> SUFFICES ASSUME GpuInv, CleanupConfirmed, GpuReleased, NEW h \in Hosts
             PROVE  ~MayUse(dir[l.root][h])
  BY DEF ConfirmedIsQuiet
<1>1. l.got[h] # None /\ Confirmed(l.got[h].receipt)
  BY DEF CleanupConfirmed, GpuReleased, Everywhere, Confirmed
<1>2. PageOK(l.got[h], dir[l.root][h])
  BY <1>1 DEF GpuInv, LaunchInv, PagesOK
<1> QED
  BY <1>1, <1>2 DEF PageOK, Settled

(* Whoever may use a GPU holds it, and a released GPU has no holder. *)
LEMMA ReleasedQuiet == GpuInv => ReleasedIsQuiet
<1> SUFFICES ASSUME GpuInv, NEW h \in Hosts, NEW r \in Roots,
                    reg[h] = [owner |-> r, state |-> "released"]
             PROVE  ~MayUse(dir[r][h])
  BY DEF ReleasedIsQuiet
<1> QED
  BY DEF GpuInv, UseOK, Held

(* The type invariant follows from the three inductive invariants. *)
LEMMA TypesOK == MeasurementInv /\ CampaignOK /\ RegistryOK => TypeOK
<1> SUFFICES ASSUME MeasurementInv, CampaignOK, RegistryOK PROVE TypeOK
  OBVIOUS
<1>1. \A h \in Hosts : /\ reg[h].owner \in Roots \union {Rival, None}
                       /\ reg[h].state \in {"active", "released", "quarantined"}
  BY DEF RegistryOK
<1>2. t.round <= MaxRounds
  BY CampaignAssumption DEF CampaignOK
<1>3. Len(t.primary) <= Cardinality(t.attempted)
  <2>1. IsFiniteSet(t.attempted) /\ Cardinality(t.attempted) \in Nat
    BY FS_CardinalityType DEF CampaignOK
  <2>2. PICK lo \in Nat, hi \in Nat : lo <= hi /\ Len(t.primary) + (hi - lo) <= Cardinality(t.attempted)
    BY DEF CampaignOK, QueueOK
  <2>3. Len(t.primary) \in Nat
    BY DEF MeasurementInv, TaskOK, Measured
  <2> QED
    BY <2>1, <2>2, <2>3
<1>4. \A cost \in {model.service, model.profile} :
        /\ cost.source = "initial" <=> cost.value = None
        /\ cost.value # None => cost.value \in Environments /\ model.signature # None
  BY NoneAssumption DEF MeasurementInv, ModelOK
<1>5. ledger.closed \subseteq Range(ledger.plans)
  <2>1. ledger.plans = Indices(Len(ledger.plans)) /\ ledger.closed \subseteq 1 .. Len(ledger.plans)
    BY DEF MeasurementInv, LedgerOK
  <2>2. \A n : Range(Indices(n)) = 1 .. n
    BY DEF Range, Indices
  <2> QED
    BY <2>1, <2>2, Zenon
<1> QED
  BY <1>1, <1>2, <1>3, <1>4, <1>5 DEF TypeOK, CampaignOK, TaskSteps, RegistryOK

(* The whole of GpuSafe, for any number of hosts, launches and faults: one *)
(* user of a GPU at a time, nothing left on a GPU that was given back or   *)
(* whose receipts were confirmed, and samples only from native processes   *)
(* that ran to their end (GPUOwnershipRegistry, _collect, _launch).        *)
THEOREM LaunchesAreSafe == Spec => []GpuSafe
<1>1. GpuInv => RegistryOK
  BY DEF GpuInv
<1>2. MeasurementInv /\ CampaignOK /\ GpuInv => GpuSafe
  BY <1>1, TypesOK, OneUser, ReleasedQuiet, SamplesGenuine, ConfirmedQuiet DEF GpuSafe
<1> QED
  BY <1>2, MeasurementInvariant, CampaignInvariant, GpuInvariant, PTL
=============================================================================
