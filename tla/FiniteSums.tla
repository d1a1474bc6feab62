----------------------------- MODULE FiniteSums -----------------------------
(***************************************************************************)
(* What the community modules' SumFunctionOnSet computes, for any finite   *)
(* set: the budgets count CPU slots and stage time with it.                *)
(*                                                                         *)
(* The sum is a recursive function over the subsets of a set.  Induction   *)
(* is stated as the existence of a least counterexample (LeastNatural,     *)
(* SmallestSubset), which needs no operator as a parameter.                *)
(***************************************************************************)
EXTENDS Integers, FiniteSets, FiniteSetsExt, FiniteSetTheorems, TLAPS

Pick(T) == CHOOSE x \in T : TRUE

(* h is the recursive function of the sum of g, on the subsets in D. *)
SumsOn(h, g, D) ==
    \A T \in D : h[T] = IF T = {} THEN 0 ELSE g[Pick(T)] + h[T \ {Pick(T)}]

LEMMA PickFacts == ASSUME NEW T, T # {} PROVE Pick(T) \in T
  BY DEF Pick

LEMMA SumUnfold ==
    ASSUME NEW g, NEW S
    PROVE  SumFunctionOnSet(g, S) =
           (CHOOSE h : h = [s \in SUBSET S |->
               IF s = {} THEN 0 ELSE g[Pick(s)] + h[s \ {Pick(s)}]])[S]
  BY DEF SumFunctionOnSet, FoldFunctionOnSet, MapThenFoldSet, Pick

LEMMA LeastNatural ==
    ASSUME NEW T \in SUBSET Nat, T # {}
    PROVE  \E n \in T : \A m \in T : n <= m
<1>1. \E x \in T : \A y \in T : ~(<<y, x>> \in OpToRel(<, Nat))
  BY NatLessThanWellFounded, WFMin
<1>2. PICK x \in T : \A y \in T : ~(<<y, x>> \in OpToRel(<, Nat))
  BY <1>1
<1>3. \A y \in T : ~(y < x)
  BY <1>2 DEF OpToRel
<1> QED
  BY <1>3

(* A nonempty set of subsets of a finite set has one of least cardinality. *)
LEMMA SmallestSubset ==
    ASSUME NEW S, IsFiniteSet(S), NEW B \in SUBSET (SUBSET S), B # {}
    PROVE  \E T \in B : /\ IsFiniteSet(T) /\ Cardinality(T) \in Nat
                        /\ \A x \in T : T \ {x} \notin B
<1>1. \A T \in SUBSET S : IsFiniteSet(T) /\ Cardinality(T) \in Nat
  BY FS_Subset, FS_CardinalityType
<1> DEFINE N == {Cardinality(T) : T \in B}
<1>2. N \in SUBSET Nat /\ N # {}
  BY <1>1
<1>3. PICK n \in N : \A m \in N : n <= m
  BY <1>2, LeastNatural
<1>4. PICK T \in B : Cardinality(T) = n
  BY <1>3
<1>5. ASSUME NEW x \in T, T \ {x} \in B PROVE FALSE
  <2>1. Cardinality(T \ {x}) = Cardinality(T) - 1
    BY <1>1, FS_RemoveElement
  <2>2. n <= Cardinality(T \ {x}) /\ n \in Nat
    BY <1>2, <1>3, <1>5
  <2> QED
    BY <1>4, <2>1, <2>2
<1> QED
  BY <1>1, <1>5

LEMMA SumsExist ==
    ASSUME NEW S, IsFiniteSet(S), NEW g, \A x \in S : g[x] \in Int
    PROVE  \E h \in [SUBSET S -> Int] : SumsOn(h, g, SUBSET S)
<1> DEFINE Upto(n) == {T \in SUBSET S : Cardinality(T) <= n}
           Bad == {n \in Nat : ~ \E h \in [Upto(n) -> Int] : SumsOn(h, g, Upto(n))}
<1>1. \A T \in SUBSET S : IsFiniteSet(T) /\ Cardinality(T) \in Nat
  BY FS_Subset, FS_CardinalityType
<1>2. ASSUME Bad # {} PROVE FALSE
  <2>1. PICK n \in Bad : \A m \in Bad : n <= m
    BY <1>2, LeastNatural
  <2>2. CASE n = 0
    <3>1. \A T \in Upto(0) : T = {}
      BY <1>1, FS_EmptySet
    <3> DEFINE z == [T \in Upto(0) |-> 0]
    <3>2. z \in [Upto(0) -> Int] /\ \A T \in Upto(0) : z[T] = 0
      OBVIOUS
    <3> HIDE DEF z
    <3>3. SumsOn(z, g, Upto(0))
      BY <3>1, <3>2 DEF SumsOn
    <3>4. 0 \notin Bad
      BY <3>2, <3>3
    <3> QED
      BY <2>1, <2>2, <3>4
  <2>3. CASE n # 0
    <3>1. n - 1 \in Nat /\ n - 1 \notin Bad
      <4>1. n \in Nat
        OBVIOUS
      <4> HIDE DEF Bad
      <4> QED
        BY <2>1, <2>3, <4>1
    <3>2. PICK h \in [Upto(n-1) -> Int] : SumsOn(h, g, Upto(n-1))
      BY <3>1
    <3> DEFINE k == [T \in Upto(n) |-> IF T = {} THEN 0
                                       ELSE g[Pick(T)] + h[T \ {Pick(T)}]]
    <3>3. ASSUME NEW T \in Upto(n), T # {}
          PROVE  /\ Pick(T) \in S /\ T \ {Pick(T)} \in Upto(n-1)
                 /\ T \ {Pick(T)} \in Upto(n)
      <4>1. Pick(T) \in T
        BY <3>3, PickFacts
      <4>2. Cardinality(T \ {Pick(T)}) = Cardinality(T) - 1
        BY <1>1, <4>1, FS_RemoveElement
      <4>3. Cardinality(T) \in Nat /\ Cardinality(T) <= n /\ n \in Nat
        BY <1>1, <3>1
      <4> QED
        BY <4>1, <4>2, <4>3
    <3>4. k \in [Upto(n) -> Int]
      <4>1. ASSUME NEW T \in Upto(n), T # {} PROVE g[Pick(T)] + h[T \ {Pick(T)}] \in Int
        BY <3>2, <3>3, <4>1
      <4> QED
        BY <4>1
    <3>5. \A T \in Upto(n-1) : k[T] = h[T]
      <4> SUFFICES ASSUME NEW T \in Upto(n-1) PROVE k[T] = h[T]
        OBVIOUS
      <4>1. T \in Upto(n)
        <5>1. Cardinality(T) \in Nat /\ Cardinality(T) <= n - 1 /\ n \in Nat
          BY <1>1, <3>1
        <5> QED
          BY <5>1
      <4>2. k[T] = IF T = {} THEN 0 ELSE g[Pick(T)] + h[T \ {Pick(T)}]
        BY <4>1
      <4> QED
        BY <3>2, <4>2 DEF SumsOn
    <3>6. SumsOn(k, g, Upto(n))
      <4> SUFFICES ASSUME NEW T \in Upto(n)
                   PROVE  k[T] = IF T = {} THEN 0 ELSE g[Pick(T)] + k[T \ {Pick(T)}]
        BY DEF SumsOn
      <4>1. k[T] = IF T = {} THEN 0 ELSE g[Pick(T)] + h[T \ {Pick(T)}]
        OBVIOUS
      <4> HIDE DEF k
      <4>2. T # {} => k[T \ {Pick(T)}] = h[T \ {Pick(T)}]
        BY <3>3, <3>5
      <4> QED
        BY <4>1, <4>2
    <3> HIDE DEF k
    <3> QED
      BY <2>1, <3>4, <3>6
  <2> QED
    BY <2>2, <2>3
<1>3. Cardinality(S) \in Nat /\ Upto(Cardinality(S)) = SUBSET S
  BY FS_Subset, FS_CardinalityType
<1>4. Cardinality(S) \notin Bad
  BY <1>2
<1>5. \E h \in [Upto(Cardinality(S)) -> Int] : SumsOn(h, g, Upto(Cardinality(S)))
  BY <1>3, <1>4
<1> HIDE DEF Upto
<1> QED
  BY <1>3, <1>5

(* Two such functions agree wherever both are defined. *)
LEMMA SumsUnique ==
    ASSUME NEW S, IsFiniteSet(S), NEW f, NEW g, \A x \in S : f[x] = g[x],
           NEW h, NEW k, SumsOn(h, f, SUBSET S), SumsOn(k, g, SUBSET S)
    PROVE  h[S] = k[S]
<1> DEFINE B == {T \in SUBSET S : h[T] # k[T]}
<1>1. ASSUME B # {} PROVE FALSE
  <2>1. PICK T \in B : \A x \in T : T \ {x} \notin B
    BY <1>1, SmallestSubset
  <2>2. T # {}
    BY <2>1 DEF SumsOn
  <2>3. Pick(T) \in T /\ T \in SUBSET S
    BY <2>2, PickFacts
  <2>4. h[T \ {Pick(T)}] = k[T \ {Pick(T)}] /\ f[Pick(T)] = g[Pick(T)]
    BY <2>1, <2>3
  <2>5. h[T] = f[Pick(T)] + h[T \ {Pick(T)}] /\ k[T] = g[Pick(T)] + k[T \ {Pick(T)}]
    BY <2>2, <2>3 DEF SumsOn
  <2> QED
    BY <2>4, <2>5
<1> QED
  BY <1>1

(* The sum is the value of any such function. *)
LEMMA SumIs ==
    ASSUME NEW S, IsFiniteSet(S), NEW g, \A x \in S : g[x] \in Int
    PROVE  \E h \in [SUBSET S -> Int] :
               SumsOn(h, g, SUBSET S) /\ SumFunctionOnSet(g, S) = h[S]
<1> DEFINE Body(h) == [s \in SUBSET S |-> IF s = {} THEN 0 ELSE g[Pick(s)] + h[s \ {Pick(s)}]]
           c == CHOOSE h : h = Body(h)
<1>1. PICK h \in [SUBSET S -> Int] : SumsOn(h, g, SUBSET S)
  BY SumsExist
<1>2. h = Body(h)
  BY <1>1 DEF SumsOn
<1>3. c = Body(c)
  BY <1>2
<1>4. SumsOn(c, g, SUBSET S)
  <2> SUFFICES ASSUME NEW T \in SUBSET S
               PROVE  c[T] = IF T = {} THEN 0 ELSE g[Pick(T)] + c[T \ {Pick(T)}]
    BY DEF SumsOn
  <2> HIDE DEF c
  <2>1. c[T] = Body(c)[T]
    BY <1>3
  <2> QED
    BY <2>1
<1>5. SumFunctionOnSet(g, S) = c[S]
  BY SumUnfold
<1> HIDE DEF c
<1>6. c[S] = h[S]
  BY <1>1, <1>4, SumsUnique
<1> QED
  BY <1>1, <1>5, <1>6

LEMMA SumEmpty == ASSUME NEW g PROVE SumFunctionOnSet(g, {}) = 0
<1>1. PICK h : SumsOn(h, g, SUBSET {}) /\ SumFunctionOnSet(g, {}) = h[{}]
  BY SumIs, FS_EmptySet
<1> QED
  BY <1>1 DEF SumsOn

LEMMA SumPick ==
    ASSUME NEW S, IsFiniteSet(S), S # {}, NEW g, \A x \in S : g[x] \in Int
    PROVE  SumFunctionOnSet(g, S) = g[Pick(S)] + SumFunctionOnSet(g, S \ {Pick(S)})
<1> DEFINE R == S \ {Pick(S)}
<1>1. IsFiniteSet(R) /\ R \subseteq S
  BY FS_RemoveElement
<1>2. PICK h : SumsOn(h, g, SUBSET S) /\ SumFunctionOnSet(g, S) = h[S]
  BY SumIs
<1>3. PICK k : SumsOn(k, g, SUBSET R) /\ SumFunctionOnSet(g, R) = k[R]
  BY <1>1, SumIs
<1>4. SumsOn(h, g, SUBSET R)
  BY <1>1, <1>2 DEF SumsOn
<1>5. h[R] = k[R]
  BY <1>1, <1>3, <1>4, SumsUnique
<1>6. h[S] = g[Pick(S)] + h[R]
  BY <1>2 DEF SumsOn
<1> QED
  BY <1>2, <1>3, <1>5, <1>6

LEMMA SumType ==
    ASSUME NEW S, IsFiniteSet(S), NEW g, \A x \in S : g[x] \in Int
    PROVE  SumFunctionOnSet(g, S) \in Int
<1>1. PICK h \in [SUBSET S -> Int] : SumFunctionOnSet(g, S) = h[S]
  BY SumIs
<1> QED
  BY <1>1

(* The order in which the elements are taken does not matter. *)
THEOREM SumRemove ==
    ASSUME NEW S, IsFiniteSet(S), NEW g, \A x \in S : g[x] \in Int, NEW x \in S
    PROVE  SumFunctionOnSet(g, S) = g[x] + SumFunctionOnSet(g, S \ {x})
<1> DEFINE Sum(T) == SumFunctionOnSet(g, T)
           B == {T \in SUBSET S : \E y \in T : Sum(T) # g[y] + Sum(T \ {y})}
<1>1. \A T \in SUBSET S : IsFiniteSet(T) /\ Sum(T) \in Int
  BY FS_Subset, SumType
<1>2. \A T \in SUBSET S : T # {} => Sum(T) = g[Pick(T)] + Sum(T \ {Pick(T)})
  BY <1>1, SumPick
<1> HIDE DEF Sum
<1>3. ASSUME B # {} PROVE FALSE
  <2>1. PICK T \in B : \A y \in T : T \ {y} \notin B
    BY <1>3, SmallestSubset
  <2>2. PICK y \in T : Sum(T) # g[y] + Sum(T \ {y})
    BY <2>1
  <2> DEFINE p == Pick(T)
  <2>3. p \in T /\ Sum(T) = g[p] + Sum(T \ {p})
    BY <1>2, <2>2, PickFacts
  <2> HIDE DEF p
  <2>4. p # y
    BY <2>2, <2>3
  <2>5. y \in T \ {p} /\ p \in T \ {y} /\ T \ {p} \in SUBSET S /\ T \ {y} \in SUBSET S
    BY <2>3, <2>4
  <2>6. Sum(T \ {p}) = g[y] + Sum((T \ {p}) \ {y})
    BY <2>1, <2>3, <2>5
  <2>7. Sum(T \ {y}) = g[p] + Sum((T \ {y}) \ {p})
    BY <2>1, <2>2, <2>5
  <2>8. (T \ {p}) \ {y} = (T \ {y}) \ {p} /\ (T \ {p}) \ {y} \in SUBSET S
    BY <2>5
  <2>9. g[y] \in Int /\ g[p] \in Int /\ Sum((T \ {p}) \ {y}) \in Int
    BY <1>1, <2>3, <2>8
  <2>10. \A a, b, c \in Int : a + (b + c) = b + (a + c)
    OBVIOUS
  <2>11. Sum(T) = g[p] + (g[y] + Sum((T \ {p}) \ {y}))
    BY <2>3, <2>6
  <2>12. Sum(T) = g[y] + (g[p] + Sum((T \ {p}) \ {y}))
    BY <2>9, <2>10, <2>11
  <2> QED
    BY <2>2, <2>7, <2>8, <2>12
<1> QED
  BY <1>3 DEF Sum

(* Adding an element adds its value. *)
THEOREM SumAdd ==
    ASSUME NEW S, IsFiniteSet(S), NEW x, x \notin S, NEW g,
           \A y \in S \cup {x} : g[y] \in Int
    PROVE  SumFunctionOnSet(g, S \cup {x}) = g[x] + SumFunctionOnSet(g, S)
<1>1. IsFiniteSet(S \cup {x}) /\ x \in S \cup {x} /\ (S \cup {x}) \ {x} = S
  BY FS_AddElement
<1> QED
  BY <1>1, SumRemove

(* Only the values on the set matter. *)
THEOREM SumCongruence ==
    ASSUME NEW S, IsFiniteSet(S), NEW f, NEW g, \A x \in S : f[x] = g[x] /\ g[x] \in Int
    PROVE  SumFunctionOnSet(f, S) = SumFunctionOnSet(g, S)
<1>1. PICK h : SumsOn(h, f, SUBSET S) /\ SumFunctionOnSet(f, S) = h[S]
  BY SumIs
<1>2. PICK k : SumsOn(k, g, SUBSET S) /\ SumFunctionOnSet(g, S) = k[S]
  BY SumIs
<1> QED
  BY <1>1, <1>2, SumsUnique

(* A sum of natural numbers is one. *)
THEOREM SumNat ==
    ASSUME NEW S, IsFiniteSet(S), NEW g, \A x \in S : g[x] \in Nat
    PROVE  SumFunctionOnSet(g, S) \in Nat
<1> DEFINE Sum(T) == SumFunctionOnSet(g, T)
           B == {T \in SUBSET S : Sum(T) \notin Nat}
<1>1. \A T \in SUBSET S : IsFiniteSet(T) /\ \A x \in T : g[x] \in Int
  BY FS_Subset
<1>2. Sum({}) = 0 /\ \A T \in SUBSET S : T # {} => Sum(T) = g[Pick(T)] + Sum(T \ {Pick(T)})
  BY <1>1, SumPick, SumEmpty
<1> HIDE DEF Sum
<1>3. ASSUME B # {} PROVE FALSE
  <2>1. PICK T \in B : \A y \in T : T \ {y} \notin B
    BY <1>3, SmallestSubset
  <2>2. T # {} /\ T \in SUBSET S
    BY <1>2, <2>1
  <2>3. Pick(T) \in T /\ T \ {Pick(T)} \in SUBSET S
    BY <2>2, PickFacts
  <2>4. Sum(T \ {Pick(T)}) \in Nat /\ g[Pick(T)] \in Nat
    BY <2>1, <2>2, <2>3
  <2> QED
    BY <1>2, <2>1, <2>2, <2>4
<1> QED
  BY <1>3 DEF Sum

(* A sum over one element is its value. *)
THEOREM SumSingleton ==
    ASSUME NEW x, NEW g, g[x] \in Int PROVE SumFunctionOnSet(g, {x}) = g[x]
<1>1. SumFunctionOnSet(g, {x}) = g[x] + SumFunctionOnSet(g, {x} \ {x})
  BY FS_Singleton, SumRemove
<1>2. {x} \ {x} = {}
  OBVIOUS
<1> QED
  BY <1>1, <1>2, SumEmpty
=============================================================================
