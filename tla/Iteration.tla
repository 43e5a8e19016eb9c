------------------------------ MODULE Iteration ------------------------------
(***************************************************************************)
(* Lemmas about following a chain of links, which the proofs about wait    *)
(* queues and block lists share: induction over the naturals stated for    *)
(* sets, and functions on the naturals that iterate a step.                *)
(***************************************************************************)
EXTENDS Integers, FiniteSetTheorems, TLAPS

(* Every nonempty set of naturals has a least element.  The initial        *)
(* segments 0..n are finite sets, and strict inclusion among finite sets   *)
(* is well founded.                                                        *)
LEMMA LeastNatural ==
  ASSUME NEW T, T \subseteq Nat, T # {}
  PROVE  \E n \in T : \A m \in T : n <= m
<1> DEFINE R == StrictSubsetOrdering(Nat)
           S == FiniteSubsetsOf(Nat)
           U == {0..n : n \in T}
<1>1. IsWellFoundedOn(R, S)
  BY FS_StrictSubsetOrderingWellFounded
<1>2. U \subseteq S
  <2> SUFFICES ASSUME NEW n \in T
               PROVE  0..n \in S
    OBVIOUS
  <2>1. IsFiniteSet(0..n)
    BY FS_Interval
  <2> QED
    BY <2>1 DEF FiniteSubsetsOf
<1>3. \A m, n \in Nat : m < n => <<0..m, 0..n>> \in R
  <2> SUFFICES ASSUME NEW m \in Nat, NEW n \in Nat, m < n
               PROVE  <<0..m, 0..n>> \in R
    OBVIOUS
  <2>1. 0..m \in SUBSET Nat /\ 0..n \in SUBSET Nat /\ 0..m \subseteq 0..n
    OBVIOUS
  <2>2. n \in 0..n /\ n \notin 0..m
    OBVIOUS
  <2>3. 0..m # 0..n
    BY <2>2
  <2> QED
    BY <2>1, <2>3 DEF StrictSubsetOrdering
<1>4. PICK n \in T : \A y \in U : <<y, 0..n>> \notin R
  <2>1. U # {}
    OBVIOUS
  <2> HIDE DEF R, S, U
  <2>2. \E x \in U : \A y \in U : <<y, x>> \notin R
    BY <1>1, <1>2, <2>1, WFMin
  <2> QED
    BY <2>2 DEF U
<1>5. \A m \in T : ~ (m < n)
  <2> SUFFICES ASSUME NEW m \in T, m < n
               PROVE  FALSE
    OBVIOUS
  <2>1. 0..m \in U
    OBVIOUS
  <2> HIDE DEF R
  <2>2. <<0..m, 0..n>> \in R
    BY <1>3
  <2> QED
    BY <1>4, <2>1, <2>2
<1> QED
  BY <1>5

(* Induction over the naturals, for a set instead of a predicate.          *)
LEMMA SetInduction ==
  ASSUME NEW T, 0 \in T, \A n \in Nat : n \in T => n + 1 \in T
  PROVE  \A n \in Nat : n \in T
<1> DEFINE U == Nat \ T
<1> SUFFICES ASSUME U # {}
             PROVE  FALSE
  OBVIOUS
<1>1. PICK n \in U : \A m \in U : n <= m
  <2>1. U \subseteq Nat
    OBVIOUS
  <2> HIDE DEF U
  <2> QED
    BY <2>1, LeastNatural
<1>2. n # 0
  OBVIOUS
<1>3. n - 1 \in Nat /\ n - 1 \in T
  BY <1>1, <1>2
<1> QED
  BY <1>3

(* A step can be iterated from any start: what a definition by recursion   *)
(* over the naturals needs to be well defined.                             *)
LEMMA IterationExists ==
  ASSUME NEW S, NEW a \in S, NEW step \in [S -> S]
  PROVE  \E g \in [Nat -> S] : g[0] = a /\ \A n \in Nat : g[n + 1] = step[g[n]]
<1> DEFINE Part(n, g) == /\ g \in [0..n -> S]
                         /\ g[0] = a
                         /\ \A i \in 0..(n - 1) : g[i + 1] = step[g[i]]
           T == {n \in Nat : \E g : Part(n, g)}
<1>1. \A n \in Nat : n \in T
  <2>1. 0 \in T
    <3>1. Part(0, [i \in 0..0 |-> a])
      OBVIOUS
    <3> HIDE DEF Part
    <3> QED
      BY <3>1
  <2>2. ASSUME NEW n \in Nat, n \in T
        PROVE  n + 1 \in T
    <3>1. PICK g : Part(n, g)
      BY <2>2
    <3> DEFINE h == [i \in 0..(n + 1) |-> IF i = n + 1 THEN step[g[n]] ELSE g[i]]
    <3>2. h \in [0..(n + 1) -> S]
      BY <3>1
    <3>3. h[0] = a
      BY <3>1
    <3>4. \A i \in 0..n : h[i + 1] = step[h[i]]
      BY <3>1
    <3>5. Part(n + 1, h)
      <4> HIDE DEF h
      <4> QED
        BY <3>2, <3>3, <3>4
    <3> HIDE DEF Part, h
    <3> QED
      BY <3>5
  <2> HIDE DEF T
  <2> QED
    BY <2>1, <2>2, SetInduction
<1>2. \A m, n \in Nat : \A g, h :
        Part(m, g) /\ Part(n, h) => \A i \in Nat : i <= m /\ i <= n => g[i] = h[i]
  <2> SUFFICES ASSUME NEW m \in Nat, NEW n \in Nat, NEW g, NEW h, Part(m, g), Part(n, h)
               PROVE  \A i \in Nat : i <= m /\ i <= n => g[i] = h[i]
    <3> HIDE DEF Part
    <3> QED
      OBVIOUS
  <2> DEFINE E == {i \in Nat : i <= m /\ i <= n => g[i] = h[i]}
  <2>1. 0 \in E
    OBVIOUS
  <2>2. \A i \in Nat : i \in E => i + 1 \in E
    OBVIOUS
  <2>3. \A i \in Nat : i \in E
    <3> HIDE DEF E
    <3> QED
      BY <2>1, <2>2, SetInduction
  <2> QED
    BY <2>3
<1> DEFINE P(n) == CHOOSE g : Part(n, g)
           G == [n \in Nat |-> P(n)[n]]
<1>3. \A n \in Nat : Part(n, P(n))
  <2> HIDE DEF Part
  <2> QED
    BY <1>1
<1>4. G \in [Nat -> S]
  <2> HIDE DEF P
  <2> QED
    BY <1>3
<1>5. G[0] = a
  <2> HIDE DEF P
  <2> QED
    BY <1>3
<1>6. \A n \in Nat : G[n + 1] = step[G[n]]
  <2> SUFFICES ASSUME NEW n \in Nat
               PROVE  G[n + 1] = step[G[n]]
    OBVIOUS
  <2>1. P(n + 1)[n + 1] = step[P(n + 1)[n]]
    <3>1. Part(n + 1, P(n + 1))
      <4> HIDE DEF P, Part
      <4> QED
        BY <1>3
    <3>2. \A i \in 0..n : P(n + 1)[i + 1] = step[P(n + 1)[i]]
      <4> HIDE DEF P
      <4> QED
        BY <3>1
    <3> HIDE DEF P
    <3> QED
      BY <3>2
  <2>2. P(n + 1)[n] = P(n)[n]
    <3> HIDE DEF P, Part
    <3>1. Part(n, P(n)) /\ Part(n + 1, P(n + 1))
      BY <1>3
    <3>2. \A i \in Nat : i <= n + 1 /\ i <= n => P(n + 1)[i] = P(n)[i]
      BY <3>1, <1>2
    <3> QED
      BY <3>2
  <2> HIDE DEF P
  <2> QED
    BY <2>1, <2>2
<1> QED
  <2> HIDE DEF G
  <2> QED
    BY <1>4, <1>5, <1>6
=============================================================================
