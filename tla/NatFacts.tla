------------------------------ MODULE NatFacts ------------------------------
(***************************************************************************)
(* Least and greatest elements of sets of naturals, induction and iteration.*)
(***************************************************************************)
EXTENDS Naturals, TLAPS, WellFoundedInduction

\* A non-empty set of naturals has a least element.
LEMMA NatMin ==
    ASSUME NEW T \in SUBSET Nat, T # {}
    PROVE  \E x \in T : \A y \in T : x <= y
<1> DEFINE R == {p \in Nat \X Nat : p[1] < p[2]}
<1>1. IsWellFoundedOn(OpToRel(<, Nat), Nat)
  BY NatLessThanWellFounded
<1>2. IsWellFoundedOn(R, Nat)
  BY <1>1 DEF OpToRel
<1>3. \E x \in T : \A y \in T : ~ (<<y, x>> \in R)
  BY <1>2, WFMin
<1>4. ASSUME NEW x \in T, NEW y \in T, ~ (<<y, x>> \in R)
      PROVE  x <= y
  <2>1. x \in Nat /\ y \in Nat
    OBVIOUS
  <2>2. ~ (y < x)
    BY <1>4, <2>1
  <2>3. QED
    BY <2>1, <2>2
<1> HIDE DEF R
<1>5. QED
  BY <1>3, <1>4

\* A non-empty set of naturals with an upper bound has a greatest element.
LEMMA NatMax ==
    ASSUME NEW b \in Nat, NEW T \in SUBSET (0..b), T # {}
    PROVE  \E x \in T : \A y \in T : y <= x
<1> DEFINE U == {b - x : x \in T}
<1>1. U \in SUBSET Nat /\ U # {}
  <2>1. ASSUME NEW x \in T PROVE b - x \in Nat
    OBVIOUS
  <2>2. QED
    BY <2>1
<1>2. PICK u \in U : \A v \in U : u <= v
  BY <1>1, NatMin
<1>3. PICK x \in T : u = b - x
  BY <1>2
<1>4. ASSUME NEW y \in T PROVE y <= x
  <2>1. b - x <= b - y
    BY <1>2, <1>3
  <2>2. x \in Nat /\ y \in Nat
    OBVIOUS
  <2>3. QED
    BY <2>1, <2>2
<1>5. QED
  BY <1>4

\* Induction, in terms of sets.
LEMMA SetInduction ==
    ASSUME NEW S, 0 \in S, \A n \in Nat : n \in S => n + 1 \in S
    PROVE  \A n \in Nat : n \in S
<1>1. PICK T : T = {n \in Nat : n \notin S}
  OBVIOUS
<1>2. SUFFICES ASSUME T # {} PROVE FALSE
  BY <1>1
<1>3. PICK x \in T : \A y \in T : x <= y
  BY <1>1, <1>2, NatMin
<1>4. x \in Nat /\ x \notin S /\ x # 0
  BY <1>1
<1>5. x - 1 \in Nat /\ x - 1 \notin T /\ (x - 1) + 1 = x
  BY <1>3, <1>4
<1>6. QED
  BY <1>1, <1>4, <1>5

\* g holds what n steps of F make of v.
Iterates(g, v, F, n) ==
    /\ g = [k \in 0..n |-> g[k]]
    /\ g[0] = v
    /\ \A k \in 1..n : g[k] = F[<<g[k - 1], k>>]

\* A function that is given by its first value and by steps exists, and stays in the set
\* that the steps do not leave.
LEMMA IterationExists ==
    ASSUME NEW S, NEW v \in S, NEW F, NEW n \in Nat,
           \A s \in S, k \in 1..n : F[<<s, k>>] \in S
    PROVE  \E g : Iterates(g, v, F, n) /\ \A k \in 0..n : g[k] \in S
<1>1. PICK T : T = {m \in Nat : m <= n => \E g : Iterates(g, v, F, m) /\ \A k \in 0..m : g[k] \in S}
  OBVIOUS
<1>2. 0 \in T
  <2>1. PICK g : g = [k \in 0..0 |-> v]
    OBVIOUS
  <2>2. 0 \in 0..0 /\ (\A k \in 0..0 : k = 0) /\ 1..0 = {}
    OBVIOUS
  <2>3. Iterates(g, v, F, 0) /\ \A k \in 0..0 : g[k] \in S
    BY <2>1, <2>2 DEF Iterates
  <2>4. QED
    BY <1>1, <2>3
<1>3. ASSUME NEW m \in Nat, m \in T PROVE m + 1 \in T
  <2>1. SUFFICES ASSUME m + 1 <= n
                 PROVE  \E g : Iterates(g, v, F, m + 1) /\ \A k \in 0..m + 1 : g[k] \in S
    BY <1>1
  <2>2. PICK g : Iterates(g, v, F, m) /\ \A k \in 0..m : g[k] \in S
    BY <1>1, <1>3, <2>1
  <2>3. PICK h : h = [k \in 0..m + 1 |-> IF k <= m THEN g[k] ELSE F[<<g[m], m + 1>>]]
    OBVIOUS
  <2>4. h[0] = v /\ (\A k \in 0..m : h[k] = g[k]) /\ h[m + 1] = F[<<g[m], m + 1>>]
    BY <2>2, <2>3 DEF Iterates
  <2>5. \A k \in 1..m + 1 : h[k] = F[<<h[k - 1], k>>]
    <3>1. ASSUME NEW k \in 1..m PROVE h[k] = F[<<h[k - 1], k>>]
      <4>1. k \in 0..m /\ k - 1 \in 0..m
        OBVIOUS
      <4>2. g[k] = F[<<g[k - 1], k>>]
        BY <2>2 DEF Iterates
      <4>3. QED
        BY <2>4, <4>1, <4>2
    <3>2. h[m + 1] = F[<<h[(m + 1) - 1], m + 1>>]
      <4>1. (m + 1) - 1 = m /\ m \in 0..m
        OBVIOUS
      <4>2. QED
        BY <2>4, <4>1
    <3>3. \A k \in 1..m + 1 : k \in 1..m \/ k = m + 1
      OBVIOUS
    <3>4. QED
      BY <3>1, <3>2, <3>3
  <2>6. \A k \in 0..m + 1 : h[k] \in S
    <3>1. g[m] \in S /\ m + 1 \in 1..n
      BY <2>1, <2>2
    <3>2. \A k \in 0..m + 1 : k \in 0..m \/ k = m + 1
      OBVIOUS
    <3>3. QED
      BY <2>2, <2>4, <3>1, <3>2
  <2>7. h = [k \in 0..m + 1 |-> h[k]]
    BY <2>3
  <2>8. QED
    BY <2>4, <2>5, <2>6, <2>7 DEF Iterates
<1>4. \A m \in Nat : m \in T
  BY <1>2, <1>3, SetInduction
<1>5. QED
  BY <1>1, <1>4
=============================================================================
