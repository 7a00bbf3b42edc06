------------------------------ MODULE Extremes ------------------------------
(***************************************************************************)
(* Least and greatest elements of sets of numbers: what the operators Min   *)
(* and Max of FiniteSetsExt return, which several models of this project    *)
(* use to say "the first entry that ..." or "the last place that ...".     *)
(* The remainder that the rings of this project are walked with.  And what   *)
(* can be counted up to, and what comes of doing something again and again.  *)
(***************************************************************************)
EXTENDS Integers, FiniteSets, FiniteSetsExt, WellFoundedInduction, TLAPS

\* A nonempty set of naturals has a least element.
LEMMA LeastExists ==
    ASSUME NEW S \in SUBSET Nat, S # {}
    PROVE  \E x \in S : \A y \in S : x <= y
  <1> DEFINE R == OpToRel(<, Nat)
  <1>1. IsWellFoundedOn(R, Nat)
    BY NatLessThanWellFounded
  <1>2. \A x, y \in Nat : y < x => <<y, x>> \in R
    BY DEF OpToRel
  <1> HIDE DEF R
  <1>3. PICK x \in S : \A y \in S : ~(<<y, x>> \in R)
    BY <1>1, WFMin, Zenon
  <1>4. \A y \in S : x <= y
    <2> TAKE y \in S
    <2>1. x \in Nat /\ y \in Nat
      OBVIOUS
    <2>2. ~(y < x)
      BY <1>2, <1>3, <2>1, Zenon
    <2> QED BY <2>1, <2>2
  <1> QED BY <1>4

\* Min finds it.
LEMMA MinIsLeast ==
    ASSUME NEW S \in SUBSET Nat, S # {}
    PROVE  Min(S) \in S /\ \A y \in S : Min(S) <= y
  <1>1. PICK x \in S : \A y \in S : x <= y
    BY LeastExists
  <1> QED BY <1>1 DEF Min

\* A nonempty set of naturals below a bound has a greatest element, ...
LEMMA GreatestExists ==
    ASSUME NEW n \in Nat, NEW S \in SUBSET (0..n), S # {}
    PROVE  \E x \in S : \A y \in S : x >= y
  <1> DEFINE T == {n - x : x \in S}
  <1>1. T \in SUBSET Nat /\ T # {}
    <2>1. \A x \in S : n - x \in Nat
      OBVIOUS
    <2>2. PICK x \in S : TRUE
      OBVIOUS
    <2>3. n - x \in T
      OBVIOUS
    <2> QED BY <2>1, <2>3
  <1>2. \A x \in S : n - x \in T
    OBVIOUS
  <1>3. PICK t \in T : \A y \in T : t <= y
    BY <1>1, LeastExists
  <1>4. PICK x \in S : t = n - x
    OBVIOUS
  <1>5. \A y \in S : x >= y
    BY <1>2, <1>3, <1>4
  <1> QED BY <1>5

\* ... and Max finds it.
LEMMA MaxIsGreatest ==
    ASSUME NEW n \in Nat, NEW S \in SUBSET (0..n), S # {}
    PROVE  Max(S) \in S /\ \A y \in S : Max(S) >= y
  <1>1. PICK x \in S : \A y \in S : x >= y
    BY GreatestExists
  <1> QED BY <1>1 DEF Max

\* The remainder of a number below twice the divisor.
LEMMA Remainder ==
    ASSUME NEW m \in Nat \ {0}, NEW n \in Nat, n < 2 * m
    PROVE  n % m = IF n < m THEN n ELSE n - m
  <1>1. /\ n = m * (n \div m) + (n % m)
        /\ n % m \in 0..m - 1
        /\ n \div m \in Int
    BY SMT
  <1> DEFINE q == n \div m
             r == n % m
  <1>2. n = m * q + r /\ r \in 0..m - 1 /\ q \in Int
    BY <1>1
  <1> HIDE DEF q, r
  <1>3. q >= 0
    <2>1. ASSUME q <= -1 PROVE FALSE
      <3>1. m * q <= -m BY <1>2, <2>1, SMT
      <3> QED BY <1>2, <3>1, SMT
    <2> QED BY <1>2, <2>1, SMT
  <1>4. q < 2
    <2>1. ASSUME q >= 2 PROVE FALSE
      <3>1. m * q >= 2 * m BY <1>2, <2>1, SMT
      <3> QED BY <1>2, <3>1, SMT
    <2> QED BY <1>2, <2>1, SMT
  <1>5. q = 0 \/ q = 1
    BY <1>2, <1>3, <1>4, SMT
  <1>6. r = IF n < m THEN n ELSE n - m
    BY <1>2, <1>5, SMT
  <1> QED BY <1>6 DEF r

-----------------------------------------------------------------------------
(* Counting, and doing over and over *)

\* What holds of 0, and of the next of each that it holds of, holds up to n.
LEMMA CountingUp ==
    ASSUME NEW G, NEW n \in Nat, 0 \in G, \A k \in 0..n : k # n /\ k \in G => k + 1 \in G
    PROVE  \A k \in 0..n : k \in G
  <1> DEFINE Missed == {k \in 0..n : k \notin G}
  <1> SUFFICES ASSUME Missed # {} PROVE FALSE
    OBVIOUS
  <1>1. PICK k \in Missed : \A m \in Missed : k <= m
    <2>1. Missed \in SUBSET Nat
      OBVIOUS
    <2> HIDE DEF Missed
    <2> QED BY <2>1, LeastExists
  <1>2. k \in 0..n /\ k \notin G /\ k # 0
    OBVIOUS
  <1>3. k - 1 \in 0..n /\ k - 1 # n /\ (k - 1) + 1 = k /\ ~(k <= k - 1)
    BY <1>2
  <1>4. k - 1 \in G
    BY <1>1, <1>3
  <1> QED BY <1>2, <1>3, <1>4

\* f begins with start and goes on by steps, n of them.
GoesBy(f, start, step, n) ==
    f[0] = start /\ \A k \in 0..n : k # n => f[k + 1] = step[<<k, f[k]>>]

\* What is done over and over has its results.
LEMMA Iterates ==
    ASSUME NEW S, NEW start \in S, NEW step \in [Nat \X S -> S], NEW n \in Nat
    PROVE  \E f \in [0..n -> S] : GoesBy(f, start, step, n)
  <1> DEFINE Fine(f, m) == GoesBy(f, start, step, m)
             G == {m \in Nat : \E f \in [0..m -> S] : Fine(f, m)}
  <1>1. 0 \in G
    <2>1. PICK f : f = [k \in 0..0 |-> start]
      OBVIOUS
    <2>2. f \in [0..0 -> S] /\ f[0] = start /\ \A k \in 0..0 : k = 0
      BY <2>1
    <2> QED BY <2>2 DEF GoesBy
  <1>2. ASSUME NEW m \in 0..n, m # n, m \in G PROVE m + 1 \in G
    <2>1. PICK f \in [0..m -> S] : Fine(f, m)
      BY <1>2
    <2>2. PICK x \in S : x = step[<<m, f[m]>>]
      <3>1. f[m] \in S /\ m \in Nat
        BY <1>2, <2>1
      <3> QED BY <3>1
    <2>3. PICK g : g = [k \in 0..m + 1 |-> IF k = m + 1 THEN x ELSE f[k]]
      OBVIOUS
    <2>4. /\ g \in [0..m + 1 -> S]
          /\ g[m + 1] = x
          /\ \A k \in 0..m : g[k] = f[k]
      <3>1. \A k \in 0..m + 1 : k # m + 1 => k \in 0..m
        OBVIOUS
      <3>2. \A k \in 0..m : k # m + 1 /\ k \in 0..m + 1
        OBVIOUS
      <3> QED BY <2>3, <3>1, <3>2
    <2>5. ASSUME NEW k \in 0..m + 1, k # m + 1 PROVE g[k + 1] = step[<<k, g[k]>>]
      <3>1. k \in 0..m
        BY <2>5
      <3>2. CASE k = m
        BY <2>2, <2>4, <3>1, <3>2
      <3>3. CASE k # m
        <4>1. k + 1 \in 0..m
          BY <3>1, <3>3
        <4> QED BY <2>1, <2>4, <3>1, <3>3, <4>1 DEF GoesBy
      <3> QED BY <3>2, <3>3
    <2>6. Fine(g, m + 1)
      BY <2>1, <2>4, <2>5 DEF GoesBy
    <2> QED BY <2>4, <2>6
  <1> HIDE DEF G
  <1>3. \A m \in 0..n : m \in G
    BY <1>1, <1>2, CountingUp
  <1>4. n \in G
    BY <1>3
  <1> QED BY <1>4 DEF G
=============================================================================
