----------------------------- MODULE NumberFacts -----------------------------
(***************************************************************************)
(* What the proofs need to know of numbers beyond arithmetic: smallest and *)
(* largest elements, and induction over a set of numbers.  All of it comes *)
(* from the well-foundedness of < on the natural numbers.                  *)
(***************************************************************************)
EXTENDS Integers, Sequences, WellFoundedInduction, TLAPS

Less == { e \in Nat \X Nat : e[1] < e[2] }

LEMMA LessIsWellFounded == IsWellFoundedOn(Less, Nat)
  BY NatLessThanWellFounded, Zenon DEF OpToRel, Less

(* A set of numbers that is not empty has a smallest one. *)
LEMMA SmallestExists ==
  ASSUME NEW T, T \subseteq Nat, T # {}
  PROVE  \E x \in T : \A y \in T : x <= y
<1>1. PICK x \in T : \A y \in T : ~ (<< y, x >> \in Less)
  BY LessIsWellFounded, WFMin
<1>2. ASSUME NEW y \in T PROVE x <= y
  <2>1. x \in Nat /\ y \in Nat /\ ~ (<< y, x >> \in Less)
    BY <1>1
  <2>2. ~ (y < x)
    BY <2>1 DEF Less
  <2> QED
    BY <2>1, <2>2
<1> QED
  BY <1>2

(* What holds of 0 and passes from k to k + 1 holds of every number; the   *)
(* numbers it holds of are given as a set.                                 *)
LEMMA Induction ==
  ASSUME NEW T, 0 \in T, \A k \in Nat : k \in T => k + 1 \in T
  PROVE  Nat \subseteq T
<1>1. SUFFICES ASSUME Nat \ T # {} PROVE FALSE
  OBVIOUS
<1>2. PICK x \in Nat \ T : \A y \in Nat \ T : x <= y
  BY <1>1, SmallestExists
<1>3. x # 0
  BY <1>2
<1>4. x - 1 \in Nat /\ x - 1 \in T
  BY <1>2, <1>3
<1>5. (x - 1) + 1 = x
  BY <1>2
<1> QED
  BY <1>2, <1>4, <1>5

(* The same for integers that are bounded from one side. *)
LEMMA LowestExists ==
  ASSUME NEW T, T \subseteq Int, T # {}, NEW bound \in Nat, \A y \in T : -bound <= y
  PROVE  \E x \in T : \A y \in T : x <= y
<1> DEFINE shifted == { y + bound : y \in T }
<1>1. shifted \subseteq Nat /\ shifted # {}
  <2>1. ASSUME NEW y \in T PROVE y + bound \in Nat
    <3>1. y \in Int
      OBVIOUS
    <3> QED
      BY <3>1
  <2>2. PICK y \in T : TRUE
    OBVIOUS
  <2>3. y + bound \in shifted
    BY <2>2
  <2> QED
    BY <2>1, <2>3
<1>2. PICK z \in shifted : \A y \in shifted : z <= y
  <2> HIDE DEF shifted
  <2> QED
    BY <1>1, SmallestExists
<1>3. PICK x \in T : z = x + bound
  BY <1>2
<1>4. ASSUME NEW y \in T PROVE x <= y
  <2>1. z <= y + bound /\ x \in Int /\ y \in Int
    BY <1>2
  <2> QED
    BY <1>3, <2>1
<1> QED
  BY <1>4

LEMMA HighestExists ==
  ASSUME NEW T, T \subseteq Int, T # {}, NEW bound \in Nat, \A y \in T : y <= bound
  PROVE  \E x \in T : \A y \in T : y <= x
<1> DEFINE mirrored == { bound - y : y \in T }
<1>1. mirrored \subseteq Nat /\ mirrored # {}
  <2>1. ASSUME NEW y \in T PROVE bound - y \in Nat
    <3>1. y \in Int
      OBVIOUS
    <3> QED
      BY <3>1
  <2>2. PICK y \in T : TRUE
    OBVIOUS
  <2>3. bound - y \in mirrored
    BY <2>2
  <2> QED
    BY <2>1, <2>3
<1>2. PICK z \in mirrored : \A y \in mirrored : z <= y
  <2> HIDE DEF mirrored
  <2> QED
    BY <1>1, SmallestExists
<1>3. PICK x \in T : z = bound - x
  BY <1>2
<1>4. ASSUME NEW y \in T PROVE y <= x
  <2>1. z <= bound - y /\ x \in Int /\ y \in Int
    BY <1>2
  <2> QED
    BY <1>3, <2>1
<1> QED
  BY <1>4

(* The elements of a sequence of integers are bounded. *)
LEMMA SequenceIsBounded ==
  ASSUME NEW s \in Seq(Int)
  PROVE  \E bound \in Nat : \A i \in DOMAIN s : -bound <= s[i] /\ s[i] <= bound
<1> DEFINE Bounded(k) == \E bound \in Nat : \A i \in DOMAIN s : i <= k => -bound <= s[i] /\ s[i] <= bound
           T == { k \in Nat : Bounded(k) }
<1>1. DOMAIN s = 1 .. Len(s) /\ Len(s) \in Nat /\ \A i \in DOMAIN s : s[i] \in Int
  OBVIOUS
<1>2. 0 \in T
  <2>1. \A i \in DOMAIN s : i <= 0 => -0 <= s[i] /\ s[i] <= 0
    BY <1>1
  <2> QED
    BY <2>1
<1>3. ASSUME NEW k \in Nat, k \in T PROVE k + 1 \in T
  <2>1. PICK bound \in Nat : \A i \in DOMAIN s : i <= k => -bound <= s[i] /\ s[i] <= bound
    BY <1>3
  <2>2. CASE k + 1 \notin DOMAIN s
    <3>1. \A i \in DOMAIN s : i <= k + 1 => i <= k
      BY <1>1, <2>2
    <3> QED
      BY <2>1, <3>1
  <2>3. CASE k + 1 \in DOMAIN s
    <3> DEFINE v == s[k + 1]
               size == IF v >= 0 THEN v ELSE -v
               larger == bound + size
    <3>1. v \in Int /\ size \in Nat /\ larger \in Nat
      BY <1>1, <2>3
    <3>2. ASSUME NEW i \in DOMAIN s, i <= k + 1
          PROVE -larger <= s[i] /\ s[i] <= larger
      <4>1. CASE i = k + 1
        BY <3>1, <4>1
      <4>2. CASE i # k + 1
        <5>1. i <= k /\ s[i] \in Int
          BY <1>1, <3>2, <4>2
        <5>2. -bound <= s[i] /\ s[i] <= bound
          BY <2>1, <5>1
        <5> HIDE DEF v
        <5> QED
          BY <3>1, <5>1, <5>2
      <4> QED
        BY <4>1, <4>2
    <3> HIDE DEF larger
    <3>3. \A i \in DOMAIN s : i <= k + 1 => -larger <= s[i] /\ s[i] <= larger
      BY <3>2
    <3> QED
      BY <3>1, <3>3
  <2> QED
    BY <2>2, <2>3
<1>4. Len(s) \in T
  <2> HIDE DEF T
  <2> QED
    BY <1>1, <1>2, <1>3, Induction
<1>5. PICK bound \in Nat : \A i \in DOMAIN s : i <= Len(s) => -bound <= s[i] /\ s[i] <= bound
  BY <1>4
<1> QED
  BY <1>1, <1>5

(* A function of 0 .. n that is defined from its value at k - 1 exists,    *)
(* and has its values in S when the base and the steps have.               *)
Recurs(g, m, base, next) == g[0] = base /\ \A k \in 1 .. m : g[k] = next[<< k, g[k - 1] >>]

LEMMA RecursionExists ==
  ASSUME NEW S, NEW n \in Nat, NEW base \in S, NEW next \in [(1 .. n) \X S -> S]
  PROVE  \E g \in [0 .. n -> S] : Recurs(g, n, base, next)
<1> DEFINE Solves(g, m) == Recurs(g, m, base, next)
           T == { m \in Nat : m <= n => \E g \in [0 .. m -> S] : Solves(g, m) }
<1>1. 0 \in T
  <2> DEFINE g == [k \in 0 .. 0 |-> base]
  <2>1. g \in [0 .. 0 -> S] /\ g[0] = base
    OBVIOUS
  <2>2. Solves(g, 0)
    BY <2>1 DEF Recurs
  <2> QED
    BY <2>1, <2>2
<1>2. ASSUME NEW m \in Nat, m \in T PROVE m + 1 \in T
  <2>1. SUFFICES ASSUME m + 1 <= n PROVE \E g \in [0 .. m + 1 -> S] : Solves(g, m + 1)
    OBVIOUS
  <2>2. PICK g \in [0 .. m -> S] : Solves(g, m)
    BY <1>2, <2>1
  <2> DEFINE last == next[<< m + 1, g[m] >>]
             h == [k \in 0 .. m + 1 |-> IF k = m + 1 THEN last ELSE g[k]]
  <2>3. last \in S
    <3>1. g[m] \in S /\ m + 1 \in 1 .. n
      BY <2>1, <2>2
    <3> QED
      BY <3>1
  <2> HIDE DEF last
  <2>4. \A k \in 0 .. m : h[k] = g[k] /\ g[k] \in S
    BY <2>2
  <2>5. h[m + 1] = last
    OBVIOUS
  <2>6. h \in [0 .. m + 1 -> S]
    <3>1. \A k \in 0 .. m + 1 : (IF k = m + 1 THEN last ELSE g[k]) \in S
      BY <2>2, <2>3
    <3> QED
      BY <3>1
  <2> HIDE DEF h
  <2>7. ASSUME NEW k \in 1 .. m + 1 PROVE h[k] = next[<< k, h[k - 1] >>]
    <3>1. CASE k = m + 1
      <4>1. k - 1 = m /\ h[m] = g[m]
        BY <2>4, <3>1
      <4> QED
        BY <2>5, <3>1, <4>1 DEF last
    <3>2. CASE k # m + 1
      <4>1. k \in 1 .. m /\ k \in 0 .. m /\ k - 1 \in 0 .. m
        BY <3>2
      <4> QED
        BY <2>2, <2>4, <4>1 DEF Recurs
    <3> QED
      BY <3>1, <3>2
  <2>8. h[0] = base
    BY <2>2, <2>4 DEF Recurs
  <2>9. Solves(h, m + 1)
    BY <2>7, <2>8 DEF Recurs
  <2> HIDE DEF Solves
  <2> QED
    BY <2>6, <2>9
<1>3. n \in T
  <2> HIDE DEF T
  <2> QED
    BY <1>1, <1>2, Induction
<1> QED
  BY <1>3
=============================================================================
