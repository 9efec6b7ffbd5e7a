------------------------------ MODULE Recursion ------------------------------
(***************************************************************************)
(* Induction and recursion on the natural numbers, for properties that are *)
(* given as sets and steps that are given as functions.                    *)
(***************************************************************************)
EXTENDS Integers, WellFoundedInduction, TLAPS

\* Every set of natural numbers that is not empty has a least element.
LEMMA LeastNatural == \A T \in SUBSET Nat : T # {} => \E m \in T : \A n \in T : m <= n
<1> SUFFICES ASSUME NEW T \in SUBSET Nat, T # {} PROVE \E m \in T : \A n \in T : m <= n
  OBVIOUS
<1>1. PICK R : R = OpToRel(<, Nat)
  OBVIOUS
<1>2. IsWellFoundedOn(R, Nat)
  BY <1>1, NatLessThanWellFounded, Zenon
<1>3. \A x, y \in Nat : x < y => <<x, y>> \in R
  BY <1>1 DEF OpToRel
<1>4. PICK m \in T : \A n \in T : <<n, m>> \notin R
  BY <1>2, WFMin
<1>5. ASSUME NEW n \in T PROVE m <= n
  <2>1. n \in Nat /\ m \in Nat
    OBVIOUS
  <2>2. ~(n < m)
    BY <1>3, <1>4, <2>1
  <2> QED BY <2>1, <2>2
<1> QED BY <1>5

\* A set that holds 0, and with a number the next one, holds all of them.
LEMMA SetInduction ==
  ASSUME NEW S \in SUBSET Nat, 0 \in S, \A n \in S : n + 1 \in S
  PROVE  S = Nat
<1> SUFFICES ASSUME Nat \ S # {} PROVE FALSE
  OBVIOUS
<1>1. PICK m \in Nat \ S : \A n \in Nat \ S : m <= n
  BY LeastNatural
<1>2. m # 0 /\ m \in Nat
  OBVIOUS
<1>3. m - 1 \in Nat /\ (m - 1) + 1 = m /\ m - 1 < m
  BY <1>2
<1>4. m - 1 \in S
  BY <1>1, <1>3
<1> QED BY <1>3, <1>4

\* The same up to n.
LEMMA IntervalInduction ==
  ASSUME NEW n \in Nat, NEW S, 0 \in S, \A i \in 0 .. n - 1 : i \in S => i + 1 \in S
  PROVE  0 .. n \subseteq S
<1> DEFINE T == {i \in Nat : i <= n => i \in S}
<1>1. 0 \in T
  OBVIOUS
<1>2. \A i \in T : i + 1 \in T
  OBVIOUS
<1>3. T = Nat
  BY <1>1, <1>2, SetInduction
<1> QED BY <1>3

\* g begins with x0, and each of its values follows from the one before.
Unfolds(n, x0, step, g) == g[0] = x0 /\ \A i \in 1 .. n : g[i] = step[i][g[i - 1]]

\* A step function determines the values from 0 to n.
LEMMA RecursionExists ==
  ASSUME NEW n \in Nat, NEW X, NEW x0 \in X, NEW step \in [1 .. n -> [X -> X]]
  PROVE  \E g \in [0 .. n -> X] : Unfolds(n, x0, step, g)
<1> DEFINE Rec(m, g) == g[0] = x0 /\ \A i \in 1 .. m : g[i] = step[i][g[i - 1]]
           S == {m \in Nat : \E g \in [0 .. m -> X] : Rec(m, g)}
<1>1. 0 \in S
  <2>1. [i \in 0 .. 0 |-> x0] \in [0 .. 0 -> X] /\ Rec(0, [i \in 0 .. 0 |-> x0])
    OBVIOUS
  <2> QED BY <2>1
<1>2. ASSUME NEW m \in 0 .. n - 1, m \in S PROVE m + 1 \in S
  <2>1. PICK g \in [0 .. m -> X] : Rec(m, g)
    BY <1>2
  <2>2. PICK x \in X : x = step[m + 1][g[m]]
    <3>1. m + 1 \in 1 .. n /\ g[m] \in X
      OBVIOUS
    <3>2. step[m + 1] \in [X -> X]
      BY <3>1
    <3> QED BY <3>1, <3>2
  <2>3. PICK h \in [0 .. m + 1 -> X] : h[m + 1] = x /\ \A i \in 0 .. m : h[i] = g[i]
    <3> DEFINE k == [i \in 0 .. m + 1 |-> IF i = m + 1 THEN x ELSE g[i]]
    <3>1. k \in [0 .. m + 1 -> X]
      OBVIOUS
    <3>2. k[m + 1] = x
      OBVIOUS
    <3>3. \A i \in 0 .. m : k[i] = g[i]
      OBVIOUS
    <3> HIDE DEF k
    <3> QED BY <3>1, <3>2, <3>3
  <2>4. Rec(m + 1, h)
    <3>1. h[0] = x0
      BY <2>1, <2>3
    <3>2. ASSUME NEW i \in 1 .. m + 1 PROVE h[i] = step[i][h[i - 1]]
      <4>1. CASE i = m + 1
        <5>1. i - 1 = m /\ m \in 0 .. m
          BY <4>1
        <5> QED BY <4>1, <5>1, <2>2, <2>3
      <4>2. CASE i # m + 1
        <5>1. i \in 1 .. m /\ i \in 0 .. m /\ i - 1 \in 0 .. m
          BY <4>2
        <5> QED BY <5>1, <2>1, <2>3
      <4> QED BY <4>1, <4>2
    <3> QED BY <3>1, <3>2 DEF Rec
  <2> QED BY <2>3, <2>4
<1> HIDE DEF S
<1>3. 0 .. n \subseteq S
  BY <1>1, <1>2, IntervalInduction
<1>4. n \in 0 .. n
  OBVIOUS
<1> QED BY <1>3, <1>4 DEF S, Unfolds
=============================================================================
