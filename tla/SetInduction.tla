---------------------------- MODULE SetInduction ----------------------------
(***************************************************************************)
(* Induction over the natural numbers, as a fact about the set of those    *)
(* that have a property.                                                   *)
(***************************************************************************)
EXTENDS Integers, WellFoundedInduction, TLAPS

LEMMA NatSetInduction ==
  ASSUME NEW S, 0 \in S, \A n \in Nat : n \in S => n + 1 \in S
  PROVE  Nat \subseteq S
<1> DEFINE T == Nat \ S
           R == OpToRel(<, Nat)
<1> SUFFICES ASSUME T # {} PROVE FALSE
  OBVIOUS
<1>1. PICK n \in T : \A y \in T : ~(<<y, n>> \in R)
  BY NatLessThanWellFounded, WFMin
<1>2. n # 0 /\ n \in Nat /\ n \notin S
  OBVIOUS
<1>3. n - 1 \in Nat /\ n - 1 < n
  BY <1>2
<1>4. n - 1 \in S
  BY <1>1, <1>3 DEF OpToRel
<1> QED
  BY <1>2, <1>3, <1>4

\* The first values of a recursive function of a number: base, and from each
\* the next.
Runs(g, base, next, n) ==
  /\ g = [m \in 0..n |-> g[m]]
  /\ g[0] = base
  /\ \A m \in 1..n : g[m] = next[g[m - 1]]

LEMMA RunsExist ==
  ASSUME NEW S, NEW base \in S, NEW next \in [S -> S], NEW N \in Nat
  PROVE  \E g \in [0..N -> S] : Runs(g, base, next, N)
<1> DEFINE T == {m \in Nat : \E g \in [0..m -> S] : Runs(g, base, next, m)}
<1>1. 0 \in T
  <2> DEFINE g == [n \in 0..0 |-> base]
  <2>1. g \in [0..0 -> S] /\ Runs(g, base, next, 0)
    BY DEF Runs
  <2> HIDE DEF g
  <2> QED
    BY <2>1
<1>2. ASSUME NEW m \in Nat, m \in T PROVE m + 1 \in T
  <2>1. PICK g \in [0..m -> S] : Runs(g, base, next, m)
    BY <1>2
  <2> DEFINE h == [n \in 0..(m + 1) |-> IF n = m + 1 THEN next[g[m]] ELSE g[n]]
  <2>2. h \in [0..(m + 1) -> S] /\ h = [n \in 0..(m + 1) |-> h[n]]
    OBVIOUS
  <2>3. h[0] = base
    BY <2>1 DEF Runs
  <2>4. ASSUME NEW n \in 1..(m + 1) PROVE h[n] = next[h[n - 1]]
    <3>1. n - 1 \in 0..m /\ h[n - 1] = g[n - 1]
      OBVIOUS
    <3>2. CASE n = m + 1
      BY <3>1, <3>2
    <3>3. CASE n \in 1..m
      <4>1. h[n] = g[n]
        BY <3>3
      <4> QED
        BY <2>1, <3>1, <3>3, <4>1 DEF Runs
    <3> QED
      BY <3>2, <3>3
  <2> HIDE DEF h
  <2>5. Runs(h, base, next, m + 1)
    BY <2>2, <2>3, <2>4 DEF Runs
  <2> QED
    BY <2>2, <2>5
<1> HIDE DEF T
<1>3. N \in T
  BY <1>1, <1>2, NatSetInduction
<1> QED
  BY <1>3 DEF T
=============================================================================
