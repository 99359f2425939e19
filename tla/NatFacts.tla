------------------------------ MODULE NatFacts ------------------------------
(* The least-number principle and recursion in a form without operator       *)
(* parameters, from which the other proof modules take their inductions.     *)
EXTENDS Integers, WellFoundedInduction, TLAPS

(* Every non-empty set of naturals has a least element. *)
LEMMA LeastNat ==
    ASSUME NEW T \in SUBSET Nat, T # {}
    PROVE  \E x \in T : \A y \in T : x <= y
<1>1. PICK x \in T : \A y \in T : ~(<<y, x>> \in OpToRel(<, Nat))
  BY NatLessThanWellFounded, WFMin, Zenon
<1>2. \A y \in T : ~(y < x)
  BY <1>1 DEF OpToRel
<1> QED
  BY <1>2

(* A value for m and a function from each value to the next define a         *)
(* function on m..n.                                                         *)
Steps(m, n, V) == [(m + 1)..n -> [V -> V]]

Iterates(g, m, n, base, step) ==
    \A i \in m..n : g[i] = IF i = m THEN base ELSE step[i][g[i - 1]]

LEMMA RecursionExists ==
    ASSUME NEW m \in Nat, NEW n \in Nat, NEW V, NEW base \in V,
           NEW step \in Steps(m, n, V)
    PROVE  \E g \in [m..n -> V] : Iterates(g, m, n, base, step)
<1> USE DEF Steps, Iterates
<1> DEFINE Solves(g, k) ==
               /\ g \in [m..k -> V]
               /\ \A i \in m..k : g[i] = IF i = m THEN base ELSE step[i][g[i - 1]]
           T == {k \in Nat : m <= k /\ k <= n /\ ~\E g : Solves(g, k)}
<1>1. CASE n < m
  <2>1. m..n = {}
    BY <1>1
  <2> DEFINE g == [i \in m..n |-> base]
  <2>2. g \in [m..n -> V]
    OBVIOUS
  <2> QED
    BY <2>1, <2>2
<1>2. CASE m <= n
  <2>1. T = {}
    <3> SUFFICES ASSUME T # {} PROVE FALSE
      OBVIOUS
    <3>1. PICK k \in T : \A y \in T : k <= y
      BY LeastNat
    <3>2. CASE k = m
      <4> DEFINE g == [i \in m..k |-> base]
      <4>1. Solves(g, k)
        BY <3>2
      <4> QED
        BY <3>1, <4>1
    <3>3. CASE k > m
      <4>0. k - 1 \in Nat /\ m <= k - 1 /\ k - 1 <= n /\ k - 1 \notin T
        <5>1. k \in Nat /\ k <= n
          OBVIOUS
        <5> HIDE DEF T
        <5> QED
          BY <3>1, <3>3, <5>1
      <4>1. PICK g : Solves(g, k - 1)
        <5> HIDE DEF Solves
        <5> QED
          BY <4>0
      <4> DEFINE h == [i \in m..k |-> IF i = k THEN step[k][g[k - 1]] ELSE g[i]]
      <4>2. k \in (m + 1)..n /\ k - 1 \in m..(k - 1)
        BY <3>1, <3>3
      <4>3. g[k - 1] \in V
        BY <4>1, <4>2
      <4>4. step[k][g[k - 1]] \in V
        BY <4>2, <4>3
      <4>5. h \in [m..k -> V]
        BY <4>1, <4>2, <4>4
      <4>6. ASSUME NEW i \in m..k
            PROVE  h[i] = IF i = m THEN base ELSE step[i][h[i - 1]]
        <5>1. CASE i = k
          <6>1. i # m /\ k - 1 \in m..k /\ k - 1 # k
            BY <3>3, <4>2, <5>1
          <6>2. h[k - 1] = g[k - 1] /\ h[k] = step[k][g[k - 1]]
            BY <6>1, <5>1
          <6> QED
            BY <5>1, <6>1, <6>2
        <5>2. CASE i # k
          <6>1. i \in m..(k - 1) /\ h[i] = g[i]
            BY <4>2, <5>2
          <6>2. g[i] = IF i = m THEN base ELSE step[i][g[i - 1]]
            BY <4>1, <6>1
          <6>3. i # m => i - 1 \in m..k /\ i - 1 # k
            BY <4>2, <6>1
          <6>4. i # m => h[i - 1] = g[i - 1]
            BY <6>3
          <6> QED
            BY <6>1, <6>2, <6>4
        <5> QED
          BY <5>1, <5>2
      <4>7. Solves(h, k)
        BY <4>5, <4>6
      <4> QED
        BY <3>1, <4>7
    <3> QED
      BY <3>1, <3>2, <3>3
  <2>2. PICK g : Solves(g, n)
    <3> HIDE DEF Solves
    <3>1. n \notin T
      BY <2>1
    <3> QED
      BY <1>2, <3>1
  <2> QED
    BY <2>2
<1> QED
  BY <1>1, <1>2
=============================================================================
