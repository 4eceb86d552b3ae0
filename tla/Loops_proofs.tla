---------------------------- MODULE Loops_proofs ----------------------------
(***************************************************************************)
(* Induction on numbers, and loops: functions that are defined by what     *)
(* they are at 0 and by what one step makes of them.                       *)
(***************************************************************************)
EXTENDS Integers, WellFoundedInduction, TLAPS

Before == {p \in Nat \X Nat : p[1] < p[2]}

\* What holds of 0 and of each successor holds of all numbers.
LEMMA Induction ==
  ASSUME NEW S, 0 \in S, \A k \in Nat : k \in S => k + 1 \in S
  PROVE  \A k \in Nat : k \in S
<1>1. IsWellFoundedOn(Before, Nat)
  BY NatLessThanWellFounded DEF OpToRel, Before
<1>2. SUFFICES ASSUME Nat \ S # {} PROVE FALSE
  OBVIOUS
<1>3. PICK m \in Nat \ S : \A n \in Nat \ S : <<n, m>> \notin Before
  BY <1>1, <1>2, WFMin
<1>4. m # 0 /\ m \in Nat
  BY <1>3
<1>5. m - 1 \in Nat /\ (m - 1) + 1 = m
  BY <1>4
<1>6. m - 1 \in Nat \ S
  BY <1>3, <1>5
<1>7. <<m - 1, m>> \in Before
  BY <1>4, <1>5 DEF Before
<1>8. QED BY <1>3, <1>6, <1>7

\* The steps of a loop, as a function of state and index, stay in a set.
Stays(S, F, n) == \A a \in S : \A k \in 0 .. n - 1 : F[<<a, k>>] \in S

\* The states that a loop goes through.
Loop(S, start, F, n, g) ==
  /\ g \in [0 .. n -> S] /\ g[0] = start
  /\ \A k \in 0 .. n - 1 : g[k + 1] = F[<<g[k], k>>]

\* A loop whose steps stay in a set can be carried out.
LEMMA LoopRuns ==
  ASSUME NEW S, NEW start \in S, NEW n \in Nat, NEW F, Stays(S, F, n)
  PROVE  \E g : Loop(S, start, F, n, g)
<1> USE DEF Loop
<1> DEFINE Run(g, m) == Loop(S, start, F, m, g)
           T == {m \in Nat : m <= n => \E g : Run(g, m)}
<1>1. 0 \in T
  <2> DEFINE g == [k \in 0 .. 0 |-> start]
  <2>1. g \in [0 .. 0 -> S] /\ g[0] = start
    OBVIOUS
  <2>3. \A k \in 0 .. 0 - 1 : FALSE
    OBVIOUS
  <2> HIDE DEF g
  <2>2. QED BY <2>1, <2>3
<1>2. ASSUME NEW m \in Nat, m \in T PROVE m + 1 \in T
  <2>1. SUFFICES ASSUME m + 1 <= n PROVE \E g : Run(g, m + 1)
    BY <1>2
  <2>2. PICK g : Run(g, m)
    BY <1>2, <2>1
  <2> DEFINE h == [k \in 0 .. m + 1 |-> IF k = m + 1 THEN F[<<g[m], m>>] ELSE g[k]]
  <2>3. m \in 0 .. n - 1 /\ m \in 0 .. m /\ g[m] \in S
    BY <1>2, <2>1, <2>2
  <2>4. F[<<g[m], m>>] \in S
    BY <2>3 DEF Stays
  <2>5. h \in [0 .. m + 1 -> S] /\ h[0] = start
    <3>1. \A k \in 0 .. m + 1 : k = m + 1 \/ k \in 0 .. m
      BY <1>2
    <3>2. \A k \in 0 .. m : g[k] \in S
      BY <2>2
    <3>3. \A k \in 0 .. m + 1 : (IF k = m + 1 THEN F[<<g[m], m>>] ELSE g[k]) \in S
      BY <2>4, <3>1, <3>2
    <3>4. 0 \in 0 .. m + 1 /\ 0 # m + 1
      BY <1>2
    <3>5. QED BY <2>2, <3>3, <3>4
  <2>6. ASSUME NEW k \in 0 .. (m + 1) - 1 PROVE h[k + 1] = F[<<h[k], k>>]
    <3>1. CASE k = m
      <4>1. m + 1 \in 0 .. m + 1 /\ m \in 0 .. m + 1 /\ m # m + 1
        BY <1>2
      <4>2. QED BY <3>1, <4>1
    <3>2. CASE k # m
      <4>1. k \in 0 .. m - 1 /\ k + 1 # m + 1 /\ k # m + 1 /\ k + 1 \in 0 .. m + 1 /\ k \in 0 .. m + 1
        BY <1>2, <3>2
      <4>2. h[k + 1] = g[k + 1] /\ h[k] = g[k]
        BY <4>1
      <4>3. g[k + 1] = F[<<g[k], k>>]
        BY <2>2, <4>1
      <4>4. QED BY <4>2, <4>3
    <3>3. QED BY <3>1, <3>2
  <2> HIDE DEF h
  <2>7. Run(h, m + 1)
    BY <2>5, <2>6
  <2>8. QED BY <2>7
<1> HIDE DEF T
<1>3. n \in T
  BY <1>1, <1>2, Induction
<1>4. QED BY <1>3 DEF T
=============================================================================
