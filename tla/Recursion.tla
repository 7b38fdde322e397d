----------------------------- MODULE Recursion -----------------------------
(***************************************************************************)
(* What the proofs need of induction and of functions defined by recursion *)
(* (loops). The library states both with an operator as a parameter, which *)
(* the provers cannot instantiate; here sets and functions are parameters. *)
(***************************************************************************)
EXTENDS Integers, WellFoundedInduction, TLAPS

\* If S were not all of Nat, the rest would have a least element.
LEMMA SetInduction ==
  ASSUME NEW S, 0 \in S, \A n \in Nat : n \in S => n + 1 \in S
  PROVE  Nat \subseteq S
<1> SUFFICES ASSUME Nat \ S # {} PROVE FALSE
  OBVIOUS
<1> DEFINE T == Nat \ S
           R == OpToRel(<, Nat)
<1>1. IsWellFoundedOn(R, Nat)
  BY NatLessThanWellFounded, Zenon
<1>2. \A x, y \in Nat : x < y => <<x, y>> \in R
  BY Zenon DEF OpToRel
<1>3. T \subseteq Nat /\ T # {}
  OBVIOUS
<1> HIDE DEF R
<1>4. \E x \in T : \A y \in T : ~ (<<y, x>> \in R)
  <2> HIDE DEF T
  <2> QED BY <1>1, <1>3, WFMin, Zenon
<1>5. PICK x \in T : \A y \in T : ~ (<<y, x>> \in R)
  BY <1>4
<1>6. x \in Nat /\ x # 0
  OBVIOUS
<1>7. x - 1 \in Nat /\ x - 1 \notin S /\ x - 1 < x
  BY <1>6
<1> QED
  BY <1>2, <1>5, <1>6, <1>7

\* From 0 to n, one step at a time.
LEMMA RangeInduction ==
  ASSUME NEW n \in Nat, NEW S, 0 \in S, \A k \in 1 .. n : k - 1 \in S => k \in S
  PROVE  0 .. n \subseteq S
<1> DEFINE T == {m \in Nat : m \in 0 .. n => m \in S}
<1>1. 0 \in T
  OBVIOUS
<1>2. ASSUME NEW m \in Nat, m \in T PROVE m + 1 \in T
  <2> SUFFICES ASSUME m + 1 \in 0 .. n PROVE m + 1 \in S
    OBVIOUS
  <2>1. m + 1 \in 1 .. n /\ (m + 1) - 1 = m /\ m \in 0 .. n
    OBVIOUS
  <2>2. m \in S
    BY <1>2, <2>1
  <2> QED
    BY <2>1, <2>2
<1>3. Nat \subseteq T
  <2> HIDE DEF T
  <2> QED BY <1>1, <1>2, SetInduction
<1> QED
  BY <1>3

\* f starts with base, and every value comes from the one before by the step.
Recursive(f, n, base, step) ==
  /\ f = [k \in 0 .. n |-> f[k]]
  /\ f[0] = base /\ \A k \in 1 .. n : f[k] = step[k][f[k - 1]]

\* A function may be defined by recursion on 0 .. n: if the step takes what value k - 1
\* may be to what value k may be, it exists, and its values are such.
LEMMA RecursionExists ==
  ASSUME NEW n \in Nat, NEW V, NEW base \in V[0], NEW step,
         \A k \in 1 .. n : step[k] \in [V[k - 1] -> V[k]]
  PROVE  \E f : Recursive(f, n, base, step) /\ \A k \in 0 .. n : f[k] \in V[k]
<1> DEFINE Upto(m) == \E f : Recursive(f, m, base, step) /\ \A k \in 0 .. m : f[k] \in V[k]
           S == {m \in 0 .. n : Upto(m)}
<1>1. 0 \in S
  <2> DEFINE f == [k \in 0 .. 0 |-> base]
  <2>1. f = [k \in 0 .. 0 |-> f[k]]
    BY Zenon
  <2>2. f[0] = base /\ \A k \in 0 .. 0 : f[k] \in V[k]
    OBVIOUS
  <2>3. \A k \in 1 .. 0 : f[k] = step[k][f[k - 1]]
    OBVIOUS
  <2> HIDE DEF f
  <2>4. Recursive(f, 0, base, step)
    BY <2>1, <2>2, <2>3 DEF Recursive
  <2>5. Upto(0)
    BY <2>2, <2>4
  <2> HIDE DEF Upto
  <2> QED
    BY <2>5
<1>2. ASSUME NEW k0 \in 1 .. n, k0 - 1 \in S PROVE k0 \in S
  <2> DEFINE m == k0 - 1
  <2>0. /\ m \in Nat /\ k0 = m + 1 /\ m + 1 \in 1 .. n /\ (m + 1) - 1 = m
        /\ m \in 0 .. m /\ m + 1 \in 0 .. n
    OBVIOUS
  <2>1. PICK f : Recursive(f, m, base, step) /\ \A k \in 0 .. m : f[k] \in V[k]
    BY <1>2
  <2> HIDE DEF m
  <2> DEFINE g == [k \in 0 .. m + 1 |-> IF k = m + 1 THEN step[m + 1][f[m]] ELSE f[k]]
  <2>2. f[0] = base /\ \A k \in 1 .. m : f[k] = step[k][f[k - 1]]
    BY <2>1, Zenon DEF Recursive
  <2>3. g = [k \in 0 .. m + 1 |-> g[k]]
    BY Zenon
  <2>4. g[m + 1] = step[m + 1][f[m]] /\ \A k \in 0 .. m : g[k] = f[k]
    BY <2>0
  <2> HIDE DEF g
  <2>5. step[m + 1][f[m]] \in V[m + 1]
    <3>1. step[m + 1] \in [V[m] -> V[m + 1]] /\ f[m] \in V[m]
      BY <2>0, <2>1
    <3> QED
      BY <3>1
  <2>6. \A k \in 0 .. m + 1 : g[k] \in V[k]
    <3>1. \A k \in 0 .. m + 1 : k = m + 1 \/ k \in 0 .. m
      BY <2>0
    <3> QED
      BY <2>1, <2>4, <2>5, <3>1
  <2>7. g[0] = base
    BY <2>0, <2>2, <2>4
  <2>8. ASSUME NEW k \in 1 .. m + 1 PROVE g[k] = step[k][g[k - 1]]
    <3>1. CASE k = m + 1
      BY <2>0, <2>4, <3>1
    <3>2. CASE k # m + 1
      <4>1. k \in 1 .. m /\ k \in 0 .. m /\ k - 1 \in 0 .. m
        BY <2>0, <3>2
      <4> QED
        BY <2>2, <2>4, <4>1
    <3> QED
      BY <3>1, <3>2
  <2>9. Upto(m + 1)
    <3>1. Recursive(g, m + 1, base, step)
      BY <2>3, <2>7, <2>8, Zenon DEF Recursive
    <3> QED
      BY <2>6, <3>1
  <2> HIDE DEF Upto
  <2> QED
    BY <2>0, <2>9
<1>3. 0 .. n \subseteq S
  <2> HIDE DEF S
  <2> QED BY <1>1, <1>2, RangeInduction
<1>4. n \in S
  <2> HIDE DEF S
  <2> QED BY <1>3
<1> QED
  BY <1>4
=============================================================================
