-------------------------- MODULE InductionLemmas --------------------------
(***************************************************************************)
(* Induction over data, with sets and functions in the place of predicates *)
(* and operators: the principle, and what a function defined by recursion  *)
(* over the elements of a sequence computes.                               *)
(***************************************************************************)
EXTENDS Integers, FiniteSetsExt, TLAPS, WellFoundedInduction

\* The relation < on the numbers, as a set of pairs.
Below == {p \in Nat \X Nat : p[1] < p[2]}

LEMMA BelowIsWellFounded == IsWellFoundedOn(Below, Nat)
<1>1. OpToRel(<, Nat) = Below
  BY Zenon DEF OpToRel, Below
<1> QED
  BY <1>1, NatLessThanWellFounded, Zenon

LEMMA LeastElement ==
    ASSUME NEW T, T \subseteq Nat, T # {}
    PROVE  \E x \in T : \A y \in T : x <= y
<1>1. \E x \in T : \A y \in T : <<y, x>> \notin Below
  BY BelowIsWellFounded, WFMin
<1>2. \A x, y \in Nat : <<y, x>> \in Below <=> y < x
  BY DEF Below
<1>3. PICK x \in T : \A y \in T : <<y, x>> \notin Below
  BY <1>1
<1>4. \A y \in T : x \in Nat /\ y \in Nat /\ ~(y < x)
  BY <1>2, <1>3
<1> QED
  BY <1>4

LEMMA Least ==
    ASSUME NEW T, T \subseteq Nat, T # {}
    PROVE  Min(T) \in T /\ \A y \in T : Min(T) <= y
<1>1. PICK x \in T : \A y \in T : x <= y
  BY LeastElement
<1> QED
  BY <1>1 DEF Min

\* A set of numbers with 0 and the successor of every member has every number.
LEMMA InductionOnSet ==
    ASSUME NEW S, 0 \in S, \A n \in Nat : n \in S => n + 1 \in S
    PROVE  Nat \subseteq S
<1> SUFFICES ASSUME Nat \ S # {} PROVE FALSE
  OBVIOUS
<1>1. PICK x \in Nat \ S : \A y \in Nat \ S : x <= y
  BY LeastElement
<1>2. x # 0
  BY <1>1
<1>3. x - 1 \in Nat /\ x - 1 \in S
  BY <1>1, <1>2
<1> QED
  BY <1>1, <1>3

\* The same up to a bound.
LEMMA InductionUpTo ==
    ASSUME NEW n \in Nat, NEW S, 0 \in S, \A i \in 0..n-1 : i \in S => i + 1 \in S
    PROVE  0..n \subseteq S
<1> DEFINE T == {i \in Nat : i <= n => i \in S}
<1>1. 0 \in T
  OBVIOUS
<1>2. \A i \in Nat : i \in T => i + 1 \in T
  OBVIOUS
<1>3. Nat \subseteq T
  <2> HIDE DEF T
  <2> QED
    BY <1>1, <1>2, InductionOnSet
<1> QED
  BY <1>3

\* What the recursion step, from base, gives for 0..n.
Recursion(n, V, base, step) ==
    {f \in [0..n -> V] : f[0] = base /\ \A i \in 1..n : f[i] = step[<<i, f[i-1]>>]}

LEMMA RecursionExtends ==
    ASSUME NEW n \in Nat, NEW V, NEW base \in V, NEW step \in [(1..n) \X V -> V],
           NEW k \in 0..n-1, NEW f \in Recursion(k, V, base, step)
    PROVE  Recursion(k + 1, V, base, step) # {}
<1> DEFINE g == [i \in 0..k+1 |-> IF i <= k THEN f[i] ELSE step[<<k + 1, f[k]>>]]
<1>1. f \in [0..k -> V] /\ f[0] = base /\ \A i \in 1..k : f[i] = step[<<i, f[i-1]>>]
  BY DEF Recursion
<1>2. step[<<k + 1, f[k]>>] \in V
  <2>1. f[k] \in V /\ k + 1 \in 1..n
    BY <1>1
  <2> QED
    BY <2>1
<1>3. g \in [0..k+1 -> V] /\ g[0] = base
  BY <1>1, <1>2
<1>4. \A i \in 1..k+1 : g[i] = step[<<i, g[i-1]>>]
  <2> SUFFICES ASSUME NEW i \in 1..k+1 PROVE g[i] = step[<<i, g[i-1]>>]
    OBVIOUS
  <2>1. g[i-1] = f[i-1]
    OBVIOUS
  <2>2. CASE i <= k
    <3>1. g[i] = f[i] /\ i \in 1..k
      BY <2>2
    <3> QED
      BY <1>1, <2>1, <3>1
  <2>3. CASE i = k + 1
    <3>1. ~(i <= k) /\ g[i] = step[<<k + 1, f[k]>>] /\ i - 1 = k
      BY <2>3
    <3> QED
      BY <2>1, <2>3, <3>1
  <2> QED
    BY <2>2, <2>3
<1> HIDE DEF g
<1> QED
  BY <1>3, <1>4 DEF Recursion

\* Some function satisfies a recursion that stays in a set.
LEMMA RecursionHasSolution ==
    ASSUME NEW n \in Nat, NEW V, NEW base \in V, NEW step \in [(1..n) \X V -> V]
    PROVE  Recursion(n, V, base, step) # {}
<1> DEFINE S == {k \in 0..n : Recursion(k, V, base, step) # {}}
<1>1. 0 \in S
  <2>1. [i \in 0..0 |-> base] \in Recursion(0, V, base, step)
    BY DEF Recursion
  <2> QED
    BY <2>1
<1>2. \A k \in 0..n-1 : k \in S => k + 1 \in S
  <2> SUFFICES ASSUME NEW k \in 0..n-1, k \in S PROVE k + 1 \in S
    OBVIOUS
  <2>1. PICK f : f \in Recursion(k, V, base, step)
    OBVIOUS
  <2>2. Recursion(k + 1, V, base, step) # {}
    BY <2>1, RecursionExtends
  <2> QED
    BY <2>2
<1>3. 0..n \subseteq S
  <2> HIDE DEF S
  <2> QED
    BY <1>1, <1>2, InductionUpTo
<1> QED
  BY <1>3
=============================================================================
