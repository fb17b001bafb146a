----------------------------- MODULE Recursion -----------------------------
(***************************************************************************)
(* Induction over 0..n, stated of sets, and recursion, stated of functions *)
(* (the theorems of the library take operators): the loops of the code are *)
(* recursive functions of the number of turns made.                        *)
(***************************************************************************)
EXTENDS Integers, WellFoundedInduction, TLAPS

\* Induction, stated of a set: a set that has 0 and the successor of each number
\* it has has every number up to n.
LEMMA Counting ==
    ASSUME NEW n \in Nat, NEW K, 0 \in K, \A k \in 1..n : k - 1 \in K => k \in K
    PROVE  0..n \subseteq K
<1> DEFINE R == OpToRel(<, Nat)
           T == (0..n) \ K
<1>1. SUFFICES ASSUME T # {} PROVE FALSE
  OBVIOUS
<1>2. PICK least \in T : \A k \in T : <<k, least>> \notin R
  <2> HIDE DEF R
  <2>1. T \subseteq Nat
    OBVIOUS
  <2>2. IsWellFoundedOn(R, Nat)
    BY NatLessThanWellFounded, Zenon DEF R
  <2> HIDE DEF T
  <2> QED
    BY <1>1, <2>1, <2>2, WFMin, Zenon
<1>3. least - 1 \in T
  OBVIOUS
<1>4. <<least - 1, least>> \in R
  <2>1. R = {ss \in Nat \X Nat : ss[1] < ss[2]}
    BY Zenon DEF OpToRel
  <2> HIDE DEF R
  <2> QED
    BY <1>3, <2>1
<1> QED
  BY <1>2, <1>3, <1>4, Zenon

\* The step to each k up to n takes T[k - 1] to T[k].
Climbs(n, T, step) == \A k \in 1..n : \A x \in T[k - 1] : step[k][x] \in T[k]

\* f is defined by recursion over 0..n, and its value at each k is one of T[k].
Follows(f, n, T, base, step) ==
    /\ f = [k \in 0..n |-> IF k = 0 THEN base ELSE step[k][f[k - 1]]]
    /\ \A k \in 0..n : f[k] \in T[k]

\* A definition by recursion over 0..n has a value at each k, one of T[k], when
\* the step to k takes T[k - 1] to T[k].
LEMMA RecursionFollows ==
    ASSUME NEW n \in Nat, NEW T, NEW base \in T[0], NEW step, Climbs(n, T, step)
    PROVE  \E f : Follows(f, n, T, base, step)
<1> DEFINE Is(f, m) == Follows(f, m, T, base, step)
           K == {m \in Nat : \E f : Is(f, m)}
<1>1. 0 \in K
  <2> DEFINE g == [k \in 0..0 |-> base]
  <2>1. Is(g, 0)
    BY DEF Follows
  <2> QED
    BY <2>1, Zenon
<1>2. ASSUME NEW m \in 1..n, m - 1 \in K PROVE m \in K
  <2>1. PICK f : Is(f, m - 1)
    BY <1>2
  <2> DEFINE g == [k \in 0..m |-> IF k = m THEN step[m][f[m - 1]] ELSE f[k]]
  <2>2. g = [k \in 0..m |-> IF k = 0 THEN base ELSE step[k][g[k - 1]]]
    BY <2>1 DEF Follows
  <2>3. \A k \in 0..m : g[k] \in T[k]
    BY <2>1 DEF Climbs, Follows
  <2>4. Is(g, m)
    BY <2>2, <2>3, Zenon DEF Follows
  <2> HIDE DEF Is, g
  <2> QED
    BY <2>4
<1> HIDE DEF K
<1>3. n \in K
  BY <1>1, <1>2, Counting
<1> QED
  BY <1>3 DEF K
=============================================================================
