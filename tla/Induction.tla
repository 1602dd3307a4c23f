------------------------------ MODULE Induction ------------------------------
(***************************************************************************)
(* Facts about numbers that the proofs of several components rest on.  An  *)
(* argument by induction is one about the least number at which a claim    *)
(* would fail; a running total is a function that adds something at every  *)
(* index.                                                                  *)
(***************************************************************************)
EXTENDS Integers, FiniteSets, FiniteSetTheorems, WellFoundedInduction, TLAPS

\* Every loop over an index has a first turn at which something goes wrong, if
\* it ever does.
LEMMA Least ==
  ASSUME NEW T \in SUBSET Nat, T # {}
  PROVE  \E n \in T : \A m \in T : n <= m
<1> DEFINE R == OpToRel(<, Nat)
<1>1. PICK n \in T : \A m \in T : ~ (<<m, n>> \in R)
  BY NatLessThanWellFounded, WFMin
<1>2. \A x, y \in Nat : x < y => <<x, y>> \in R
  BY DEF OpToRel
<1> HIDE DEF R
<1>3. \A m \in T : ~ (m < n)
  BY <1>1, <1>2
<1> QED BY <1>1, <1>3

\* The indices of a list of n elements.
LEMMA UpTo ==
  ASSUME NEW n \in Nat PROVE IsFiniteSet(1 .. n) /\ Cardinality(1 .. n) = n
  BY FS_Interval

\* g runs from lo to hi, starts with b and adds d[i] at i.
Totals(g, lo, hi, b, d) ==
  /\ g = [i \in lo .. hi |-> g[i]] /\ g[lo] = b
  /\ \A i \in lo + 1 .. hi : g[i] = g[i - 1] + d[i]

\* Such a running total is a number everywhere.
LEMMA TotalsType ==
  ASSUME NEW lo \in Nat, NEW hi \in Nat, lo <= hi, NEW b \in Int, NEW d,
         \A i \in lo + 1 .. hi : d[i] \in Int, NEW g, Totals(g, lo, hi, b, d)
  PROVE  g \in [lo .. hi -> Int]
<1> DEFINE T == {n \in lo .. hi : g[n] \notin Int}
<1>1. ASSUME T # {} PROVE FALSE
  <2>1. PICK n \in T : \A m \in T : n <= m
    <3>1. T \in SUBSET Nat
      OBVIOUS
    <3> HIDE DEF T
    <3> QED BY <1>1, <3>1, Least
  <2>2. n \in lo + 1 .. hi
    BY DEF Totals
  <2>3. n - 1 \in lo .. hi /\ n - 1 \notin T
    BY <2>1, <2>2
  <2>4. g[n - 1] \in Int /\ d[n] \in Int /\ g[n] = g[n - 1] + d[n]
    BY <2>2, <2>3 DEF Totals
  <2> QED BY <2>4
<1> QED BY <1>1 DEF Totals

\* There is one, as sum() and the loops of compute_sma() and
\* total_route_distance() suppose.
LEMMA TotalsExist ==
  ASSUME NEW lo \in Nat, NEW hi \in Nat, lo <= hi, NEW b \in Int, NEW d,
         \A i \in lo + 1 .. hi : d[i] \in Int
  PROVE  \E g : Totals(g, lo, hi, b, d)
<1> DEFINE T == {n \in lo .. hi : ~ \E g : Totals(g, lo, n, b, d)}
<1>1. ASSUME T # {} PROVE FALSE
  <2>1. PICK n \in T : \A m \in T : n <= m
    <3>1. T \in SUBSET Nat
      OBVIOUS
    <3> HIDE DEF T
    <3> QED BY <1>1, <3>1, Least
  <2>2. n \in lo .. hi /\ ~ \E g : Totals(g, lo, n, b, d)
    OBVIOUS
  <2>3. CASE n = lo
    <3>1. Totals([i \in lo .. lo |-> b], lo, lo, b, d)
      BY DEF Totals
    <3> QED BY <2>2, <2>3, <3>1
  <2>4. CASE n # lo
    <3>1. n - 1 \in lo .. hi /\ n - 1 \notin T
      BY <2>1, <2>2, <2>4
    <3>2. PICK g : Totals(g, lo, n - 1, b, d)
      BY <3>1
    <3> DEFINE h == [i \in lo .. n |-> IF i = n THEN g[n - 1] + d[n] ELSE g[i]]
    <3>3. h[lo] = b
      BY <2>2, <2>4, <3>2 DEF Totals
    <3>4. ASSUME NEW i \in lo + 1 .. n PROVE h[i] = h[i - 1] + d[i]
      <4>1. CASE i = n
        BY <2>2, <2>4, <4>1
      <4>2. CASE i # n
        <5>1. i \in lo + 1 .. n - 1
          BY <4>2
        <5>2. h[i] = g[i] /\ h[i - 1] = g[i - 1]
          BY <5>1
        <5> QED BY <3>2, <5>1, <5>2 DEF Totals
      <4> QED BY <4>1, <4>2
    <3>5. h = [i \in lo .. n |-> h[i]]
      OBVIOUS
    <3> HIDE DEF h
    <3>6. Totals(h, lo, n, b, d)
      BY <3>3, <3>4, <3>5 DEF Totals
    <3> QED BY <2>2, <3>6
  <2> QED BY <2>3, <2>4
<1> QED BY <1>1
=============================================================================
