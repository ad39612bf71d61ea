----------------------------- MODULE Induction -----------------------------
(***************************************************************************)
(* Induction and recursion over the naturals, stated with sets and         *)
(* functions in place of operators, so that the provers can use them.      *)
(***************************************************************************)
EXTENDS Integers, TLAPS, WellFoundedInduction

(* A set of naturals with any element has a least one.                     *)
LEMMA LeastExists ==
  ASSUME NEW S \in SUBSET Nat, S # {}
  PROVE  \E x \in S : \A y \in S : x =< y
<1> DEFINE R == {ss \in Nat \X Nat : ss[1] < ss[2]}
<1>1. IsWellFoundedOn(R, Nat)
  BY NatLessThanWellFounded DEF OpToRel
<1>2. \A x, y \in Nat : y < x => <<y, x>> \in R
  OBVIOUS
<1> HIDE DEF R
<1>3. PICK x \in S : \A y \in S : <<y, x>> \notin R
  BY <1>1, WFMin
<1>4. ASSUME NEW y \in S
      PROVE  x =< y
  <2>1. x \in Nat /\ y \in Nat
    OBVIOUS
  <2>2. ~(y < x)
    BY <1>2, <1>3, <2>1, Zenon
  <2> QED BY <2>1, <2>2
<1> QED BY <1>4

(* A bounded one has a greatest.                                           *)
LEMMA GreatestExists ==
  ASSUME NEW n \in Nat, NEW S \in SUBSET (0..n), S # {}
  PROVE  \E x \in S : \A y \in S : y =< x
<1> DEFINE T == {m \in Nat : n - m \in S}
<1>1. T # {}
  <2>1. PICK x \in S : TRUE
    OBVIOUS
  <2>2. n - x \in Nat /\ n - (n - x) = x
    OBVIOUS
  <2> QED BY <2>2
<1>2. PICK m \in T : \A k \in T : m =< k
  BY <1>1, LeastExists
<1>3. ASSUME NEW y \in S
      PROVE  y =< n - m
  <2>1. n - y \in Nat /\ n - (n - y) = y
    OBVIOUS
  <2>2. m =< n - y
    BY <1>2, <2>1
  <2> QED BY <2>2
<1> QED BY <1>3

(* A set that has 0, and up to n the successor of what it has.             *)
LEMMA SetInduction ==
  ASSUME NEW n \in Nat, NEW T,
         0 \in T, \A i \in 1..n : i - 1 \in T => i \in T
  PROVE  \A i \in 0..n : i \in T
<1> DEFINE Missing == {i \in 0..n : i \notin T}
<1> SUFFICES ASSUME Missing # {} PROVE FALSE
  OBVIOUS
<1>1. PICK m \in Missing : \A i \in Missing : m =< i
  <2>1. Missing \in SUBSET Nat
    OBVIOUS
  <2> HIDE DEF Missing
  <2> QED BY <2>1, LeastExists
<1>2. m \in 1..n
  OBVIOUS
<1>3. m - 1 \in 0..n /\ ~(m =< m - 1)
  BY <1>2
<1>4. m - 1 \in T
  BY <1>1, <1>3
<1> QED BY <1>2, <1>4

(* A function is defined by a first value and a step from each to the next.*)
Follows(g, n, first, step) ==
  g[0] = first /\ \A i \in 1..n : g[i] = step[i][g[i - 1]]

LEMMA RecursionExists ==
  ASSUME NEW n \in Nat, NEW S, NEW first \in S, NEW step \in [1..n -> [S -> S]]
  PROVE  \E g \in [0..n -> S] : Follows(g, n, first, step)
<1> DEFINE T == {m \in 0..n : \E g \in [0..m -> S] : Follows(g, m, first, step)}
<1>1. 0 \in T
  <2> DEFINE z == [k \in 0..0 |-> first]
  <2>1. z \in [0..0 -> S] /\ z[0] = first
    OBVIOUS
  <2>2. \A k \in 1..0 : FALSE
    OBVIOUS
  <2> HIDE DEF z
  <2>3. Follows(z, 0, first, step)
    BY <2>1, <2>2 DEF Follows
  <2> QED BY <2>1, <2>3
<1>2. ASSUME NEW i \in 1..n, i - 1 \in T
      PROVE  i \in T
  <2>1. PICK g \in [0..i - 1 -> S] : Follows(g, i - 1, first, step)
    BY <1>2
  <2> DEFINE h == [k \in 0..i |-> IF k = i THEN step[i][g[i - 1]] ELSE g[k]]
  <2>2. step[i][g[i - 1]] \in S
    <3>1. g[i - 1] \in S
      BY <2>1
    <3> QED BY <3>1
  <2>3. h \in [0..i -> S]
    BY <2>1, <2>2
  <2>4. h[0] = first
    BY <2>1 DEF Follows
  <2>5. ASSUME NEW k \in 1..i
        PROVE  h[k] = step[k][h[k - 1]]
    <3>1. CASE k = i
      <4>1. i \in 0..i /\ i - 1 \in 0..i /\ i - 1 # i /\ i - 1 \in 0..i - 1
        OBVIOUS
      <4> QED BY <3>1, <4>1
    <3>2. CASE k # i
      <4>1. k \in 1..(i - 1) /\ k - 1 \in 0..(i - 1) /\ k - 1 # i /\ k \in 0..i /\ k - 1 \in 0..i
        BY <3>2
      <4>2. h[k] = g[k] /\ h[k - 1] = g[k - 1]
        BY <3>2, <4>1
      <4>3. g[k] = step[k][g[k - 1]]
        BY <2>1, <4>1 DEF Follows
      <4> QED BY <4>2, <4>3
    <3> QED BY <3>1, <3>2
  <2> HIDE DEF h
  <2>6. Follows(h, i, first, step)
    BY <2>4, <2>5 DEF Follows
  <2> QED BY <2>3, <2>6
<1>3. n \in T
  <2> HIDE DEF T
  <2>1. \A i \in 0..n : i \in T
    BY <1>1, <1>2, SetInduction
  <2> QED BY <2>1
<1> QED BY <1>3
=============================================================================
