------------------------------ MODULE Stepwise ------------------------------
(***************************************************************************)
(* Induction over the naturals without an operator parameter: a set of     *)
(* naturals that is not empty has a least element.  From it, what the      *)
(* models need of recursive functions over the positions of a sequence:    *)
(* applying n functions one after the other goes through a list of         *)
(* intermediate results.                                                   *)
(***************************************************************************)
EXTENDS Naturals, WellFoundedInduction, TLAPS

\* A set of naturals has a least element.
LEMMA LeastNatural ==
    ASSUME NEW T, T \subseteq Nat, T # {}
    PROVE  \E n \in T : \A m \in T : n <= m
<1>1. PICK n \in T : \A m \in T : ~(<<m, n>> \in OpToRel(<, Nat))
  BY WFMin, NatLessThanWellFounded
<1>2. \A m \in T : m < n => <<m, n>> \in OpToRel(<, Nat)
  BY DEF OpToRel
<1>3. \A m \in T : ~(m < n)
  BY <1>1, <1>2, Zenon
<1> QED
  BY <1>3

\* Results(f, c, step, n): f holds what applying step[1], step[2], ... to c gives.
Results(f, c, step, n) ==
    /\ f[0] = c
    /\ \A i \in 1..n : f[i] = step[i][f[i - 1]]

\* Applying n functions in turn has results, one per position.
LEMMA ResultsExist ==
    ASSUME NEW S, NEW c \in S, NEW n \in Nat, NEW step \in [1..n -> [S -> S]]
    PROVE  \E f \in [0..n -> S] : Results(f, c, step, n)
<1> DEFINE Bad == {k \in 0..n : ~\E f \in [0..k -> S] : Results(f, c, step, k)}
<1>1. SUFFICES ASSUME Bad # {} PROVE FALSE
  <2>1. n \in 0..n
    OBVIOUS
  <2> QED
    BY <2>1
<1>2. PICK k \in Bad : \A m \in Bad : k <= m
  <2>1. Bad \subseteq Nat
    OBVIOUS
  <2> HIDE DEF Bad
  <2> QED
    BY <1>1, <2>1, LeastNatural
<1>3. k # 0
  <2>1. Results([i \in 0..0 |-> c], c, step, 0) /\ [i \in 0..0 |-> c] \in [0..0 -> S]
    BY DEF Results
  <2> QED
    BY <1>2, <2>1
<1>4. k - 1 \in 0..n /\ k - 1 \notin Bad
  <2>1. k \in 0..n
    BY <1>2
  <2>2. k - 1 \in 0..n /\ ~(k <= k - 1)
    BY <1>3, <2>1
  <2> QED
    BY <1>2, <2>2
<1>5. PICK f \in [0..(k - 1) -> S] : Results(f, c, step, k - 1)
  BY <1>4
<1> DEFINE g == [i \in 0..k |-> IF i = k THEN step[k][f[k - 1]] ELSE f[i]]
<1>6. k \in 1..n /\ k \in Nat
  BY <1>2, <1>3
<1>7. f[k - 1] \in S /\ step[k] \in [S -> S]
  BY <1>6
<1>8. g \in [0..k -> S]
  <2>1. step[k][f[k - 1]] \in S
    BY <1>7
  <2>2. \A i \in 0..k : i # k => i \in 0..(k - 1)
    BY <1>6
  <2> QED
    BY <2>1, <2>2
<1>9. Results(g, c, step, k)
  <2>1. g[0] = c
    BY <1>5, <1>6 DEF Results
  <2>2. ASSUME NEW i \in 1..k PROVE g[i] = step[i][g[i - 1]]
    <3>1. CASE i = k
      BY <1>6, <3>1
    <3>2. CASE i # k
      <4>1. i \in 1..(k - 1) /\ i \in 0..k /\ i - 1 \in 0..k /\ i - 1 # k
        BY <1>6, <3>2
      <4>2. f[i] = step[i][f[i - 1]]
        BY <1>5, <4>1 DEF Results
      <4> QED
        BY <3>2, <4>1, <4>2
    <3> QED
      BY <3>1, <3>2
  <2> HIDE DEF g
  <2> QED
    BY <2>1, <2>2 DEF Results
<1> HIDE DEF g
<1> QED
  BY <1>2, <1>8, <1>9
=============================================================================
