------------------------------- MODULE Induction -------------------------------
(******************************************************************************)
(* Induction over an interval, and functions defined by recursion over one,   *)
(* stated for sets and functions: a set of numbers takes the place of the     *)
(* predicate that is to be shown.                                             *)
(******************************************************************************)
EXTENDS Integers, WellFoundedInduction, TLAPS

(* A set that holds 0, and with a number the next one, holds the interval.    *)
LEMMA IntervalInduction ==
  ASSUME NEW n \in Nat, NEW S, 0 \in S, \A k \in 0 .. n - 1 : k \in S => k + 1 \in S
  PROVE  0 .. n \subseteq S
<1> DEFINE R == OpToRel(<, Nat)
           T == (0 .. n) \ S
<1> SUFFICES ASSUME T # {} PROVE FALSE
  OBVIOUS
<1>1. IsWellFoundedOn(R, Nat)
  BY NatLessThanWellFounded
<1>2. T \subseteq Nat
  OBVIOUS
<1>3. PICK k \in T : \A j \in T : ~(<<j, k>> \in R)
  <2> HIDE DEF R, T
  <2> QED
    BY <1>1, <1>2, WFMin
<1>4. k \in 0 .. n /\ k # 0 /\ k \notin S
  OBVIOUS
<1>5. k - 1 \in T
  BY <1>4
<1>6. <<k - 1, k>> \in R
  BY <1>4 DEF OpToRel
<1> QED
  BY <1>3, <1>5, <1>6

(* Steps over the numbers up to n, in a set A; and what it means for f to     *)
(* start at a and to follow them.                                             *)
Steps(n, A) == [(1 .. n) \X A -> A]
Follows(f, n, a, step) == f[0] = a /\ \A k \in 1 .. n : f[k] = step[<<k, f[k - 1]>>]

(* There is a function that follows them: what a definition by recursion, a   *)
(* CHOOSE, needs in order to mean anything.                                   *)
LEMMA RecursionExists ==
  ASSUME NEW n \in Nat, NEW A, NEW a \in A, NEW step \in Steps(n, A)
  PROVE  \E f \in [0 .. n -> A] : Follows(f, n, a, step)
<1> DEFINE S == {j \in 0 .. n : \E f \in [0 .. j -> A] : Follows(f, j, a, step)}
<1>1. 0 \in S
  <2>1. [i \in 0 .. 0 |-> a] \in [0 .. 0 -> A] /\ Follows([i \in 0 .. 0 |-> a], 0, a, step)
    BY DEF Follows
  <2> QED
    BY <2>1
<1>2. ASSUME NEW j \in 0 .. n - 1, j \in S PROVE j + 1 \in S
  <2>1. PICK f \in [0 .. j -> A] : Follows(f, j, a, step)
    BY <1>2
  <2> DEFINE g == [i \in 0 .. j + 1 |-> IF i = j + 1 THEN step[<<j + 1, f[j]>>] ELSE f[i]]
  <2>2. step[<<j + 1, f[j]>>] \in A
    BY DEF Steps
  <2>3. g \in [0 .. j + 1 -> A]
    BY <2>2
  <2>4. g[0] = a
    BY <2>1 DEF Follows
  <2>5. ASSUME NEW k \in 1 .. j + 1 PROVE g[k] = step[<<k, g[k - 1]>>]
    <3>1. CASE k = j + 1
      <4>1. g[k] = step[<<j + 1, f[j]>>] /\ g[k - 1] = f[j]
        BY <3>1
      <4> QED
        BY <3>1, <4>1
    <3>2. CASE k # j + 1
      <4>1. g[k] = f[k] /\ g[k - 1] = f[k - 1] /\ k \in 1 .. j
        BY <3>2
      <4> QED
        BY <4>1, <2>1 DEF Follows
    <3> QED
      BY <3>1, <3>2
  <2>6. Follows(g, j + 1, a, step)
    <3> HIDE DEF g
    <3> QED
      BY <2>4, <2>5 DEF Follows
  <2> QED
    BY <2>3, <2>6
<1>3. n \in S
  <2> HIDE DEF S
  <2> QED
    BY <1>1, <1>2, IntervalInduction
<1> QED
  BY <1>3
================================================================================
