------------------------------ MODULE Recursion -------------------------------
(***************************************************************************)
(* Induction and recursion over the numbers, stated of sets and functions, *)
(* so that they can be cited with any of them.                             *)
(***************************************************************************)
EXTENDS Integers, WellFoundedInduction, TLAPS

(* A set of numbers that is not empty has a least one. *)
LEMMA LeastNumber ==
  ASSUME NEW T \in SUBSET Nat, T # {}
  PROVE  \E k \in T : \A j \in T : k <= j
<1>1. PICK k \in T : \A j \in T : <<j, k>> \notin OpToRel(<, Nat)
  BY NatLessThanWellFounded, WFMin
<1>2. \A j \in T : ~(j < k)
  BY <1>1 DEF OpToRel
<1> QED BY <1>2

(* What holds of 0, and of the number behind each of which it holds. *)
LEMMA Induction ==
  ASSUME NEW T, 0 \in T, \A n \in Nat : n \in T => n + 1 \in T
  PROVE  Nat \subseteq T
<1> SUFFICES ASSUME Nat \ T # {} PROVE FALSE
  OBVIOUS
<1>1. PICK k \in Nat \ T : \A j \in Nat \ T : k <= j
  <2>1. Nat \ T \in SUBSET Nat
    OBVIOUS
  <2> QED BY <2>1, LeastNumber
<1>2. k # 0 /\ k - 1 \in Nat /\ k - 1 + 1 = k
  BY <1>1
<1>3. k - 1 \in T
  BY <1>1, <1>2
<1> QED BY <1>1, <1>2, <1>3

\* What makes the value at n + 1 of n and the value at n, and the function that
\* starts with base and goes on with step.
Steps(S) == [Nat \X S -> S]

Recurs(g, S, base, step) ==
  /\ g \in [Nat -> S] /\ g[0] = base
  /\ \A n \in Nat : g[n + 1] = step[<<n, g[n]>>]

\* g follows the recursion as far as k.
Follows(g, k, S, base, step) ==
  /\ g \in [0 .. k -> S] /\ g[0] = base
  /\ \A n \in 0 .. k - 1 : g[n + 1] = step[<<n, g[n]>>]

(* A list of values that follows the steps has a next one. *)
LEMMA FollowsLonger ==
  ASSUME NEW S, NEW base \in S, NEW step \in Steps(S), NEW k \in Nat,
         NEW g, Follows(g, k, S, base, step)
  PROVE  \E h : Follows(h, k + 1, S, base, step)
<1> DEFINE h == [n \in 0 .. k + 1 |-> IF n = k + 1 THEN step[<<k, g[k]>>] ELSE g[n]]
<1>1. g \in [0 .. k -> S] /\ g[0] = base /\ \A n \in 0 .. k - 1 : g[n + 1] = step[<<n, g[n]>>]
  BY DEF Follows
<1>2. g[k] \in S /\ step[<<k, g[k]>>] \in S
  BY <1>1 DEF Steps
<1>3. /\ h \in [0 .. k + 1 -> S] /\ h[0] = base /\ h[k + 1] = step[<<k, g[k]>>]
      /\ \A n \in 0 .. k : h[n] = g[n]
  BY <1>1, <1>2
<1> HIDE DEF h
<1>4. ASSUME NEW n \in 0 .. k + 1 - 1 PROVE h[n + 1] = step[<<n, h[n]>>]
  <2>1. CASE n = k
    BY <1>3, <2>1
  <2>2. CASE n # k
    <3>1. n \in 0 .. k - 1 /\ n + 1 \in 0 .. k /\ n \in 0 .. k
      BY <2>2
    <3> QED BY <1>1, <1>3, <3>1
  <2> QED BY <2>1, <2>2
<1>5. Follows(h, k + 1, S, base, step)
  BY <1>3, <1>4 DEF Follows
<1> QED BY <1>5

(* Two that follow it agree as far as both go. *)
LEMMA FollowsOnce ==
  ASSUME NEW S, NEW base, NEW step, NEW k \in Nat, NEW m \in Nat, k <= m,
         NEW g, Follows(g, k, S, base, step), NEW h, Follows(h, m, S, base, step)
  PROVE  g[k] = h[k]
<1> DEFINE T == {n \in Nat : n <= k => g[n] = h[n]}
<1>1. /\ g[0] = base /\ h[0] = base
      /\ \A n \in 0 .. k - 1 : g[n + 1] = step[<<n, g[n]>>]
      /\ \A n \in 0 .. m - 1 : h[n + 1] = step[<<n, h[n]>>]
  BY DEF Follows
<1>2. 0 \in T
  BY <1>1
<1>3. ASSUME NEW n \in Nat, n \in T PROVE n + 1 \in T
  <2>1. CASE n + 1 <= k
    <3>1. n \in 0 .. k - 1 /\ n \in 0 .. m - 1 /\ n <= k
      BY <2>1
    <3>2. g[n] = h[n]
      BY <1>3, <3>1
    <3>3. g[n + 1] = step[<<n, g[n]>>] /\ h[n + 1] = step[<<n, h[n]>>]
      BY <1>1, <3>1
    <3> QED BY <3>2, <3>3
  <2>2. CASE ~(n + 1 <= k)
    BY <2>2
  <2> QED BY <2>1, <2>2
<1> HIDE DEF T
<1>4. Nat \subseteq T
  BY <1>2, <1>3, Induction
<1> QED BY <1>4 DEF T

(* A start and a step define a function on the numbers. *)
THEOREM RecursionDefines ==
  ASSUME NEW S, NEW base \in S, NEW step \in Steps(S)
  PROVE  \E g : Recurs(g, S, base, step)
<1> DEFINE T == {k \in Nat : \E g : Follows(g, k, S, base, step)}
<1>1. \A k \in Nat : \E g : Follows(g, k, S, base, step)
  <2>1. 0 \in T
    <3>1. Follows([n \in 0 .. 0 |-> base], 0, S, base, step)
      BY DEF Follows
    <3> QED BY <3>1
  <2>2. \A k \in Nat : k \in T => k + 1 \in T
    BY FollowsLonger
  <2> HIDE DEF T
  <2>3. Nat \subseteq T
    BY <2>1, <2>2, Induction
  <2> QED BY <2>3 DEF T
<1> DEFINE part == [k \in Nat |-> CHOOSE g : Follows(g, k, S, base, step)]
           all == [k \in Nat |-> part[k][k]]
<1>2. \A k \in Nat : Follows(part[k], k, S, base, step)
  BY <1>1
<1> HIDE DEF part
<1>3. all \in [Nat -> S]
  BY <1>2 DEF Follows
<1>4. all[0] = base
  BY <1>2 DEF Follows
<1>5. ASSUME NEW n \in Nat PROVE all[n + 1] = step[<<n, all[n]>>]
  <2>1. Follows(part[n], n, S, base, step) /\ Follows(part[n + 1], n + 1, S, base, step)
    BY <1>2
  <2>2. part[n][n] = part[n + 1][n]
    BY <2>1, FollowsOnce
  <2>3. part[n + 1][n + 1] = step[<<n, part[n + 1][n]>>]
    BY <2>1 DEF Follows
  <2> QED BY <2>2, <2>3
<1>6. Recurs(all, S, base, step)
  BY <1>3, <1>4, <1>5 DEF Recurs
<1> QED BY <1>6

(* The same for a function on the numbers up to k, as a model defines one. *)
LEMMA RecursionUpTo ==
  ASSUME NEW S, NEW base \in S, NEW step \in Steps(S), NEW k \in Nat
  PROVE  \E g : /\ g = [n \in 0 .. k |-> IF n = 0 THEN base ELSE step[<<n - 1, g[n - 1]>>]]
                /\ g \in [0 .. k -> S]
<1>1. PICK f : Recurs(f, S, base, step)
  BY RecursionDefines
<1>2. f \in [Nat -> S] /\ f[0] = base /\ \A n \in Nat : f[n + 1] = step[<<n, f[n]>>]
  BY <1>1 DEF Recurs
<1> DEFINE g == [n \in 0 .. k |-> f[n]]
<1>3. \A n \in 0 .. k : n # 0 => g[n] = step[<<n - 1, g[n - 1]>>]
  <2> SUFFICES ASSUME NEW n \in 0 .. k, n # 0 PROVE f[n] = step[<<n - 1, f[n - 1]>>]
    OBVIOUS
  <2>1. PICK m \in Nat : n = m + 1 /\ n - 1 = m
    <3>1. n - 1 \in Nat /\ n = n - 1 + 1
      OBVIOUS
    <3> QED BY <3>1
  <2> QED BY <1>2, <2>1
<1>4. g[0] = base
  BY <1>2
<1>5. g = [n \in 0 .. k |-> g[n]] /\ g \in [0 .. k -> S]
  BY <1>2
<1> HIDE DEF g
<1>6. g = [n \in 0 .. k |-> IF n = 0 THEN base ELSE step[<<n - 1, g[n - 1]>>]]
  BY <1>3, <1>4, <1>5
<1> QED BY <1>5, <1>6

\* The function on the numbers up to k that starts with base and goes on with step.
GoesOn(g, k, base, step) ==
  g = [n \in 0 .. k |-> IF n = 0 THEN base ELSE step[<<n, g[n - 1]>>]]

(* Steps that keep to sets I[0], I[1], ... define such a function, even if a *)
(* step says nothing of what is outside.                                     *)
LEMMA StepsWithin ==
  ASSUME NEW S, NEW k \in Nat, NEW I \in [0 .. k -> SUBSET S], NEW base \in I[0], NEW step,
         \A n \in 1 .. k : \A x \in I[n - 1] : step[<<n, x>>] \in I[n]
  PROVE  \E g : GoesOn(g, k, base, step) /\ \A n \in 0 .. k : g[n] \in I[n]
<1> DEFINE safe == [y \in Nat \X S |->
                      IF y[1] + 1 \in 1 .. k /\ y[2] \in I[y[1]] THEN step[<<y[1] + 1, y[2]>>]
                      ELSE base]
<1>1. base \in S
  OBVIOUS
<1>2. safe \in Steps(S)
  <2> SUFFICES ASSUME NEW n \in Nat, NEW x \in S, n + 1 \in 1 .. k, x \in I[n]
               PROVE  step[<<n + 1, x>>] \in S
    BY <1>1 DEF Steps
  <2>1. PICK m \in 1 .. k : m = n + 1 /\ m - 1 = n
    <3>1. n + 1 - 1 = n
      OBVIOUS
    <3> QED BY <3>1
  <2>2. step[<<m, x>>] \in I[m] /\ I[m] \in SUBSET S
    BY <2>1
  <2> QED BY <2>1, <2>2
<1>3. \A n \in 1 .. k : \A x \in I[n - 1] : safe[<<n - 1, x>>] = step[<<n, x>>]
  <2> SUFFICES ASSUME NEW n \in 1 .. k, NEW x \in I[n - 1]
               PROVE  safe[<<n - 1, x>>] = step[<<n, x>>]
    OBVIOUS
  <2>1. n - 1 \in Nat /\ n - 1 \in 0 .. k /\ n - 1 + 1 = n
    OBVIOUS
  <2>2. x \in S
    BY <2>1
  <2> QED BY <2>1, <2>2
<1> HIDE DEF safe
<1>4. PICK g : /\ g = [n \in 0 .. k |-> IF n = 0 THEN base ELSE safe[<<n - 1, g[n - 1]>>]]
               /\ g \in [0 .. k -> S]
  BY <1>1, <1>2, RecursionUpTo
<1>5. g[0] = base /\ \A n \in 1 .. k : g[n] = safe[<<n - 1, g[n - 1]>>]
  <2>1. \A n \in 0 .. k : g[n] = IF n = 0 THEN base ELSE safe[<<n - 1, g[n - 1]>>]
    BY <1>4, Zenon
  <2>2. 0 \in 0 .. k /\ \A n \in 1 .. k : n \in 0 .. k /\ n # 0
    OBVIOUS
  <2> QED BY <2>1, <2>2, Zenon
<1> DEFINE T == {n \in Nat : n <= k => g[n] \in I[n]}
<1>6. 0 \in T
  BY <1>5
<1>7. ASSUME NEW n \in Nat, n \in T PROVE n + 1 \in T
  <2> SUFFICES ASSUME n + 1 <= k PROVE g[n + 1] \in I[n + 1]
    OBVIOUS
  <2>1. PICK m \in 1 .. k : m = n + 1 /\ m - 1 = n
    <3>1. n + 1 - 1 = n /\ n + 1 \in 1 .. k
      OBVIOUS
    <3> QED BY <3>1
  <2>2. g[m - 1] \in I[m - 1]
    BY <1>7, <2>1
  <2>3. g[m] = step[<<m, g[m - 1]>>]
    BY <1>3, <1>5, <2>2
  <2> QED BY <2>1, <2>2, <2>3
<1>8. \A n \in 0 .. k : g[n] \in I[n]
  <2> HIDE DEF T
  <2>1. Nat \subseteq T
    BY <1>6, <1>7, Induction
  <2> QED BY <2>1 DEF T
<1>9. \A n \in 1 .. k : g[n] = step[<<n, g[n - 1]>>]
  <2> SUFFICES ASSUME NEW n \in 1 .. k PROVE g[n] = step[<<n, g[n - 1]>>]
    OBVIOUS
  <2>1. n - 1 \in 0 .. k
    OBVIOUS
  <2> QED BY <1>3, <1>5, <1>8, <2>1
<1>10. g = [n \in 0 .. k |-> g[n]]
  BY <1>4
<1>11. GoesOn(g, k, base, step)
  <2>1. \A n \in 0 .. k : g[n] = IF n = 0 THEN base ELSE step[<<n, g[n - 1]>>]
    BY <1>5, <1>9
  <2> QED BY <1>10, <2>1 DEF GoesOn
<1> QED BY <1>8, <1>11

(* A function that keeps to them from each number to the next is in them. *)
LEMMA StaysWithin ==
  ASSUME NEW k \in Nat, NEW I, NEW h, h[0] \in I[0],
         \A n \in 1 .. k : h[n - 1] \in I[n - 1] => h[n] \in I[n]
  PROVE  \A n \in 0 .. k : h[n] \in I[n]
<1> DEFINE T == {n \in Nat : n <= k => h[n] \in I[n]}
<1>1. 0 \in T
  OBVIOUS
<1>2. ASSUME NEW n \in Nat, n \in T PROVE n + 1 \in T
  <2> SUFFICES ASSUME n + 1 <= k PROVE h[n + 1] \in I[n + 1]
    OBVIOUS
  <2>1. PICK m \in 1 .. k : m = n + 1 /\ m - 1 = n
    <3>1. n + 1 - 1 = n /\ n + 1 \in 1 .. k
      OBVIOUS
    <3> QED BY <3>1
  <2> QED BY <1>2, <2>1
<1> HIDE DEF T
<1>3. Nat \subseteq T
  BY <1>1, <1>2, Induction
<1> QED BY <1>3 DEF T
===============================================================================
