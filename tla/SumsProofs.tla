----------------------------- MODULE SumsProofs -----------------------------
(* Facts about SumTo. They are proved by taking the least index at which a    *)
(* fact fails: the induction theorems of the library take an operator.        *)
EXTENDS Sums, NaturalsInduction, WellFoundedInduction, TLAPS

(* The least element of a set of naturals.                                    *)
LEMMA LeastNat ==
  ASSUME NEW T \in SUBSET Nat, T # {}
  PROVE  \E x \in T : \A y \in T : x <= y
<1>1. IsWellFoundedOn(OpToRel(<, Nat), Nat)
  BY NatLessThanWellFounded
<1>2. PICK x \in T : \A y \in T : ~(<<y, x>> \in OpToRel(<, Nat))
  BY <1>1, WFMin
<1>3. \A y \in T : ~(y < x)
  BY <1>2 DEF OpToRel
<1> QED BY <1>3

\* s adds up f[1], f[2], ... as far as n.
AddsUp(s, f, n) ==
  s = [k \in 0..n |-> IF k = 0 THEN 0 ELSE s[k - 1] + f[k]]

(* There is such a function for every n.                                      *)
LEMMA AddsUpExists ==
  ASSUME NEW f, NEW n \in Nat
  PROVE  \E s : AddsUp(s, f, n)
<1> DEFINE T == {m \in Nat : ~\E s : AddsUp(s, f, m)}
<1> SUFFICES ASSUME T # {} PROVE FALSE
  OBVIOUS
<1>1. PICK m \in T : \A y \in T : m <= y
  BY LeastNat
<1>2. CASE m = 0
  <2>1. AddsUp([k \in 0..0 |-> 0], f, 0)
    BY DEF AddsUp
  <2> QED BY <1>2, <2>1
<1>3. CASE m # 0
  <2>1. m - 1 \in Nat /\ m - 1 \notin T
    BY <1>1, <1>3
  <2>2. PICK s : AddsUp(s, f, m - 1)
    BY <2>1
  <2> DEFINE t == [k \in 0..m |-> IF k = m THEN s[m - 1] + f[m] ELSE s[k]]
  <2>3. \A k \in 0..m : t[k] = IF k = 0 THEN 0 ELSE t[k - 1] + f[k]
    BY <2>2, <1>3, <2>1 DEF AddsUp
  <2>4. AddsUp(t, f, m)
    BY <2>3 DEF AddsUp
  <2> QED BY <2>4, <1>1
<1> QED BY <1>2, <1>3

(* SumTo(f, n) is the last value of such a function.                          *)
LEMMA SumToIsLast ==
  ASSUME NEW f, NEW n \in Nat
  PROVE  \E s : AddsUp(s, f, n) /\ SumTo(f, n) = s[n]
<1> DEFINE s == CHOOSE s : AddsUp(s, f, n)
<1>1. AddsUp(s, f, n)
  BY AddsUpExists
<1>2. SumTo(f, n) = s[n]
  BY DEF SumTo, AddsUp
<1> QED BY <1>1, <1>2

(* What such a function is worth at each index.                               *)
LEMMA AddsUpValues ==
  ASSUME NEW n \in Nat, NEW f \in [1..n -> Int], NEW s, AddsUp(s, f, n)
  PROVE  /\ \A k \in 0..n : s[k] \in Int
         /\ s[0] = 0
         /\ \A k \in 1..n : s[k] = s[k - 1] + f[k]
<1>1. \A k \in 0..n : s[k] = IF k = 0 THEN 0 ELSE s[k - 1] + f[k]
  BY DEF AddsUp
<1>2. s[0] = 0 /\ \A k \in 1..n : s[k] = s[k - 1] + f[k]
  BY <1>1
<1> DEFINE T == {k \in 0..n : s[k] \notin Int}
<1> SUFFICES ASSUME T # {} PROVE FALSE
  BY <1>2
<1>3. PICK k \in T : \A j \in T : k <= j
  <2>1. T \in SUBSET Nat
    OBVIOUS
  <2> QED BY <2>1, LeastNat
<1>4. k # 0
  BY <1>2, <1>3
<1>5. k - 1 \in 0..n /\ k - 1 \notin T /\ k \in 1..n
  BY <1>3, <1>4
<1>6. s[k - 1] \in Int /\ f[k] \in Int
  BY <1>5
<1>7. s[k] \in Int
  BY <1>2, <1>5, <1>6
<1> QED BY <1>3, <1>7

(* The sum of integers is an integer.                                         *)
LEMMA SumToType ==
  ASSUME NEW n \in Nat, NEW f \in [1..n -> Int]
  PROVE  SumTo(f, n) \in Int
  BY SumToIsLast, AddsUpValues

(* If every row grows or stays, so does the sum.                              *)
LEMMA SumToMonotone ==
  ASSUME NEW n \in Nat, NEW f \in [1..n -> Int], NEW g \in [1..n -> Int],
         \A k \in 1..n : f[k] <= g[k]
  PROVE  SumTo(f, n) <= SumTo(g, n)
<1>1. PICK s : AddsUp(s, f, n) /\ SumTo(f, n) = s[n]
  BY SumToIsLast
<1>2. PICK t : AddsUp(t, g, n) /\ SumTo(g, n) = t[n]
  BY SumToIsLast
<1>3. /\ \A k \in 0..n : s[k] \in Int /\ t[k] \in Int
      /\ s[0] = 0 /\ t[0] = 0
      /\ \A k \in 1..n : s[k] = s[k - 1] + f[k] /\ t[k] = t[k - 1] + g[k]
  BY <1>1, <1>2, AddsUpValues
<1> DEFINE T == {k \in 0..n : ~(s[k] <= t[k])}
<1>4. T = {}
  <2> SUFFICES ASSUME T # {} PROVE FALSE
    OBVIOUS
  <2>1. PICK k \in T : \A j \in T : k <= j
    <3>1. T \in SUBSET Nat
      OBVIOUS
    <3> HIDE DEF T
    <3> QED BY <3>1, LeastNat
  <2>2. k \in 1..n
    BY <1>3, <2>1
  <2>3. k - 1 \in 0..n /\ k - 1 \notin T
    BY <2>1, <2>2
  <2>4. s[k - 1] <= t[k - 1] /\ f[k] <= g[k] /\ f[k] \in Int /\ g[k] \in Int
    BY <2>2, <2>3
  <2>5. s[k] <= t[k]
    BY <1>3, <2>2, <2>3, <2>4
  <2> QED BY <2>1, <2>5
<1> QED BY <1>1, <1>2, <1>4

(* Changing one row changes the sum by as much.                               *)
LEMMA SumToUpdate ==
  ASSUME NEW n \in Nat, NEW f \in [1..n -> Int], NEW g \in [1..n -> Int],
         NEW x \in 1..n, \A k \in 1..n : k # x => f[k] = g[k]
  PROVE  SumTo(g, n) = SumTo(f, n) + g[x] - f[x]
<1>1. PICK s : AddsUp(s, f, n) /\ SumTo(f, n) = s[n]
  BY SumToIsLast
<1>2. PICK t : AddsUp(t, g, n) /\ SumTo(g, n) = t[n]
  BY SumToIsLast
<1>3. /\ \A k \in 0..n : s[k] \in Int /\ t[k] \in Int
      /\ s[0] = 0 /\ t[0] = 0
      /\ \A k \in 1..n : s[k] = s[k - 1] + f[k] /\ t[k] = t[k - 1] + g[k]
  BY <1>1, <1>2, AddsUpValues
<1> DEFINE gap(k) == IF k < x THEN 0 ELSE g[x] - f[x]
           T == {k \in 0..n : t[k] # s[k] + gap(k)}
<1>4. T = {}
  <2> SUFFICES ASSUME T # {} PROVE FALSE
    OBVIOUS
  <2>1. PICK k \in T : \A j \in T : k <= j
    <3>1. T \in SUBSET Nat
      OBVIOUS
    <3> HIDE DEF T
    <3> QED BY <3>1, LeastNat
  <2>2. f[x] \in Int /\ g[x] \in Int /\ gap(0) = 0
    OBVIOUS
  <2>3. k \in 1..n
    BY <1>3, <2>1, <2>2
  <2>4. k - 1 \in 0..n /\ k - 1 \notin T
    BY <2>1, <2>3
  <2>5. t[k - 1] = s[k - 1] + gap(k - 1)
    BY <2>4
  <2>6. f[k] \in Int /\ g[k] \in Int /\ gap(k) - gap(k - 1) = g[k] - f[k]
    BY <2>2, <2>3
  <2>7. gap(k) \in Int /\ gap(k - 1) \in Int
    BY <2>2
  <2>8. t[k] = s[k] + gap(k)
    <3>1. t[k] = t[k - 1] + g[k] /\ s[k] = s[k - 1] + f[k]
      BY <1>3, <2>3
    <3>2. s[k - 1] \in Int /\ t[k - 1] \in Int
      BY <1>3, <2>4
    <3>3. t[k] = s[k - 1] + gap(k - 1) + g[k]
      BY <2>5, <3>1
    <3>4. g[k] = f[k] + gap(k) - gap(k - 1)
      <4> HIDE DEF gap
      <4> QED BY <2>6, <2>7
    <3>5. t[k] = s[k - 1] + f[k] + gap(k)
      <4> HIDE DEF gap
      <4> QED BY <2>6, <2>7, <3>2, <3>3, <3>4
    <3> QED BY <2>6, <2>7, <3>1, <3>2, <3>5
  <2> QED BY <2>1, <2>8
<1>5. t[n] = s[n] + gap(n) /\ gap(n) = g[x] - f[x]
  BY <1>4
<1> QED BY <1>1, <1>2, <1>5

(* A new row adds its figure to the sum.                                      *)
LEMMA SumToAppend ==
  ASSUME NEW n \in Nat, NEW f \in [1..n -> Int], NEW g \in [1..(n + 1) -> Int],
         \A k \in 1..n : f[k] = g[k]
  PROVE  SumTo(g, n + 1) = SumTo(f, n) + g[n + 1]
<1>1. PICK s : AddsUp(s, f, n) /\ SumTo(f, n) = s[n]
  BY SumToIsLast
<1>2. PICK t : AddsUp(t, g, n + 1) /\ SumTo(g, n + 1) = t[n + 1]
  BY SumToIsLast
<1>3. /\ \A k \in 0..n : s[k] \in Int
      /\ s[0] = 0 /\ \A k \in 1..n : s[k] = s[k - 1] + f[k]
  BY <1>1, AddsUpValues
<1>4. /\ \A k \in 0..(n + 1) : t[k] \in Int
      /\ t[0] = 0 /\ \A k \in 1..(n + 1) : t[k] = t[k - 1] + g[k]
  <2>1. n + 1 \in Nat
    OBVIOUS
  <2> QED BY <1>2, <2>1, AddsUpValues
<1> DEFINE T == {k \in 0..n : t[k] # s[k]}
<1>5. T = {}
  <2> SUFFICES ASSUME T # {} PROVE FALSE
    OBVIOUS
  <2>1. PICK k \in T : \A j \in T : k <= j
    <3>1. T \in SUBSET Nat
      OBVIOUS
    <3> HIDE DEF T
    <3> QED BY <3>1, LeastNat
  <2>2. k \in 1..n
    <3>1. k \in 0..n /\ t[k] # s[k]
      BY <2>1
    <3>2. k # 0
      BY <1>3, <1>4, <3>1
    <3> QED BY <3>1, <3>2
  <2>3. k - 1 \in 0..n /\ k - 1 \notin T
    BY <2>1, <2>2
  <2>4. t[k - 1] = s[k - 1] /\ t[k] = t[k - 1] + g[k] /\ s[k] = s[k - 1] + f[k] /\ f[k] = g[k]
    BY <1>3, <1>4, <2>2, <2>3
  <2> QED BY <2>1, <2>4
<1>6. t[n] = s[n]
  BY <1>5
<1>7. n + 1 \in 1..(n + 1) /\ (n + 1) - 1 = n
  OBVIOUS
<1>8. t[n + 1] = t[n] + g[n + 1]
  BY <1>4, <1>7
<1> QED BY <1>1, <1>2, <1>6, <1>8

(* Rows that are all zero add up to zero.                                     *)
LEMMA SumToZero ==
  ASSUME NEW n \in Nat, NEW f \in [1..n -> Int], \A k \in 1..n : f[k] = 0
  PROVE  SumTo(f, n) = 0
<1>1. PICK s : AddsUp(s, f, n) /\ SumTo(f, n) = s[n]
  BY SumToIsLast
<1>2. /\ \A k \in 0..n : s[k] \in Int
      /\ s[0] = 0 /\ \A k \in 1..n : s[k] = s[k - 1] + f[k]
  BY <1>1, AddsUpValues
<1> DEFINE T == {k \in 0..n : s[k] # 0}
<1>3. T = {}
  <2> SUFFICES ASSUME T # {} PROVE FALSE
    OBVIOUS
  <2>1. PICK k \in T : \A j \in T : k <= j
    <3>1. T \in SUBSET Nat
      OBVIOUS
    <3> HIDE DEF T
    <3> QED BY <3>1, LeastNat
  <2>2. k \in 1..n
    BY <1>2, <2>1
  <2>3. k - 1 \in 0..n /\ k - 1 \notin T
    BY <2>1, <2>2
  <2>4. s[k] = 0
    BY <1>2, <2>2, <2>3
  <2> QED BY <2>1, <2>4
<1> QED BY <1>1, <1>3
=============================================================================
