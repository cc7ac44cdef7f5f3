-------------------------- MODULE GlobalModelProofs --------------------------
(***************************************************************************)
(* Theorems about GlobalModel, for networks of any shape, any number of    *)
(* clients, rounds and counters, and any finite set of networks that       *)
(* clients may send: what is published is the average of the round, and    *)
(* the biases that the server forgets to clear stay bounded.               *)
(***************************************************************************)
EXTENDS GlobalModel, FiniteSetTheorems, WellFoundedInduction, TLAPS

USE ModelAssumption
-----------------------------------------------------------------------------
(* Induction over the numbers, for a set.                                  *)

LEMMA SetInduction ==
    ASSUME NEW P, 0 \in P, \A n \in Nat : n \in P => n + 1 \in P
    PROVE  Nat \subseteq P
<1> DEFINE R == OpToRel(<, Nat)
           T == Nat \ P
<1>1. SUFFICES ASSUME T # {}
               PROVE  FALSE
  OBVIOUS
<1>2. \A x, y \in Nat : x < y => <<x, y>> \in R
  BY DEF OpToRel
<1>3. PICK m \in T : \A k \in T : <<k, m>> \notin R
  <2>1. IsWellFoundedOn(R, Nat) /\ T \subseteq Nat
    BY NatLessThanWellFounded
  <2> HIDE DEF R, T
  <2> QED
    BY <1>1, <2>1, WFMin
<1> HIDE DEF R
<1>4. m \in Nat /\ m # 0 /\ m - 1 \in Nat /\ m - 1 < m
  OBVIOUS
<1>5. m - 1 \in P
  BY <1>2, <1>3, <1>4
<1>6. (m - 1) + 1 \in P
  BY <1>4, <1>5
<1>7. QED
  BY <1>4, <1>6
-----------------------------------------------------------------------------
(* Sums.  Sums(g, m, s): g are the sums of the first 0, 1, ... m of s.     *)

Sums(g, m, s) == g = [k \in 0..m |-> IF k = 0 THEN 0 ELSE g[k - 1] + s[k]]

LEMMA SumsExist ==
    ASSUME NEW s
    PROVE  \A m \in Nat : \E g : Sums(g, m, s)
<1> DEFINE P == {m \in Nat : \E g : Sums(g, m, s)}
<1>1. 0 \in P
  <2>1. Sums([k \in 0..0 |-> 0], 0, s)
    BY DEF Sums
  <2>2. QED
    BY <2>1
<1>2. ASSUME NEW m \in Nat, m \in P
      PROVE  m + 1 \in P
  <2>1. PICK f : Sums(f, m, s)
    BY <1>2
  <2> DEFINE g == [k \in 0..m + 1 |-> IF k = m + 1 THEN f[m] + s[m + 1] ELSE f[k]]
  <2>2. ASSUME NEW k \in 0..m + 1
        PROVE  g[k] = IF k = 0 THEN 0 ELSE g[k - 1] + s[k]
    <3>1. CASE k = m + 1
      <4>1. k # 0 /\ k - 1 = m /\ m \in 0..m + 1 /\ m # m + 1
        BY <3>1
      <4>2. g[k - 1] = f[m]
        BY <4>1
      <4>3. QED
        BY <3>1, <4>1, <4>2
    <3>2. CASE k = 0
      BY <2>1, <3>2 DEF Sums
    <3>3. CASE k # 0 /\ k # m + 1
      <4>1. k \in 0..m /\ k - 1 \in 0..m /\ k - 1 # m + 1 /\ k - 1 \in 0..m + 1
        BY <3>3
      <4>2. g[k] = f[k] /\ g[k - 1] = f[k - 1]
        BY <3>3, <4>1
      <4>3. QED
        BY <2>1, <3>3, <4>1, <4>2 DEF Sums
    <3>4. QED
      BY <3>1, <3>2, <3>3
  <2>3. g = [k \in 0..m + 1 |-> g[k]]
    OBVIOUS
  <2>4. Sums(g, m + 1, s)
    <3> HIDE DEF g
    <3> QED
      BY <2>2, <2>3 DEF Sums
  <2>5. QED
    BY <2>4
<1>3. Nat \subseteq P
  <2> HIDE DEF P
  <2> QED
    BY <1>1, <1>2, SetInduction
<1>4. QED
  BY <1>3

(* Each of the sums is the one before and the next number. *)
LEMMA SumsStep ==
    ASSUME NEW g, NEW m \in Nat, NEW s, Sums(g, m, s)
    PROVE  /\ g[0] = 0
           /\ \A k \in 0..m : k # 0 => g[k] = g[k - 1] + s[k]
<1>1. \A k \in 0..m : g[k] = IF k = 0 THEN 0 ELSE g[k - 1] + s[k]
  BY DEF Sums
<1>2. QED
  BY <1>1

(* Sum(s) is the last of the sums. *)
LEMMA SumIsLast ==
    ASSUME NEW s \in Seq(Int)
    PROVE  \E g : Sums(g, Len(s), s) /\ Sum(s) = g[Len(s)]
<1> DEFINE g == CHOOSE f : Sums(f, Len(s), s)
<1>1. \E f : Sums(f, Len(s), s)
  <2>1. Len(s) \in Nat
    OBVIOUS
  <2>2. QED
    BY <2>1, SumsExist
<1>2. Sums(g, Len(s), s)
  BY <1>1, Zenon
<1>3. Sum(s) = g[Len(s)]
  BY Zenon DEF Sum, Sums
<1>4. QED
  BY <1>2, <1>3

LEMMA SumEmpty == Sum(<<>>) = 0
<1>1. <<>> \in Seq(Int) /\ Len(<<>>) = 0
  OBVIOUS
<1>2. PICK g : Sums(g, Len(<<>>), <<>>) /\ Sum(<<>>) = g[Len(<<>>)]
  BY <1>1, SumIsLast
<1>3. g[0] = 0
  BY <1>1, <1>2, SumsStep
<1>4. QED
  BY <1>1, <1>2, <1>3

LEMMA SumIsInteger ==
    ASSUME NEW s \in Seq(Int)
    PROVE  Sum(s) \in Int
<1>1. PICK g : Sums(g, Len(s), s) /\ Sum(s) = g[Len(s)]
  BY SumIsLast
<1>a. Len(s) \in Nat /\ \A k \in 1..Len(s) : s[k] \in Int
  OBVIOUS
<1>2. g[0] = 0 /\ \A k \in 0..Len(s) : k # 0 => g[k] = g[k - 1] + s[k]
  BY <1>1, <1>a, SumsStep
<1> DEFINE P == {k \in Nat : k <= Len(s) => g[k] \in Int}
<1>3. 0 \in P
  BY <1>2
<1>4. ASSUME NEW k \in Nat, k \in P
      PROVE  k + 1 \in P
  <2>1. SUFFICES ASSUME k + 1 <= Len(s)
                 PROVE  g[k + 1] \in Int
    OBVIOUS
  <2>2. g[k] \in Int /\ s[k + 1] \in Int
    BY <1>a, <1>4, <2>1
  <2>3. k + 1 \in 0..Len(s) /\ k + 1 # 0 /\ (k + 1) - 1 = k
    BY <1>a, <2>1
  <2>4. g[k + 1] = g[k] + s[k + 1]
    BY <1>2, <2>3
  <2>5. QED
    BY <2>2, <2>4
<1>5. Nat \subseteq P
  <2> HIDE DEF P
  <2> QED
    BY <1>3, <1>4, SetInduction
<1>6. QED
  BY <1>1, <1>a, <1>5

(* One more number adds itself to the sum. *)
LEMMA SumAppend ==
    ASSUME NEW s \in Seq(Int), NEW x \in Int
    PROVE  Sum(Append(s, x)) = Sum(s) + x
<1> DEFINE t == Append(s, x)
           n == Len(s)
<1>a. /\ t \in Seq(Int) /\ Len(t) = n + 1 /\ n \in Nat
      /\ \A k \in 1..n : t[k] = s[k]
      /\ t[n + 1] = x
  OBVIOUS
<1> HIDE DEF t
<1>1. PICK g : Sums(g, n, s) /\ Sum(s) = g[n]
  BY SumIsLast
<1>2. PICK h : Sums(h, n + 1, t) /\ Sum(t) = h[n + 1]
  BY <1>a, SumIsLast
<1>3. g[0] = 0 /\ \A k \in 0..n : k # 0 => g[k] = g[k - 1] + s[k]
  BY <1>1, <1>a, SumsStep
<1>4. h[0] = 0 /\ \A k \in 0..n + 1 : k # 0 => h[k] = h[k - 1] + t[k]
  <2>1. n + 1 \in Nat
    BY <1>a
  <2>2. QED
    BY <1>2, <2>1, SumsStep
<1> HIDE DEF n
<1> DEFINE P == {k \in Nat : k <= n => g[k] = h[k]}
<1>5. 0 \in P
  BY <1>3, <1>4
<1>6. ASSUME NEW k \in Nat, k \in P
      PROVE  k + 1 \in P
  <2>1. SUFFICES ASSUME k + 1 <= n
                 PROVE  g[k + 1] = h[k + 1]
    OBVIOUS
  <2>2. g[k] = h[k] /\ t[k + 1] = s[k + 1]
    BY <1>a, <1>6, <2>1
  <2>3. k + 1 \in 0..n /\ k + 1 \in 0..n + 1 /\ k + 1 # 0 /\ (k + 1) - 1 = k
    BY <1>a, <2>1
  <2>4. g[k + 1] = g[k] + s[k + 1] /\ h[k + 1] = h[k] + t[k + 1]
    BY <1>3, <1>4, <2>3
  <2>5. QED
    BY <2>2, <2>4
<1>7. Nat \subseteq P
  <2> HIDE DEF P
  <2> QED
    BY <1>5, <1>6, SetInduction
<1>8. g[n] = h[n]
  BY <1>a, <1>7
<1>9. h[n + 1] = h[n] + t[n + 1]
  BY <1>4, <1>a
<1>10. QED
  BY <1>1, <1>2, <1>8, <1>9, <1>a DEF t
-----------------------------------------------------------------------------
(* What an update adds to the sums of its round.                           *)

ClientCounters(updates) == [i \in DOMAIN updates |-> updates[i].counter]

Weighted(updates, p) ==
    [i \in DOMAIN updates |-> updates[i].counter * updates[i].model[p]]

LEMMA UpdateType ==
    ASSUME NEW u \in Updates
    PROVE  u.counter \in Nat \ {0} /\ u.model \in ClientModels
  BY DEF Updates

LEMMA UpdateFields ==
    ASSUME NEW u \in Updates, NEW p \in Params
    PROVE  u.model[p] \in Int /\ u.counter * u.model[p] \in Int
<1>1. u.counter \in Nat \ {0} /\ u.model \in ClientModels
  BY UpdateType
<1>2. u.model[p] \in Int
  BY <1>1
<1>3. u.counter * u.model[p] \in Int
  BY <1>1, <1>2
<1>4. QED
  BY <1>2, <1>3

LEMMA TotalType ==
    ASSUME NEW us \in Seq(Updates)
    PROVE  ClientCounters(us) \in Seq(Int) /\ Total(us) \in Int
<1>1. \A i \in 1..Len(us) : us[i].counter \in Int
  <2>1. \A i \in 1..Len(us) : us[i] \in Updates
    OBVIOUS
  <2>2. QED
    BY <2>1, UpdateType
<1>2. ClientCounters(us) \in Seq(Int)
  BY <1>1 DEF ClientCounters
<1>3. QED
  BY <1>2, SumIsInteger DEF Total, ClientCounters

LEMMA WeightedSumType ==
    ASSUME NEW us \in Seq(Updates), NEW p \in Params
    PROVE  Weighted(us, p) \in Seq(Int) /\ WeightedSum(us, p) \in Int
<1>1. \A i \in 1..Len(us) : us[i].counter * us[i].model[p] \in Int
  <2>1. \A i \in 1..Len(us) : us[i] \in Updates
    OBVIOUS
  <2>2. QED
    BY <2>1, UpdateFields
<1>2. Weighted(us, p) \in Seq(Int)
  BY <1>1 DEF Weighted
<1>3. QED
  BY <1>2, SumIsInteger DEF WeightedSum, Weighted

LEMMA TotalAppend ==
    ASSUME NEW us \in Seq(Updates), NEW u \in Updates
    PROVE  Total(Append(us, u)) = Total(us) + u.counter
<1> DEFINE vs == Append(us, u)
<1>1. /\ vs \in Seq(Updates) /\ Len(vs) = Len(us) + 1 /\ Len(us) \in Nat
      /\ DOMAIN vs = 1..Len(us) + 1 /\ DOMAIN us = 1..Len(us)
      /\ \A i \in 1..Len(us) : vs[i] = us[i]
      /\ vs[Len(us) + 1] = u
  OBVIOUS
<1>2. ClientCounters(us) \in Seq(Int)
  BY TotalType
<1>3. Len(ClientCounters(us)) = Len(us)
  BY <1>1 DEF ClientCounters
<1>4. u.counter \in Int
  BY UpdateType
<1> HIDE DEF vs
<1>5. ClientCounters(vs) = Append(ClientCounters(us), u.counter)
  <2>1. \A i \in 1..Len(us) + 1 :
          vs[i].counter = IF i = Len(us) + 1 THEN u.counter ELSE us[i].counter
    BY <1>1
  <2>2. Append(ClientCounters(us), u.counter) =
          [i \in 1..Len(us) + 1 |->
             IF i = Len(us) + 1 THEN u.counter ELSE us[i].counter]
    BY <1>1, <1>2, <1>3, <1>4 DEF ClientCounters
  <2>3. QED
    BY <1>1, <2>1, <2>2 DEF ClientCounters
<1>6. Sum(Append(ClientCounters(us), u.counter)) = Sum(ClientCounters(us)) + u.counter
  BY <1>2, <1>4, SumAppend
<1>7. QED
  BY <1>5, <1>6 DEF Total, ClientCounters, vs

LEMMA WeightedSumAppend ==
    ASSUME NEW us \in Seq(Updates), NEW u \in Updates, NEW p \in Params
    PROVE  WeightedSum(Append(us, u), p)
             = WeightedSum(us, p) + u.counter * u.model[p]
<1> DEFINE vs == Append(us, u)
           x == u.counter * u.model[p]
<1>1. /\ vs \in Seq(Updates) /\ Len(vs) = Len(us) + 1 /\ Len(us) \in Nat
      /\ DOMAIN vs = 1..Len(us) + 1 /\ DOMAIN us = 1..Len(us)
      /\ \A i \in 1..Len(us) : vs[i] = us[i]
      /\ vs[Len(us) + 1] = u
  OBVIOUS
<1>2. Weighted(us, p) \in Seq(Int)
  BY WeightedSumType
<1>3. Len(Weighted(us, p)) = Len(us)
  BY <1>1 DEF Weighted
<1>4. x \in Int
  BY UpdateFields
<1> HIDE DEF vs
<1>5. Weighted(vs, p) = Append(Weighted(us, p), x)
  <2>1. \A i \in 1..Len(us) + 1 :
          vs[i].counter * vs[i].model[p] =
            IF i = Len(us) + 1 THEN x ELSE us[i].counter * us[i].model[p]
    BY <1>1
  <2>2. Append(Weighted(us, p), x) =
          [i \in 1..Len(us) + 1 |->
             IF i = Len(us) + 1 THEN x ELSE us[i].counter * us[i].model[p]]
    <3> HIDE DEF x
    <3> QED
      BY <1>1, <1>2, <1>3, <1>4 DEF Weighted
  <2> HIDE DEF x
  <2>3. QED
    BY <1>1, <2>1, <2>2 DEF Weighted
<1>6. Sum(Append(Weighted(us, p), x)) = Sum(Weighted(us, p)) + x
  <2> HIDE DEF x
  <2> QED
    BY <1>2, <1>4, SumAppend
<1>7. QED
  BY <1>5, <1>6 DEF WeightedSum, Weighted, vs

LEMMA SumsOfNothing == Total(<<>>) = 0 /\ \A p : WeightedSum(<<>>, p) = 0
<1>1. [i \in DOMAIN <<>> |-> <<>>[i].counter] = <<>>
  OBVIOUS
<1>2. \A p : [i \in DOMAIN <<>> |-> <<>>[i].counter * <<>>[i].model[p]] = <<>>
  OBVIOUS
<1>3. QED
  BY <1>1, <1>2, SumEmpty DEF Total, WeightedSum
-----------------------------------------------------------------------------
(* A finite set of numbers has a greatest one, so Largest is what its name *)
(* says.                                                                   *)

LEMMA FiniteHasGreatest ==
    ASSUME NEW S, IsFiniteSet(S), S # {}, S \subseteq Nat
    PROVE  \E x \in S : \A y \in S : y <= x
<1> DEFINE HasGreatest(A) == \E x \in A : \A y \in A : y <= x
           P == {n \in Nat : \A A \in SUBSET S : Cardinality(A) = n /\ A # {} => HasGreatest(A)}
<1>1. \A A \in SUBSET S : IsFiniteSet(A) /\ Cardinality(A) \in Nat
  BY FS_Subset, FS_CardinalityType
<1>2. 0 \in P
  BY <1>1, FS_EmptySet
<1>3. ASSUME NEW n \in Nat, n \in P
      PROVE  n + 1 \in P
  <2>1. SUFFICES ASSUME NEW A \in SUBSET S, Cardinality(A) = n + 1, A # {}
                 PROVE  HasGreatest(A)
    OBVIOUS
  <2>2. PICK a \in A : TRUE
    BY <2>1
  <2> DEFINE B == A \ {a}
  <2>3. B \in SUBSET S /\ Cardinality(B) = n
    BY <1>1, <2>1, FS_RemoveElement
  <2>4. CASE B = {}
    <3>1. \A y \in A : y = a
      BY <2>4
    <3>2. a \in Nat
      OBVIOUS
    <3>3. QED
      BY <3>1, <3>2
  <2>5. CASE B # {}
    <3>1. PICK b \in B : \A y \in B : y <= b
      BY <1>3, <2>3, <2>5
    <3>2. a \in Nat /\ b \in Nat /\ b \in A
      OBVIOUS
    <3>3. CASE a <= b
      <4>1. \A y \in A : y <= b
        BY <3>1, <3>3
      <4>2. QED
        BY <3>2, <4>1
    <3>4. CASE b <= a
      <4>1. \A y \in A : y <= a
        <5>1. TAKE y \in A
        <5>2. y \in Nat
          OBVIOUS
        <5>3. CASE y = a
          BY <3>2, <5>3
        <5>4. CASE y # a
          BY <3>1, <3>2, <3>4, <5>2, <5>4
        <5>5. QED
          BY <5>3, <5>4
      <4>2. QED
        BY <4>1
    <3>5. QED
      BY <3>2, <3>3, <3>4
  <2>6. QED
    BY <2>4, <2>5
<1>4. Nat \subseteq P
  <2> HIDE DEF P
  <2> QED
    BY <1>2, <1>3, SetInduction
<1>5. QED
  BY <1>1, <1>4

LEMMA LargestBounds ==
    ASSUME NEW m \in ClientModels, NEW p \in Params
    PROVE  Largest(p) \in Nat /\ Magnitude(m[p]) <= Largest(p)
<1> DEFINE S == {Magnitude(k[p]) : k \in ClientModels}
<1>1. \A k \in ClientModels : Magnitude(k[p]) \in Nat
  <2>1. TAKE k \in ClientModels
  <2>2. k[p] \in Int
    OBVIOUS
  <2>3. QED
    BY <2>2 DEF Magnitude
<1>2. IsFiniteSet(S)
  <2> DEFINE f == [k \in ClientModels |-> Magnitude(k[p])]
  <2>1. f \in Surjection(ClientModels, S)
    BY DEF Surjection
  <2>2. QED
    BY <2>1, FS_Surjection
<1>3. S # {} /\ S \subseteq Nat
  BY <1>1
<1>4. \E x \in S : \A y \in S : y <= x
  <2> HIDE DEF S
  <2> QED
    BY <1>2, <1>3, FiniteHasGreatest
<1>5. \E x \in S : \A k \in ClientModels : Magnitude(k[p]) <= x
  BY <1>4
<1>6. Largest(p) \in S /\ \A k \in ClientModels : Magnitude(k[p]) <= Largest(p)
  BY <1>5, Zenon DEF Largest
<1>7. QED
  BY <1>3, <1>6
-----------------------------------------------------------------------------
(* The inductive invariant.                                                *)

Rationals == Int \X (Nat \ {0})

TypeInv ==
    /\ global \in [Params -> Rationals]
    /\ accumulator \in [Params -> Rationals]
    /\ currentinteraction \in Nat
    /\ received \in Seq(Updates)
    /\ published \in Seq(Updates)
    /\ Len(received) < ClientNodes

(* The counter of the round is that of the updates received, each of which *)
(* counts for one at least.                                                *)
CounterInv ==
    /\ trainingscounter \in Nat
    /\ trainingscounter = Total(received)
    /\ Len(received) <= trainingscounter

(* The sum of a parameter that is cleared is that of the updates received. *)
SumInv ==
    \A p \in Params :
      Cleared(p) \/ currentinteraction = 0 =>
        accumulator[p][1] = WeightedSum(received, p) * accumulator[p][2]

(* What a sum may hold: at most n/(n-1) times the largest value is left    *)
(* from the round before, and each training adds at most the largest value.*)
Holds(num, den, largest, counter) ==
    Magnitude(num) * (ClientNodes - 1)
      <= largest * den * (ClientNodes + (ClientNodes - 1) * counter)

BoundInv ==
    \A p \in Params :
      Holds(accumulator[p][1], accumulator[p][2], Largest(p), trainingscounter)

Inv == TypeInv /\ CounterInv /\ SumInv /\ BoundInv
         /\ PublishedIsAverage /\ LeftoverStaysBounded
-----------------------------------------------------------------------------
(* Arithmetic, step by step for the provers.                               *)

LEMMA MagnitudeType ==
    ASSUME NEW a \in Int
    PROVE  Magnitude(a) \in Nat
  BY DEF Magnitude

LEMMA MagnitudeOfSum ==
    ASSUME NEW a \in Int, NEW b \in Int
    PROVE  Magnitude(a + b) <= Magnitude(a) + Magnitude(b)
  BY DEF Magnitude

LEMMA MagnitudeOfProduct ==
    ASSUME NEW a \in Int, NEW k \in Nat
    PROVE  Magnitude(a * k) = Magnitude(a) * k
<1>1. CASE a < 0
  <2>1. CASE k = 0
    BY <2>1, <1>1 DEF Magnitude
  <2>2. CASE k # 0
    <3>1. a * k < 0
      BY <1>1, <2>2
    <3>2. -(a * k) = (-a) * k
      OBVIOUS
    <3>3. QED
      BY <1>1, <3>1, <3>2 DEF Magnitude
  <2>3. QED
    BY <2>1, <2>2
<1>2. CASE ~(a < 0)
  <2>1. ~(a * k < 0)
    BY <1>2
  <2>2. QED
    BY <1>2, <2>1 DEF Magnitude
<1>3. QED
  BY <1>1, <1>2

LEMMA Monotone ==
    ASSUME NEW a \in Int, NEW b \in Int, NEW k \in Nat, a <= b
    PROVE  a * k <= b * k
  OBVIOUS

(* One more update of the round. *)
LEMMA HoldsOneMore ==
    ASSUME NEW num \in Int, NEW den \in Nat \ {0}, NEW largest \in Nat,
           NEW counter \in Nat, NEW value \in Int, NEW c \in Nat \ {0},
           Magnitude(value) <= largest, Holds(num, den, largest, counter)
    PROVE  Holds(num + value * c * den, den, largest, counter + c)
<1> DEFINE n1 == ClientNodes - 1
           added == c * den
<1>1. n1 \in Nat /\ added \in Nat /\ value * c * den = value * added
  OBVIOUS
<1>0. value * added \in Int /\ num + value * added \in Int /\ largest * added \in Nat
  <2> HIDE DEF added
  <2> QED
    BY <1>1
<1>2. Magnitude(num + value * added) <= Magnitude(num) + largest * added
  <2> HIDE DEF added
  <2>1. Magnitude(value * added) = Magnitude(value) * added
    BY <1>1, MagnitudeOfProduct
  <2>2. Magnitude(value) * added <= largest * added
    BY <1>1, MagnitudeType, Monotone
  <2>3. Magnitude(num + value * added) <= Magnitude(num) + Magnitude(value * added)
    BY <1>0, MagnitudeOfSum
  <2>4. /\ Magnitude(num) \in Nat /\ Magnitude(value * added) \in Nat
        /\ Magnitude(num + value * added) \in Nat /\ largest * added \in Nat
    BY <1>0, MagnitudeType
  <2>5. QED
    BY <2>1, <2>2, <2>3, <2>4
<1> DEFINE a == Magnitude(num)
           b == Magnitude(num + value * added)
<1>3. a \in Nat /\ b \in Nat
  <2> HIDE DEF added
  <2> QED
    BY <1>0, MagnitudeType
<1>4. a * n1 <= largest * den * (ClientNodes + n1 * counter)
  BY DEF Holds
<1>5. b <= a + largest * added
  BY <1>2
<1> HIDE DEF a, b, n1
<1>6. b * n1 <= (a + largest * added) * n1
  BY <1>1, <1>3, <1>5, Monotone
<1>7. (a + largest * added) * n1 = a * n1 + largest * den * (n1 * c)
  BY <1>1, <1>3
<1>8. largest * den * (ClientNodes + n1 * (counter + c))
        = largest * den * (ClientNodes + n1 * counter) + largest * den * (n1 * c)
  BY <1>1
<1>9. b * n1 <= largest * den * (ClientNodes + n1 * (counter + c))
  <2> DEFINE r == largest * den * (ClientNodes + n1 * counter)
             s == largest * den * (n1 * c)
             t == a * n1
             u == b * n1
  <2>1. r \in Int /\ s \in Int /\ t \in Int /\ u \in Int
    BY <1>1, <1>3
  <2>2. u <= t + s /\ t <= r
    BY <1>4, <1>6, <1>7
  <2>3. u <= r + s
    <3> HIDE DEF r, s, t, u
    <3> QED
      BY <2>1, <2>2
  <2>4. QED
    BY <1>8, <2>3
<1>10. QED
  BY <1>1, <1>9 DEF Holds, b, n1

(* The round is over and the sum is divided. *)
LEMMA HoldsDivided ==
    ASSUME NEW num \in Int, NEW den \in Nat \ {0}, NEW largest \in Nat,
           NEW counter \in Nat, ClientNodes <= counter,
           Holds(num, den, largest, counter)
    PROVE  Magnitude(num) * (ClientNodes - 1) <= largest * ClientNodes * (den * counter)
<1> DEFINE n1 == ClientNodes - 1
           r == ClientNodes + n1 * counter
           s == ClientNodes * counter
<1>1. n1 \in Nat /\ ClientNodes \in Nat
  OBVIOUS
<1>2. s = n1 * counter + counter
  OBVIOUS
<1>3. r \in Nat /\ s \in Nat /\ r <= s
  <2>1. n1 * counter \in Nat
    BY <1>1
  <2> DEFINE q == n1 * counter
  <2> HIDE DEF q, n1
  <2>2. s = q + counter /\ r = ClientNodes + q /\ q \in Nat
    BY <1>2, <2>1 DEF q
  <2> HIDE DEF r, s
  <2>3. QED
    BY <1>1, <2>2
<1>4. largest * den \in Nat
  OBVIOUS
<1>5. r * (largest * den) <= s * (largest * den)
  <2> HIDE DEF r, s
  <2> QED
    BY <1>3, <1>4, Monotone
<1>6. Magnitude(num) * n1 <= r * (largest * den)
  <2>1. largest * den * r = r * (largest * den)
    <3> HIDE DEF r
    <3> QED
      BY <1>3
  <2>2. QED
    BY <2>1 DEF Holds
<1>7. s * (largest * den) = largest * ClientNodes * (den * counter)
  BY <1>1
<1>8. Magnitude(num) * n1 \in Int /\ r * (largest * den) \in Int /\ s * (largest * den) \in Int
  <2> HIDE DEF r, s, n1
  <2> QED
    BY <1>1, <1>3, <1>4, MagnitudeType
<1>9. Magnitude(num) * n1 <= s * (largest * den)
  <2> DEFINE x == Magnitude(num) * n1
             y == r * (largest * den)
             z == s * (largest * den)
  <2>1. x \in Int /\ y \in Int /\ z \in Int /\ x <= y /\ y <= z
    BY <1>5, <1>6, <1>8
  <2>2. x <= z
    <3> HIDE DEF x, y, z
    <3> QED
      BY <2>1
  <2>3. QED
    BY <2>2
<1>10. QED
  BY <1>7, <1>9
-----------------------------------------------------------------------------
(* Both disjuncts of AggregationModel start with the same sum.             *)

Added(u) == FederatedAveragingSum(accumulator, u.model, u.counter)

LEMMA UpdateIsAdded ==
    ASSUME Inv, NEW u \in Updates
    PROVE  /\ Added(u) \in [Params -> Rationals]
           /\ Append(received, u) \in Seq(Updates)
           /\ Len(Append(received, u)) = Len(received) + 1
           /\ trainingscounter + u.counter \in Nat
           /\ trainingscounter + u.counter = Total(Append(received, u))
           /\ Len(received) + 1 <= trainingscounter + u.counter
           /\ \A p \in Params :
                /\ Cleared(p) \/ currentinteraction = 0 =>
                     Added(u)[p][1]
                       = WeightedSum(Append(received, u), p) * Added(u)[p][2]
                /\ Holds(Added(u)[p][1], Added(u)[p][2], Largest(p),
                         trainingscounter + u.counter)
<1>1. /\ u.counter \in Nat \ {0} /\ u.model \in ClientModels
      /\ received \in Seq(Updates) /\ Len(received) \in Nat
      /\ trainingscounter \in Nat /\ trainingscounter = Total(received)
      /\ Len(received) <= trainingscounter
  BY UpdateType DEF Inv, TypeInv, CounterInv
<1>2. ASSUME NEW p \in Params
      PROVE  /\ accumulator[p][1] \in Int /\ accumulator[p][2] \in Nat \ {0}
             /\ u.model[p] \in Int
             /\ Added(u)[p] = <<accumulator[p][1]
                                  + u.model[p] * u.counter * accumulator[p][2],
                                accumulator[p][2]>>
             /\ Added(u)[p] \in Rationals
  <2>1. accumulator[p] \in Rationals
    BY DEF Inv, TypeInv
  <2>2. accumulator[p][1] \in Int /\ accumulator[p][2] \in Nat \ {0}
    BY <2>1 DEF Rationals
  <2>3. u.model[p] \in Int
    BY UpdateFields
  <2>4. Added(u)[p] = <<accumulator[p][1]
                          + u.model[p] * u.counter * accumulator[p][2],
                        accumulator[p][2]>>
    BY DEF Added, FederatedAveragingSum
  <2>5. accumulator[p][1] + u.model[p] * u.counter * accumulator[p][2] \in Int
    BY <1>1, <2>2, <2>3
  <2>6. Added(u)[p] \in Rationals
    BY <2>2, <2>4, <2>5 DEF Rationals
  <2>7. QED
    BY <2>2, <2>3, <2>4, <2>6
<1>3. Added(u) \in [Params -> Rationals]
  BY <1>2 DEF Added, FederatedAveragingSum
<1>4. Append(received, u) \in Seq(Updates) /\ Len(Append(received, u)) = Len(received) + 1
  BY <1>1
<1>5. trainingscounter + u.counter = Total(Append(received, u))
  BY <1>1, TotalAppend
<1>6. ASSUME NEW p \in Params, Cleared(p) \/ currentinteraction = 0
      PROVE  Added(u)[p][1] = WeightedSum(Append(received, u), p) * Added(u)[p][2]
  <2> DEFINE num == accumulator[p][1]
             den == accumulator[p][2]
             w == WeightedSum(received, p)
             v == u.model[p]
             c == u.counter
  <2>1. num = w * den
    BY <1>6 DEF Inv, SumInv
  <2>2. num \in Int /\ den \in Int /\ w \in Int /\ v \in Int /\ c \in Int
    BY <1>1, <1>2, WeightedSumType
  <2>3. WeightedSum(Append(received, u), p) = w + c * v
    BY <1>1, WeightedSumAppend
  <2>4. Added(u)[p][1] = num + v * c * den /\ Added(u)[p][2] = den
    BY <1>2
  <2>5. num + v * c * den = (w + c * v) * den
    <3> HIDE DEF num, den, w, v, c
    <3> QED
      BY <2>1, <2>2
  <2>6. QED
    BY <2>3, <2>4, <2>5
<1>7. ASSUME NEW p \in Params
      PROVE  Holds(Added(u)[p][1], Added(u)[p][2], Largest(p),
                   trainingscounter + u.counter)
  <2>1. Largest(p) \in Nat /\ Magnitude(u.model[p]) <= Largest(p)
    BY <1>1, LargestBounds
  <2>2. Holds(accumulator[p][1], accumulator[p][2], Largest(p), trainingscounter)
    BY DEF Inv, BoundInv
  <2>3. Holds(accumulator[p][1] + u.model[p] * u.counter * accumulator[p][2],
              accumulator[p][2], Largest(p), trainingscounter + u.counter)
    BY <1>1, <1>2, <2>1, <2>2, HoldsOneMore
  <2>4. QED
    BY <1>2, <2>3
<1>8. QED
  BY <1>1, <1>3, <1>4, <1>5, <1>6, <1>7
-----------------------------------------------------------------------------
LEMMA InitHolds == Init => Inv
<1> SUFFICES ASSUME Init
             PROVE  Inv
  OBVIOUS
<1>1. PICK m \in ClientModels :
        global = [p \in Params |-> IF p[3] = 0 THEN Zero ELSE <<m[p], 1>>]
  BY DEF Init
<1>2. \A p \in Params : m[p] \in Int
  OBVIOUS
<1>3. global \in [Params -> Rationals] /\ accumulator \in [Params -> Rationals]
  <2>1. Zero \in Rationals /\ \A i \in Int : <<i, 1>> \in Rationals
    BY DEF Zero, Rationals
  <2>2. QED
    BY <1>1, <1>2, <2>1 DEF Init
<1>4. TypeInv
  BY <1>3 DEF Init, TypeInv
<1>5. CounterInv
  BY SumsOfNothing DEF Init, CounterInv
<1>6. \A p \in Params : accumulator[p][1] = 0 /\ accumulator[p][2] = 1
  BY DEF Init, Zero
<1>7. SumInv
  BY <1>6, SumsOfNothing DEF Init, SumInv
<1>8. \A p \in Params : Largest(p) \in Nat /\ Magnitude(m[p]) <= Largest(p)
  BY LargestBounds
<1>9. BoundInv
  <2>1. SUFFICES ASSUME NEW p \in Params
                 PROVE  Holds(0, 1, Largest(p), 0)
    BY <1>6 DEF Init, BoundInv
  <2>2. Largest(p) * 1 * (ClientNodes + (ClientNodes - 1) * 0) >= 0
    BY <1>8
  <2>3. Magnitude(0) * (ClientNodes - 1) = 0
    BY DEF Magnitude
  <2>4. QED
    BY <2>2, <2>3 DEF Holds
<1>10. PublishedIsAverage
  <2>1. SUFFICES ASSUME NEW p \in Params
                 PROVE  global[p][1] * 0 = 0 * global[p][2]
    BY SumsOfNothing DEF Init, PublishedIsAverage
  <2>2. global[p] \in Rationals
    BY <1>3
  <2>3. global[p][1] \in Int /\ global[p][2] \in Int
    BY <2>2 DEF Rationals
  <2>4. QED
    BY <2>3
<1>11. LeftoverStaysBounded
  <2>1. SUFFICES ASSUME NEW p \in Params
                 PROVE  Magnitude(global[p][1]) * (ClientNodes - 1)
                          <= Largest(p) * ClientNodes * global[p][2]
    BY DEF LeftoverStaysBounded
  <2>2. global[p][2] = 1 /\ Magnitude(global[p][1]) <= Largest(p)
          /\ Magnitude(global[p][1]) \in Nat
    BY <1>1, <1>2, <1>8 DEF Zero, Magnitude
  <2>3. Largest(p) * (ClientNodes - 1) <= Largest(p) * ClientNodes
    BY <1>8
  <2>4. Magnitude(global[p][1]) * (ClientNodes - 1) <= Largest(p) * (ClientNodes - 1)
    <3>1. ClientNodes - 1 \in Nat /\ Magnitude(global[p][1]) \in Int /\ Largest(p) \in Int
      BY <1>8, <2>2
    <3>2. QED
      BY <2>2, <3>1, Monotone
  <2>5. QED
    BY <1>8, <2>2, <2>3, <2>4
<1>12. QED
  BY <1>4, <1>5, <1>7, <1>9, <1>10, <1>11 DEF Inv

LEMMA AwaitKeepsInv ==
    ASSUME Inv, NEW u \in Updates, AggregateAndAwait(u)
    PROVE  Inv'
<1>1. /\ accumulator' = Added(u)
      /\ trainingscounter' = trainingscounter + u.counter
      /\ received' = Append(received, u)
      /\ global' = global /\ currentinteraction' = currentinteraction
      /\ published' = published
      /\ Len(received) + 1 < ClientNodes
  BY DEF AggregateAndAwait, Added
<1>2. TypeInv'
  BY <1>1, UpdateIsAdded DEF Inv, TypeInv
<1>3. CounterInv'
  BY <1>1, UpdateIsAdded DEF CounterInv
<1>4. SumInv'
  BY <1>1, UpdateIsAdded DEF SumInv
<1>5. BoundInv'
  BY <1>1, UpdateIsAdded DEF BoundInv
<1>6. PublishedIsAverage' /\ LeftoverStaysBounded'
  BY <1>1 DEF Inv, PublishedIsAverage, LeftoverStaysBounded
<1>7. QED
  BY <1>2, <1>3, <1>4, <1>5, <1>6 DEF Inv

LEMMA PublishKeepsInv ==
    ASSUME Inv, NEW u \in Updates, AggregateAndPublish(u)
    PROVE  Inv'
<1> DEFINE sum == Added(u)
           counter == trainingscounter + u.counter
           round == Append(received, u)
           average == FederatedAveraging(sum, counter)
<1>1. /\ global' = average
      /\ accumulator' = SetNeuralNetworkZeroWeightValue(average)
      /\ trainingscounter' = 0
      /\ currentinteraction' = currentinteraction + 1
      /\ received' = <<>>
      /\ published' = round
      /\ Len(received) + 1 = ClientNodes
  BY DEF AggregateAndPublish, Added
<1>2. /\ sum \in [Params -> Rationals]
      /\ round \in Seq(Updates)
      /\ counter \in Nat /\ counter = Total(round) /\ ClientNodes <= counter
  BY <1>1, UpdateIsAdded
<1>3. counter \in Nat \ {0}
  BY <1>2
<1>4. \A p \in Params :
        /\ Cleared(p) \/ currentinteraction = 0 =>
             sum[p][1] = WeightedSum(round, p) * sum[p][2]
        /\ Holds(sum[p][1], sum[p][2], Largest(p), counter)
  BY UpdateIsAdded
<1> HIDE DEF sum, counter, round
<1>5. ASSUME NEW p \in Params
      PROVE  /\ sum[p][1] \in Int /\ sum[p][2] \in Nat \ {0}
             /\ average[p] = <<sum[p][1], sum[p][2] * counter>>
             /\ average[p] \in Rationals
             /\ WeightedSum(round, p) \in Int
             /\ Largest(p) \in Nat
  <2>1. sum[p] \in Rationals
    BY <1>2
  <2>2. sum[p][1] \in Int /\ sum[p][2] \in Nat \ {0}
    BY <2>1 DEF Rationals
  <2>3. average[p] = <<sum[p][1], sum[p][2] * counter>>
    BY DEF FederatedAveraging
  <2>4. sum[p][2] * counter \in Nat \ {0}
    BY <1>3, <2>2
  <2>5. average[p] \in Rationals
    BY <2>2, <2>3, <2>4 DEF Rationals
  <2>6. WeightedSum(round, p) \in Int
    BY <1>2, WeightedSumType
  <2>7. Largest(p) \in Nat
    BY UpdateType, LargestBounds
  <2>8. QED
    BY <2>2, <2>3, <2>5, <2>6, <2>7
<1>6. average \in [Params -> Rationals]
  BY <1>5 DEF FederatedAveraging
<1>7. ASSUME NEW p \in Params
      PROVE  Magnitude(average[p][1]) * (ClientNodes - 1)
               <= Largest(p) * ClientNodes * average[p][2]
  <2>1. average[p][1] = sum[p][1] /\ average[p][2] = sum[p][2] * counter
    BY <1>5
  <2>2. Magnitude(sum[p][1]) * (ClientNodes - 1)
          <= Largest(p) * ClientNodes * (sum[p][2] * counter)
    BY <1>2, <1>4, <1>5, HoldsDivided
  <2>3. QED
    BY <2>1, <2>2
<1> DEFINE cleared == SetNeuralNetworkZeroWeightValue(average)
<1>8. \A p \in Params : cleared[p] = IF Cleared(p) THEN Zero ELSE average[p]
  BY DEF SetNeuralNetworkZeroWeightValue
<1>9. cleared \in [Params -> Rationals]
  <2>1. Zero \in Rationals
    BY DEF Zero, Rationals
  <2>2. QED
    BY <1>5, <2>1 DEF SetNeuralNetworkZeroWeightValue
<1> HIDE DEF average, cleared
<1>10. TypeInv'
  <2>1. currentinteraction + 1 \in Nat
    BY DEF Inv, TypeInv
  <2>2. <<>> \in Seq(Updates) /\ Len(<<>>) < ClientNodes
    OBVIOUS
  <2>3. QED
    BY <1>1, <1>2, <1>6, <1>9, <2>1, <2>2 DEF TypeInv, cleared
<1>11. CounterInv'
  BY <1>1, SumsOfNothing DEF CounterInv
<1>12. SumInv'
  <2>1. SUFFICES ASSUME NEW p \in Params, Cleared(p) \/ currentinteraction + 1 = 0
                 PROVE  cleared[p][1] = 0 * cleared[p][2]
    BY <1>1, SumsOfNothing DEF SumInv, cleared
  <2>2. currentinteraction \in Nat
    BY DEF Inv, TypeInv
  <2>3. cleared[p] = Zero
    BY <1>8, <2>1, <2>2
  <2>4. QED
    BY <2>3 DEF Zero
<1>13. BoundInv'
  <2>1. SUFFICES ASSUME NEW p \in Params
                 PROVE  Holds(cleared[p][1], cleared[p][2], Largest(p), 0)
    BY <1>1 DEF BoundInv, cleared
  <2>2. CASE Cleared(p)
    <3>1. cleared[p][1] = 0 /\ cleared[p][2] = 1
      BY <1>8, <2>2 DEF Zero
    <3>2. Magnitude(0) * (ClientNodes - 1) = 0
      BY DEF Magnitude
    <3>3. Largest(p) * 1 * (ClientNodes + (ClientNodes - 1) * 0) >= 0
      BY <1>5
    <3>4. QED
      BY <3>1, <3>2, <3>3 DEF Holds
  <2>3. CASE ~Cleared(p)
    <3>1. cleared[p] = average[p]
      BY <1>8, <2>3
    <3>2. average[p][2] \in Int
      BY <1>5 DEF Rationals
    <3>3. Largest(p) * average[p][2] * (ClientNodes + (ClientNodes - 1) * 0)
            = Largest(p) * ClientNodes * average[p][2]
      BY <1>5, <3>2
    <3>4. QED
      BY <1>7, <3>1, <3>3 DEF Holds
  <2>4. QED
    BY <2>2, <2>3
<1>14. PublishedIsAverage'
  <2>1. SUFFICES ASSUME NEW p \in Params, Cleared(p) \/ currentinteraction + 1 <= 1
                 PROVE  average[p][1] * counter = WeightedSum(round, p) * average[p][2]
    BY <1>1, <1>2 DEF PublishedIsAverage
  <2>2. currentinteraction \in Nat
    BY DEF Inv, TypeInv
  <2>3. sum[p][1] = WeightedSum(round, p) * sum[p][2]
    BY <1>4, <2>1, <2>2
  <2> DEFINE w == WeightedSum(round, p)
             d == sum[p][2]
  <2>4. w \in Int /\ d \in Int /\ counter \in Int
    BY <1>3, <1>5
  <2>5. (w * d) * counter = w * (d * counter)
    <3> HIDE DEF w, d
    <3> QED
      BY <2>4
  <2>6. average[p][1] = w * d /\ average[p][2] = d * counter
    BY <1>5, <2>3
  <2>7. QED
    BY <2>5, <2>6
<1>15. LeftoverStaysBounded'
  BY <1>1, <1>7 DEF LeftoverStaysBounded
<1>16. QED
  BY <1>10, <1>11, <1>12, <1>13, <1>14, <1>15 DEF Inv

LEMMA StepsKeepInv == Inv /\ [Next]_vars => Inv'
<1> SUFFICES ASSUME Inv, [Next]_vars
             PROVE  Inv'
  OBVIOUS
<1>1. CASE Next
  <2>1. PICK u \in Updates : AggregateAndAwait(u) \/ AggregateAndPublish(u)
    BY <1>1 DEF Next, AggregationModel
  <2>2. QED
    BY <2>1, AwaitKeepsInv, PublishKeepsInv
<1>2. CASE UNCHANGED vars
  <2>1. /\ global' = global /\ accumulator' = accumulator
        /\ trainingscounter' = trainingscounter
        /\ currentinteraction' = currentinteraction
        /\ received' = received /\ published' = published
    BY <1>2 DEF vars
  <2>2. TypeInv' /\ CounterInv' /\ SumInv' /\ BoundInv'
    BY <2>1 DEF Inv, TypeInv, CounterInv, SumInv, BoundInv
  <2>3. PublishedIsAverage' /\ LeftoverStaysBounded'
    BY <2>1 DEF Inv, PublishedIsAverage, LeftoverStaysBounded
  <2>4. QED
    BY <2>2, <2>3 DEF Inv
<1>3. QED
  BY <1>1, <1>2

(* Everything above holds always. *)
THEOREM InvAlways == Spec => []Inv
<1>1. QED
  BY InitHolds, StepsKeepInv, PTL DEF Spec

(* The sum holds what was received in this round and the counter is that   *)
(* of these updates, so what AggregationModel divides and copies to the    *)
(* model that clients are given is the weighted average of the round.      *)
THEOREM PublishesAverage == Spec => []PublishedIsAverage
<1>1. Inv => PublishedIsAverage
  BY DEF Inv
<1>2. QED
  BY <1>1, InvAlways, PTL

(* What SetNeuralNetworkZeroWeightValue leaves in a bias is divided again  *)
(* with the next sum, and never grows past n/(n-1) times the largest bias. *)
THEOREM LeftoverIsBounded == Spec => []LeftoverStaysBounded
<1>1. Inv => LeftoverStaysBounded
  BY DEF Inv
<1>2. QED
  BY <1>1, InvAlways, PTL
=============================================================================
