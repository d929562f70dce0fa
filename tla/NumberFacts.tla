---------------------------- MODULE NumberFacts ----------------------------
(***************************************************************************)
(* Facts about sets of natural numbers and ranks in them, for the proofs   *)
(* about event numbers, and induction and recursion up to a bound, for     *)
(* those about queues and logs.                                            *)
(***************************************************************************)
EXTENDS SortedNumbers, FiniteSetTheorems, WellFoundedInduction, TLAPS

\* A non-empty set of numbers has a least one.
LEMMA LeastNumber ==
  ASSUME NEW T, T \subseteq Nat, T # {}
  PROVE  \E x \in T : \A y \in T : x <= y
<1> DEFINE R == {ss \in Nat \X Nat : ss[1] < ss[2]}
<1>1. IsWellFoundedOn(R, Nat)
  BY NatLessThanWellFounded DEF OpToRel
<1>2. PICK x \in T : \A y \in T : ~ (<<y, x>> \in R)
  <2> HIDE DEF R
  <2> QED
    BY <1>1, WFMin
<1>3. ASSUME NEW y \in T PROVE x <= y
  <2>1. x \in Nat /\ y \in Nat
    OBVIOUS
  <2>2. <<y, x>> \in R <=> y < x
    BY <2>1
  <2> QED
    BY <1>2, <2>1, <2>2
<1> QED
  BY <1>3

\* A non-empty set of numbers up to a bound has a greatest one.
LEMMA GreatestNumber ==
  ASSUME NEW T, NEW bound \in Nat, T # {}, \A n \in T : n \in Nat /\ n <= bound
  PROVE  \E x \in T : \A y \in T : y <= x
<1> DEFINE U == {bound - n : n \in T}
<1>1. U \subseteq Nat /\ U # {}
  OBVIOUS
<1>2. PICK u \in U : \A v \in U : u <= v
  <2> HIDE DEF U
  <2> QED
    BY <1>1, LeastNumber
<1>3. PICK x \in T : u = bound - x
  OBVIOUS
<1>4. ASSUME NEW y \in T PROVE y <= x
  <2>1. bound - x <= bound - y
    BY <1>2, <1>3
  <2> QED
    BY <2>1
<1> QED
  BY <1>4

\* The rank of a number in a finite set of numbers lies between one and the
\* size of the set, and grows with the number.
LEMMA RanksGrow ==
  ASSUME NEW S, IsFiniteSet(S), S \subseteq Nat
  PROVE  /\ Cardinality(S) \in Nat
         /\ \A id \in S : Cardinality({j \in S : j <= id}) \in 1..Cardinality(S)
         /\ \A id, k \in S : id < k =>
              Cardinality({j \in S : j <= id}) < Cardinality({j \in S : j <= k})
<1> DEFINE Upto(id) == {j \in S : j <= id}
<1>1. \A id \in S : /\ IsFiniteSet(Upto(id)) /\ Cardinality(Upto(id)) \in Nat
                           /\ Cardinality(Upto(id)) <= Cardinality(S)
  <2> SUFFICES ASSUME NEW id \in S
               PROVE  /\ IsFiniteSet(Upto(id)) /\ Cardinality(Upto(id)) \in Nat
                      /\ Cardinality(Upto(id)) <= Cardinality(S)
    OBVIOUS
  <2>1. Upto(id) \subseteq S
    OBVIOUS
  <2> HIDE DEF Upto
  <2> QED
    BY <2>1, FS_Subset, FS_CardinalityType
<1>2. \A id \in S : Cardinality(Upto(id)) # 0
  <2> SUFFICES ASSUME NEW id \in S, Cardinality(Upto(id)) = 0 PROVE FALSE
    OBVIOUS
  <2>1. Upto(id) = {}
    BY <1>1, FS_EmptySet
  <2>2. id \in Upto(id)
    OBVIOUS
  <2> QED
    BY <2>1, <2>2
<1>3. \A id, k \in S : id < k => Cardinality(Upto(id)) < Cardinality(Upto(k))
  <2> SUFFICES ASSUME NEW id \in S, NEW k \in S, id < k
               PROVE  Cardinality(Upto(id)) < Cardinality(Upto(k))
    OBVIOUS
  <2>1. Upto(id) \subseteq Upto(k)
    <3>1. \A j \in S : j \in Nat /\ id \in Nat /\ k \in Nat
      OBVIOUS
    <3>2. \A j \in S : j <= id => j <= k
      BY <3>1
    <3> QED
      BY <3>2
  <2>2. k \in Upto(k) /\ k \notin Upto(id)
    OBVIOUS
  <2>3. IsFiniteSet(Upto(k)) /\ IsFiniteSet(Upto(id))
    BY <1>1
  <2>4. Upto(id) # Upto(k)
    BY <2>2
  <2> HIDE DEF Upto
  <2>5. /\ Cardinality(Upto(id)) <= Cardinality(Upto(k))
        /\ Cardinality(Upto(id)) = Cardinality(Upto(k)) => Upto(id) = Upto(k)
    BY <2>1, <2>3, FS_Subset
  <2> QED
    BY <2>4, <2>5, <1>1
<1>4. Cardinality(S) \in Nat
  BY FS_CardinalityType
<1>5. \A id \in S : Cardinality(Upto(id)) \in 1..Cardinality(S)
  <2> HIDE DEF Upto
  <2> QED
    BY <1>1, <1>2, <1>4
<1> QED
  BY <1>3, <1>4, <1>5

\* A set of numbers in ascending order lists every one of them, once.
LEMMA AscendingLists ==
  ASSUME NEW S, IsFiniteSet(S), S \subseteq Nat
  PROVE  /\ Cardinality(S) \in Nat
         /\ Ascending(S) \in [1..Cardinality(S) -> S]
         /\ Ascending(S) \in Seq(S) /\ Len(Ascending(S)) = Cardinality(S)
         /\ \A m \in S : \E n \in 1..Cardinality(S) : Ascending(S)[n] = m
         /\ \A n, k \in 1..Cardinality(S) : n < k => Ascending(S)[n] < Ascending(S)[k]
<1> DEFINE rank(m) == Cardinality({k \in S : k <= m})
           size == Cardinality(S)
           ranks == [m \in S |-> rank(m)]
<1>1. /\ size \in Nat
      /\ \A m \in S : rank(m) \in 1..size
      /\ \A m, k \in S : m < k => rank(m) < rank(k)
  BY RanksGrow
<1>2. Ascending(S) = [n \in 1..size |-> CHOOSE m \in S : rank(m) = n]
  BY DEF Ascending
<1> HIDE DEF rank
<1>3. \A m, k \in S : rank(m) = rank(k) => m = k
  BY <1>1
<1>4. \A n \in 1..size : \E m \in S : rank(m) = n
  <2>1. ranks \in Injection(S, 1..size)
    BY <1>1, <1>3 DEF Injection, IsInjective
  <2>2. IsFiniteSet(1..size) /\ Cardinality(1..size) = size
    BY <1>1, FS_Interval
  <2>3. ranks \in Surjection(S, 1..size)
    <3> HIDE DEF ranks
    <3> QED
      BY <2>1, <2>2, FS_Injection
  <2> QED
    BY <2>3 DEF Surjection
<1> HIDE DEF size
<1>5. \A n \in 1..size : Ascending(S)[n] \in S /\ rank(Ascending(S)[n]) = n
  BY <1>2, <1>4
<1>6. Ascending(S) \in [1..size -> S]
  BY <1>2, <1>5
<1>7. Ascending(S) \in Seq(S) /\ Len(Ascending(S)) = size
  BY <1>1, <1>6
<1>8. \A m \in S : \E n \in 1..size : Ascending(S)[n] = m
  BY <1>1, <1>3, <1>5
<1>9. \A n, k \in 1..size : n < k => Ascending(S)[n] < Ascending(S)[k]
  <2> SUFFICES ASSUME NEW n \in 1..size, NEW k \in 1..size, n < k
               PROVE  Ascending(S)[n] < Ascending(S)[k]
    OBVIOUS
  <2>1. PICK a \in S, b \in S : /\ a = Ascending(S)[n] /\ b = Ascending(S)[k]
                               /\ rank(a) = n /\ rank(b) = k
    BY <1>5
  <2>2. a \in Nat /\ b \in Nat
    OBVIOUS
  <2>3. ~ (b < a) /\ a # b
    BY <1>1, <2>1
  <2> QED
    BY <2>1, <2>2, <2>3
<1> QED
  BY <1>1, <1>6, <1>7, <1>8, <1>9 DEF size

\* Induction up to a bound, with the claim as the set of numbers it holds for.
LEMMA InductionUpTo ==
  ASSUME NEW bound \in Nat, NEW Holds, 0 \in Holds,
         \A n \in 0..bound : n \in Holds /\ n < bound => n + 1 \in Holds
  PROVE  0..bound \subseteq Holds
<1> SUFFICES ASSUME ~ (0..bound \subseteq Holds) PROVE FALSE
  OBVIOUS
<1> DEFINE T == {n \in 0..bound : n \notin Holds}
<1>1. T \subseteq Nat /\ T # {}
  OBVIOUS
<1>2. PICK x \in T : \A y \in T : x <= y
  <2> HIDE DEF T
  <2> QED
    BY <1>1, LeastNumber
<1>3. x \in 0..bound /\ x # 0
  OBVIOUS
<1>4. x - 1 \in 0..bound /\ x - 1 < bound /\ x = (x - 1) + 1 /\ ~ (x <= x - 1)
  BY <1>3
<1>5. x - 1 \notin T
  BY <1>2, <1>4
<1>6. x - 1 \in Holds
  BY <1>4, <1>5
<1>7. x \in Holds
  BY <1>4, <1>6
<1> QED
  BY <1>7

\* A function on the numbers up to a bound that begins with start and goes on
\* by the steps.
Iterates(g, bound, T, start, step) ==
  /\ g \in [0..bound -> T]
  /\ g[0] = start
  /\ \A n \in 1..bound : g[n] = step[n][g[n - 1]]

\* A start and steps define such a function.
LEMMA RecursionUpTo ==
  ASSUME NEW bound \in Nat, NEW T, NEW start \in T,
         NEW step \in [1..bound -> [T -> T]]
  PROVE  \E g : Iterates(g, bound, T, start, step)
<1> DEFINE Sound(g, k) == g \in [0..k -> T] /\ g[0] = start
                          /\ \A n \in 1..k : g[n] = step[n][g[n - 1]]
           Holds == {k \in 0..bound : \E g : Sound(g, k)}
<1>1. 0 \in Holds
  <2>1. Sound([n \in 0..0 |-> start], 0)
    OBVIOUS
  <2>2. 0 \in 0..bound
    OBVIOUS
  <2> HIDE DEF Sound
  <2> QED
    BY <2>1, <2>2
<1>2. ASSUME NEW k \in 0..bound, k \in Holds, k < bound PROVE k + 1 \in Holds
  <2>1. PICK g : Sound(g, k)
    BY <1>2
  <2> DEFINE h == [n \in 0..(k + 1) |-> IF n = k + 1 THEN step[k + 1][g[k]] ELSE g[n]]
  <2>2. k + 1 \in 1..bound /\ k \in 0..k /\ g[k] \in T
    BY <1>2, <2>1
  <2>3. step[k + 1][g[k]] \in T
    BY <2>2
  <2>4. h \in [0..(k + 1) -> T]
    <3>1. \A n \in 0..(k + 1) : n # k + 1 => n \in 0..k
      OBVIOUS
    <3> QED
      BY <2>1, <2>3, <3>1
  <2>5. h[0] = start
    BY <2>1
  <2>6. ASSUME NEW n \in 1..(k + 1) PROVE h[n] = step[n][h[n - 1]]
    <3>1. n \in 0..(k + 1) /\ n - 1 \in 0..(k + 1) /\ n - 1 # k + 1
      OBVIOUS
    <3>2. h[n - 1] = g[n - 1]
      BY <3>1
    <3>3. CASE n = k + 1
      <4>1. n - 1 = k
        BY <3>3
      <4> QED
        BY <3>1, <3>2, <3>3, <4>1
    <3>4. CASE n # k + 1
      <4>1. n \in 1..k /\ h[n] = g[n]
        BY <3>4
      <4> QED
        BY <2>1, <3>2, <4>1
    <3> QED
      BY <3>3, <3>4
  <2> HIDE DEF h
  <2>7. Sound(h, k + 1)
    BY <2>4, <2>5, <2>6
  <2>8. k + 1 \in 0..bound
    BY <1>2
  <2> HIDE DEF Sound
  <2> QED
    BY <2>7, <2>8
<1>3. 0..bound \subseteq Holds
  <2> HIDE DEF Holds
  <2> QED
    BY <1>1, <1>2, InductionUpTo
<1>4. \E g : Sound(g, bound)
  BY <1>3
<1>5. \A g : Sound(g, bound) => Iterates(g, bound, T, start, step)
  BY DEF Iterates
<1> HIDE DEF Sound
<1> QED
  BY <1>4, <1>5
============================================================================
