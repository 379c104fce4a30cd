----------------------------- MODULE PickTheorems ----------------------------
(* What a list comprehension returns.  Induction over finite sets is by a   *)
(* smallest counterexample.                                                 *)
EXTENDS Picks, Sequences, FiniteSetTheorems, FunctionTheorems, WellFoundedInduction, TLAPS

Increasing(f) == \A i, j \in DOMAIN f : i < j => f[i] < f[j]

(* A family of finite sets that is not empty has a smallest member. *)
LEMMA SmallestSet ==
  ASSUME NEW S, IsFiniteSet(S), NEW bad \in SUBSET (SUBSET S), bad # {}
  PROVE  \E A \in bad : \A B \in SUBSET A : B # A => B \notin bad
<1>1. IsWellFoundedOn(StrictSubsetOrdering(S), SUBSET S)
  BY FS_StrictSubsetOrderingWellFounded, FS_FiniteSubsetsOfFinite
<1>2. PICK A \in bad : \A B \in bad : <<B, A>> \notin StrictSubsetOrdering(S)
  BY <1>1, WFMin
<1> QED
  BY <1>2 DEF StrictSubsetOrdering

(* Finitely many numbers have a greatest one. *)
LEMMA Greatest ==
  ASSUME NEW at \in SUBSET Nat, IsFiniteSet(at), at # {}
  PROVE  \E m \in at : \A k \in at : k <= m
<1> DEFINE HasMax(A) == \E m \in A : \A k \in A : k <= m
           bad == { A \in SUBSET at : A # {} /\ ~HasMax(A) }
<1> SUFFICES ASSUME bad # {} PROVE FALSE
  OBVIOUS
<1>0. bad \in SUBSET (SUBSET at)
  OBVIOUS
<1>1. PICK A \in bad : \A B \in SUBSET A : B # A => B \notin bad
  <2> HIDE DEF bad
  <2> QED
    BY <1>0, SmallestSet
<1>2. PICK x \in A : TRUE
  OBVIOUS
<1> DEFINE B == A \ {x}
<1>3. B \in SUBSET A /\ B # A
  BY <1>2
<1>4. CASE B = {}
  BY <1>1, <1>2, <1>4
<1>5. CASE B # {}
  <2>1. HasMax(B)
    BY <1>1, <1>3, <1>5
  <2>2. PICK m \in B : \A k \in B : k <= m
    BY <2>1
  <2>3. CASE x <= m
    BY <1>1, <2>2, <2>3
  <2>4. CASE ~(x <= m)
    <3>1. \A k \in A : k <= x
      BY <1>1, <2>2, <2>4
    <3> QED
      BY <1>1, <1>2, <3>1
  <2> QED
    BY <2>3, <2>4
<1> QED
  BY <1>4, <1>5

(* Finitely many numbers can be put in order. *)
LEMMA Enumerated ==
  ASSUME NEW at \in SUBSET Nat, IsFiniteSet(at)
  PROVE  \E f \in [1 .. Cardinality(at) -> at] : Increasing(f)
<1> DEFINE Ordered(A) == \E f \in [1 .. Cardinality(A) -> A] : Increasing(f)
           bad == { A \in SUBSET at : ~Ordered(A) }
<1> SUFFICES ASSUME bad # {} PROVE FALSE
  OBVIOUS
<1>0. bad \in SUBSET (SUBSET at)
  OBVIOUS
<1>1. PICK A \in bad : \A B \in SUBSET A : B # A => B \notin bad
  <2> HIDE DEF bad
  <2> QED
    BY <1>0, SmallestSet
<1>2. IsFiniteSet(A) /\ A \in SUBSET Nat
  BY FS_Subset
<1>3. CASE A = {}
  <2>1. Cardinality(A) = 0
    BY <1>3, FS_EmptySet
  <2> DEFINE f == [i \in 1 .. 0 |-> 0]
  <2>2. f \in [1 .. Cardinality(A) -> A] /\ Increasing(f)
    BY <2>1 DEF Increasing
  <2> QED
    BY <1>1, <2>2
<1>4. CASE A # {}
  <2>1. PICK m \in A : \A k \in A : k <= m
    BY <1>2, <1>4, Greatest
  <2> DEFINE B == A \ {m}
             n == Cardinality(B)
  <2>2. B \in SUBSET A /\ B # A /\ B \in SUBSET at
    BY <2>1
  <2>3. Ordered(B)
    BY <1>1, <2>2
  <2>4. PICK g \in [1 .. n -> B] : Increasing(g)
    BY <2>3
  <2>5. n \in Nat /\ Cardinality(A) = n + 1
    <3>1. IsFiniteSet(B) /\ n = Cardinality(A) - 1
      BY <1>2, <2>1, FS_RemoveElement
    <3>2. Cardinality(A) \in Nat /\ n \in Nat
      BY <1>2, <3>1, FS_CardinalityType
    <3> QED
      BY <3>1, <3>2
  <2> HIDE DEF n
  <2> DEFINE f == [i \in 1 .. n + 1 |-> IF i = n + 1 THEN m ELSE g[i]]
  <2>6. f \in [1 .. Cardinality(A) -> A]
    BY <2>4, <2>5
  <2>7. Increasing(f)
    <3> SUFFICES ASSUME NEW i \in 1 .. n + 1, NEW j \in 1 .. n + 1, i < j
                 PROVE  f[i] < f[j]
      BY DEF Increasing
    <3>1. i \in 1 .. n /\ f[i] = g[i] /\ g[i] \in B
      BY <2>4, <2>5
    <3>2. CASE j = n + 1
      <4>1. f[j] = m /\ g[i] <= m /\ g[i] # m /\ g[i] \in Nat /\ m \in Nat
        BY <1>2, <2>1, <3>1, <3>2
      <4> QED
        BY <3>1, <4>1
    <3>3. CASE j # n + 1
      <4>1. j \in 1 .. n /\ f[j] = g[j]
        BY <2>5, <3>3
      <4> QED
        BY <2>4, <3>1, <4>1 DEF Increasing
    <3> QED
      BY <3>2, <3>3
  <2> HIDE DEF f
  <2>8. Ordered(A)
    BY <2>6, <2>7
  <2> QED
    BY <1>1, <2>8
<1> QED
  BY <1>3, <1>4

(* Going up through a set of numbers goes through all of it, each in its    *)
(* rank.                                                                    *)
LEMMA Ranked ==
  ASSUME NEW at \in SUBSET Nat, IsFiniteSet(at),
         NEW g \in [1 .. Cardinality(at) -> at], Increasing(g)
  PROVE  /\ \A k \in at : \E i \in 1 .. Cardinality(at) : g[i] = k
         /\ \A i \in 1 .. Cardinality(at) : Rank(at, g[i]) = i
<1> DEFINE n == Cardinality(at)
<1>1. n \in Nat
  BY FS_CardinalityType
<1>2. \A i \in 1 .. n : g[i] \in at /\ g[i] \in Nat
  OBVIOUS
<1>3. \A i, j \in 1 .. n : (i < j => g[i] < g[j]) /\ (g[i] = g[j] => i = j)
  <2>1. ASSUME NEW i \in 1 .. n, NEW j \in 1 .. n PROVE i < j => g[i] < g[j]
    BY DEF Increasing
  <2>2. ASSUME NEW i \in 1 .. n, NEW j \in 1 .. n, g[i] = g[j], i # j PROVE FALSE
    <3>1. i < j \/ j < i
      BY <1>1, <2>2
    <3>2. g[i] < g[j] \/ g[j] < g[i]
      BY <2>1, <3>1
    <3> QED
      BY <1>2, <2>2, <3>2
  <2> QED
    BY <2>1, <2>2
<1>4. g \in Injection(1 .. n, at)
  BY <1>3 DEF Injection, IsInjective
<1>5. Cardinality(1 .. n) = n
  BY <1>1, FS_Interval
<1>6. g \in Surjection(1 .. n, at)
  BY <1>4, <1>5, FS_Injection
<1>7. \A k \in at : \E i \in 1 .. n : g[i] = k
  BY <1>6 DEF Surjection
<1>8. ASSUME NEW i \in 1 .. n PROVE Rank(at, g[i]) = i
  <2> DEFINE upto == {j \in at : j <= g[i]}
             h == [m \in 1 .. i |-> g[m]]
  <2>1. ASSUME NEW m \in 1 .. n PROVE g[m] <= g[i] <=> m <= i
    <3>1. m < i \/ m = i \/ i < m
      BY <1>1
    <3>2. g[m] \in Nat /\ g[i] \in Nat /\ m \in Nat /\ i \in Nat
      BY <1>1, <1>2
    <3>3. (m < i => g[m] < g[i]) /\ (i < m => g[i] < g[m])
      BY <1>3
    <3> QED
      BY <3>1, <3>2, <3>3
  <2>2. \A m \in 1 .. i : m \in 1 .. n /\ m <= i
    BY <1>1
  <2>3. h \in [1 .. i -> upto]
    BY <1>2, <2>1, <2>2
  <2>4. h \in Injection(1 .. i, upto)
    BY <1>3, <2>2, <2>3 DEF Injection, IsInjective
  <2>5. \A k \in upto : \E m \in 1 .. i : h[m] = k
    <3> SUFFICES ASSUME NEW k \in upto PROVE \E m \in 1 .. i : h[m] = k
      OBVIOUS
    <3>1. PICK m \in 1 .. n : g[m] = k
      BY <1>7
    <3>2. m \in 1 .. i
      BY <1>1, <2>1, <3>1
    <3> QED
      BY <3>1, <3>2
  <2>6. h \in Bijection(1 .. i, upto)
    BY <2>3, <2>4, <2>5 DEF Bijection, Surjection
  <2>7. IsFiniteSet(1 .. i) /\ Cardinality(1 .. i) = i
    BY <1>1, FS_Interval
  <2>8. Cardinality(upto) = i
    <3> HIDE DEF h, upto
    <3> QED
      BY <2>6, <2>7, FS_Bijection DEF ExistsBijection
  <2> QED
    BY <2>8 DEF Rank
<1> QED
  BY <1>7, <1>8

(* The positions picked, each once, in order. *)
THEOREM PositionsOf ==
  ASSUME NEW at \in SUBSET Nat, IsFiniteSet(at)
  PROVE  /\ Cardinality(at) \in Nat
         /\ Positions(at) \in [1 .. Cardinality(at) -> at]
         /\ Increasing(Positions(at))
         /\ \A k \in at : \E i \in 1 .. Cardinality(at) : Positions(at)[i] = k
<1> DEFINE n == Cardinality(at)
<1>1. n \in Nat
  BY FS_CardinalityType
<1>2. PICK g \in [1 .. n -> at] : Increasing(g)
  BY Enumerated
<1>3. /\ \A k \in at : \E i \in 1 .. n : g[i] = k
      /\ \A i \in 1 .. n : Rank(at, g[i]) = i
  BY <1>2, Ranked
<1>4. ASSUME NEW i \in 1 .. n PROVE (CHOOSE k \in at : Rank(at, k) = i) = g[i]
  <2>1. \A k \in at : Rank(at, k) = i => k = g[i]
    BY <1>3
  <2>2. g[i] \in at /\ Rank(at, g[i]) = i
    BY <1>2, <1>3
  <2> QED
    BY <2>1, <2>2
<1>5. Positions(at) = g
  BY <1>4 DEF Positions
<1> QED
  BY <1>1, <1>2, <1>3, <1>5

(* Positions of a sequence are finitely many numbers. *)
LEMMA PositionsFinite ==
  ASSUME NEW S, NEW s \in Seq(S), NEW at \in SUBSET (DOMAIN s)
  PROVE  at \in SUBSET Nat /\ IsFiniteSet(at)
<1>1. DOMAIN s = 1 .. Len(s) /\ Len(s) \in Nat
  OBVIOUS
<1>2. IsFiniteSet(1 .. Len(s))
  BY <1>1, FS_Interval
<1>3. 1 .. Len(s) \in SUBSET Nat
  BY <1>1
<1> QED
  BY <1>1, <1>2, <1>3, FS_Subset

(* A list comprehension is a sequence of elements of the one it ranges      *)
(* over, as long as there are positions; it has the element of each         *)
(* position, and keeps their order.                                         *)
THEOREM PickedIs ==
  ASSUME NEW S, NEW s \in Seq(S), NEW at \in SUBSET (DOMAIN s)
  PROVE  /\ Picked(s, at) \in Seq(S)
         /\ Cardinality(at) \in Nat
         /\ Len(Picked(s, at)) = Cardinality(at)
         /\ DOMAIN Picked(s, at) = 1 .. Cardinality(at)
         /\ Positions(at) \in [1 .. Cardinality(at) -> at]
         /\ Increasing(Positions(at))
         /\ \A k \in at : \E i \in 1 .. Cardinality(at) : Positions(at)[i] = k
         /\ \A i \in 1 .. Cardinality(at) : Picked(s, at)[i] = s[Positions(at)[i]]
<1> DEFINE n == Cardinality(at)
           pos == Positions(at)
<1>1. at \in SUBSET Nat /\ IsFiniteSet(at)
  BY PositionsFinite
<1>2. /\ n \in Nat /\ pos \in [1 .. n -> at] /\ Increasing(pos)
      /\ \A k \in at : \E i \in 1 .. n : pos[i] = k
  BY <1>1, PositionsOf
<1>3. Picked(s, at) = [i \in 1 .. n |-> s[pos[i]]]
  BY <1>2 DEF Picked
<1> HIDE DEF n, pos
<1>4. \A i \in 1 .. n : s[pos[i]] \in S
  BY <1>2
<1>5. Picked(s, at) \in [1 .. n -> S]
  BY <1>3, <1>4
<1>6. Picked(s, at) \in Seq(S) /\ Len(Picked(s, at)) = n
  BY <1>2, <1>5
<1>7. /\ DOMAIN Picked(s, at) = 1 .. n
      /\ \A i \in 1 .. n : Picked(s, at)[i] = s[pos[i]]
  BY <1>3
<1> QED
  BY <1>2, <1>6, <1>7 DEF n, pos

(* Numbers have a least one among them. *)
LEMMA LeastOne ==
  ASSUME NEW A \in SUBSET Nat, A # {}
  PROVE  \E m \in A : \A k \in A : m <= k
<1>0. \A k \in A : k \in Nat
  OBVIOUS
<1>1. PICK a \in A : TRUE
  OBVIOUS
<1> DEFINE low == A \cap (0 .. a)
<1>2. low \in SUBSET Nat /\ IsFiniteSet(low) /\ a \in low
  <2>1. a \in Nat
    BY <1>1
  <2>2. IsFiniteSet(0 .. a)
    <3>1. 0 \in Int /\ a \in Int
      BY <2>1
    <3> QED
      BY <3>1, FS_Interval
  <2>3. low \subseteq 0 .. a
    BY <1>0, <2>1
  <2>4. low \in SUBSET Nat /\ a \in low
    BY <1>1, <2>1
  <2>5. IsFiniteSet(low)
    <3> HIDE DEF low
    <3> QED
      BY <2>2, <2>3, FS_Subset
  <2> QED
    BY <2>4, <2>5
<1> DEFINE pos == Positions(low)
           n == Cardinality(low)
<1>3. /\ n \in Nat /\ pos \in [1 .. n -> low] /\ Increasing(pos)
      /\ \A k \in low : \E i \in 1 .. n : pos[i] = k
  <2> HIDE DEF low
  <2> QED
    BY <1>2, PositionsOf
<1> HIDE DEF pos, n
<1>4. 1 \in 1 .. n
  BY <1>2, <1>3
<1>5. pos[1] \in low
  BY <1>3, <1>4
<1>6. ASSUME NEW k \in low PROVE pos[1] <= k
  <2>1. PICK i \in 1 .. n : pos[i] = k
    BY <1>3
  <2>2. i = 1 \/ 1 < i
    BY <1>3
  <2>3. 1 < i => pos[1] < pos[i]
    BY <1>3, <1>4 DEF Increasing
  <2>4. pos[1] \in Nat /\ k \in Nat
    BY <1>5
  <2> QED
    BY <2>1, <2>2, <2>3, <2>4
<1>7. pos[1] \in A /\ a \in low /\ pos[1] <= a
  BY <1>2, <1>5, <1>6
<1>8. ASSUME NEW k \in A PROVE pos[1] <= k
  <2>1. k \in Nat /\ a \in Nat /\ pos[1] \in Nat
    BY <1>0, <1>1, <1>7
  <2>2. CASE k \in low
    BY <1>6, <2>2
  <2>3. CASE k \notin low
    <3>1. ~(k <= a)
      BY <2>1, <2>3
    <3> QED
      BY <1>7, <2>1, <3>1
  <2> QED
    BY <2>2, <2>3
<1> QED
  BY <1>7, <1>8

(* What is so in the beginning and stays so with each step is so in the end. *)
LEMMA EachInTurn ==
  ASSUME NEW n \in Nat, NEW good, 0 \in good,
         \A k \in 1 .. n : k - 1 \in good => k \in good
  PROVE  \A k \in 0 .. n : k \in good
<1> DEFINE bad == {k \in 0 .. n : k \notin good}
<1> SUFFICES ASSUME bad # {} PROVE FALSE
  OBVIOUS
<1>1. PICK m \in bad : \A k \in bad : m <= k
  <2>1. bad \in SUBSET Nat
    OBVIOUS
  <2> HIDE DEF bad
  <2> QED
    BY <2>1, LeastOne
<1>2. m \in 1 .. n /\ m - 1 \in 0 .. n
  BY <1>1
<1>3. m - 1 \in good
  BY <1>1, <1>2
<1> QED
  BY <1>1, <1>2, <1>3
=============================================================================
