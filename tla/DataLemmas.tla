----------------------------- MODULE DataLemmas -----------------------------
(* Induction over numbers, which the proofs about sequences need. It is stated
   for the set of the numbers that have a property, so that it is cited like
   any other fact, and rests on < being well-founded on Nat. Then what the
   operators of Orders return.                                              *)
EXTENDS Orders, WellFoundedInduction, FiniteSetTheorems, SequenceTheorems, TLAPS

\* A set that has 0 and with a number its successor has all numbers: the
\* least one it lacked would have a predecessor.
LEMMA NatSetInduction ==
    ASSUME NEW S, 0 \in S, \A n \in Nat : n \in S => n + 1 \in S
    PROVE  Nat \subseteq S
  <1> DEFINE R == OpToRel(<, Nat)
             T == Nat \ S
  <1>1. SUFFICES ASSUME T # {} PROVE FALSE
    OBVIOUS
  <1>2. IsWellFoundedOn(R, Nat)
    BY NatLessThanWellFounded
  <1>3. \A x, y \in Nat : y < x => <<y, x>> \in R
    BY DEF OpToRel
  <1> HIDE DEF R
  <1>4. PICK n \in T : \A y \in T : <<y, n>> \notin R
    BY <1>1, <1>2, WFMin
  <1>5. n \in Nat /\ n # 0 /\ n - 1 \in Nat /\ n - 1 < n
    BY <1>4
  <1>6. n - 1 \notin T
    BY <1>3, <1>4, <1>5
  <1> QED BY <1>4, <1>5, <1>6

\* In a finite set of numbers every rank is somebody's: for each r up to their
\* number there is one with r of them up to it.
Ranked(Q) == \A r \in 1..Cardinality(Q) : \E i \in Q : Cardinality({j \in Q : j <= i}) = r

LEMMA Ranks == ASSUME NEW m \in Nat, NEW P \in SUBSET (1..m) PROVE Ranked(P) /\ Cardinality(P) \in Nat
  <1> DEFINE S == {k \in Nat : \A Q \in SUBSET (1..k) : Ranked(Q)}
  <1>0. \A k \in Nat : \A Q \in SUBSET (1..k) : IsFiniteSet(Q) /\ Cardinality(Q) \in Nat
    <2>1. \A k \in Nat : IsFiniteSet(1..k)
      BY FS_Interval
    <2>2. ASSUME NEW k \in Nat, NEW Q \in SUBSET (1..k)
          PROVE  IsFiniteSet(Q)
      BY <2>1, FS_Subset
    <2> QED BY <2>2, FS_CardinalityType
  <1>1. 0 \in S
    <2>1. \A Q \in SUBSET (1..0) : Q = {}
      OBVIOUS
    <2>2. Cardinality({}) = 0
      BY FS_EmptySet
    <2> QED BY <2>1, <2>2 DEF Ranked
  <1>2. ASSUME NEW k \in Nat, k \in S
        PROVE  k + 1 \in S
    <2>1. SUFFICES ASSUME NEW Q \in SUBSET (1..(k + 1)), k + 1 \in Q PROVE Ranked(Q)
      <3>1. \A Q \in SUBSET (1..(k + 1)) : k + 1 \notin Q => Q \in SUBSET (1..k)
        OBVIOUS
      <3> QED BY <1>2, <3>1
    <2> DEFINE O == Q \ {k + 1}
    <2>2. O \in SUBSET (1..k) /\ k + 1 \notin O /\ Q = O \cup {k + 1}
      BY <2>1
    <2>3. Cardinality(Q) = Cardinality(O) + 1 /\ Cardinality(O) \in Nat
      <3>1. IsFiniteSet(O)
        BY <1>0, <2>2
      <3> HIDE DEF O
      <3>2. Cardinality(O \cup {k + 1}) = Cardinality(O) + 1
        BY <2>2, <3>1, FS_AddElement
      <3> QED BY <1>0, <2>2, <3>2
    <2>4. ASSUME NEW r \in 1..Cardinality(Q)
          PROVE  \E i \in Q : Cardinality({j \in Q : j <= i}) = r
      <3>1. CASE r = Cardinality(Q)
        <4>1. \A j \in Q : j <= k + 1
          OBVIOUS
        <4>2. {j \in Q : j <= k + 1} = Q
          BY <4>1
        <4> QED BY <2>1, <3>1, <4>2
      <3>2. CASE r \in 1..Cardinality(O)
        <4>1. PICK i \in O : Cardinality({j \in O : j <= i}) = r
          BY <1>2, <2>2, <3>2 DEF Ranked
        <4>2. {j \in Q : j <= i} = {j \in O : j <= i}
          BY <2>2, <4>1
        <4> QED BY <2>2, <4>1, <4>2
      <3> QED BY <2>3, <3>1, <3>2
    <2> QED BY <2>4 DEF Ranked
  <1> HIDE DEF S
  <1>3. Nat \subseteq S
    BY <1>1, <1>2, NatSetInduction
  <1> QED BY <1>0, <1>3 DEF S

-----------------------------------------------------------------------------
(* Rows in order                                                             *)

\* An order of finitely many elements: of two, one comes before the other.
Orderly(before) ==
    LET D == DOMAIN before IN
    /\ IsFiniteSet(D)
    /\ \A x \in D : before[x] \subseteq D /\ x \notin before[x]
    /\ \A x, y \in D : x # y => x \in before[y] \/ y \in before[x]
    /\ \A x, y \in D : x \in before[y] => before[x] \subseteq before[y]

\* A sequence of each element of a set, once
Enumerates(s, S) ==
    /\ IsFiniteSet(S) /\ s \in Seq(S) /\ Len(s) = Cardinality(S)
    /\ \A x \in S : \E i \in 1..Len(s) : s[i] = x
    /\ \A i, j \in 1..Len(s) : i # j => s[i] # s[j]

LEMMA FewerInPart ==
    ASSUME NEW T, IsFiniteSet(T), NEW Q \in SUBSET T, NEW x \in T, x \notin Q
    PROVE  Cardinality(Q) \in Nat /\ Cardinality(T) \in Nat /\ Cardinality(Q) < Cardinality(T)
  <1>1. IsFiniteSet(Q) /\ Cardinality(Q) <= Cardinality(T) /\ (Cardinality(Q) = Cardinality(T) => Q = T)
    BY FS_Subset
  <1>2. Cardinality(Q) \in Nat /\ Cardinality(T) \in Nat
    BY <1>1, FS_CardinalityType
  <1> QED BY <1>1, <1>2

\* The number of what comes before is a place of its own, so each place is taken.
LEMMA InOrderLists ==
    ASSUME NEW before, Orderly(before)
    PROVE  /\ Enumerates(InOrder(before), DOMAIN before)
           /\ \A i, j \in 1..Len(InOrder(before)) : i < j => InOrder(before)[i] \in before[InOrder(before)[j]]
  <1> DEFINE D == DOMAIN before
             N == Cardinality(D)
             place == [x \in D |-> Cardinality(before[x])]
             L == InOrder(before)
  <1>0. /\ IsFiniteSet(D) /\ N \in Nat
        /\ \A x \in D : before[x] \subseteq D /\ x \notin before[x]
        /\ \A x, y \in D : x # y => x \in before[y] \/ y \in before[x]
        /\ \A x, y \in D : x \in before[y] => before[x] \subseteq before[y]
    BY FS_CardinalityType DEF Orderly
  <1>1. ASSUME NEW x \in D
        PROVE  place[x] \in 0..N - 1
    <2>1. Cardinality(before[x]) \in Nat /\ Cardinality(before[x]) < N
      BY <1>0, FewerInPart
    <2> QED BY <1>0, <2>1
  <1>2. ASSUME NEW x \in D, NEW y \in D, x \in before[y]
        PROVE  place[x] < place[y]
    <2>1. IsFiniteSet(before[y])
      BY <1>0, FS_Subset
    <2>2. before[x] \in SUBSET before[y] /\ x \notin before[x]
      BY <1>0, <1>2
    <2> QED BY <1>2, <2>1, <2>2, FewerInPart
  <1>3. \A x, y \in D : x # y => place[x] # place[y]
    BY <1>0, <1>1, <1>2
  <1>4. \A n \in 0..N - 1 : \E x \in D : place[x] = n
    <2>1. place \in Injection(D, 0..N - 1)
      BY <1>1, <1>3 DEF Injection, IsInjective
    <2>2. IsFiniteSet(0..N - 1) /\ Cardinality(0..N - 1) = N
      BY <1>0, FS_Interval
    <2> HIDE DEF place
    <2>3. place \in Surjection(D, 0..N - 1)
      BY <2>1, <2>2, FS_Injection
    <2> QED BY <2>3 DEF Surjection
  <1>5. L = [n \in 1..N |-> CHOOSE x \in D : place[x] = n - 1]
    BY DEF InOrder
  <1> HIDE DEF place, L, D
  <1>6. ASSUME NEW n \in 1..N
        PROVE  L[n] \in D /\ place[L[n]] = n - 1
    <2>1. n - 1 \in 0..N - 1
      BY <1>0
    <2>2. \E x \in D : place[x] = n - 1
      BY <1>4, <2>1
    <2> QED BY <1>5, <2>2
  <1>7. L \in Seq(D) /\ Len(L) = N
    <2>1. L \in [1..N -> D]
      BY <1>5, <1>6
    <2> QED BY <1>0, <2>1, SeqDef
  <1>8. ASSUME NEW x \in D
        PROVE  \E n \in 1..N : L[n] = x
    <2>1. place[x] + 1 \in 1..N /\ (place[x] + 1) - 1 = place[x]
      BY <1>0, <1>1
    <2>2. L[place[x] + 1] \in D /\ place[L[place[x] + 1]] = place[x]
      BY <1>6, <2>1
    <2> QED BY <1>3, <2>1, <2>2
  <1>9. ASSUME NEW i \in 1..N, NEW j \in 1..N
        PROVE  /\ i # j => L[i] # L[j]
               /\ i < j => L[i] \in before[L[j]]
    <2>1. /\ L[i] \in D /\ place[L[i]] = i - 1 /\ L[j] \in D /\ place[L[j]] = j - 1
          /\ i \in Int /\ j \in Int
      BY <1>0, <1>6
    <2>2. i # j => L[i] # L[j]
      BY <2>1
    <2>3. ASSUME i < j
          PROVE  L[j] \notin before[L[i]]
      <3>1. L[j] \in before[L[i]] => place[L[j]] < place[L[i]]
        BY <1>2, <2>1
      <3> QED BY <2>1, <2>3, <3>1
    <2> QED BY <1>0, <2>1, <2>2, <2>3 DEF D
  <1> QED BY <1>0, <1>7, <1>8, <1>9 DEF L, D, Enumerates

\* Some elements of a sequence, and their places in it
IsKept(K, place, s, T) ==
    /\ K \in Seq(Range(s) \cap T) /\ Len(K) <= Len(s)
    /\ place \in [1..Len(K) -> 1..Len(s)]
    /\ \A n \in 1..Len(K) : K[n] = s[place[n]]
    /\ \A i, j \in 1..Len(K) : i < j => place[i] < place[j]
    /\ \A i \in 1..Len(s) : s[i] \in T => \E n \in 1..Len(K) : K[n] = s[i]

\* What is kept of a sequence is all its elements that are in the set, in their order.
LEMMA KeptLists ==
    ASSUME NEW s, s \in Seq(Range(s)), NEW T
    PROVE  IsKept(Kept(s, T), PlacesOf(s, T), s, T)
  <1> DEFINE S == Range(s)
             places == {i \in DOMAIN s : s[i] \in T}
             before == [i \in places |-> {j \in places : j < i}]
             order  == PlacesOf(s, T)
             K      == Kept(s, T)
  <1>1. Len(s) \in Nat /\ DOMAIN s = 1..Len(s) /\ places \subseteq 1..Len(s) /\ \A i \in 1..Len(s) : s[i] \in S
    BY LenProperties, ElementOfSeq
  <1>2. IsFiniteSet(1..Len(s)) /\ Cardinality(1..Len(s)) = Len(s)
    BY <1>1, FS_Interval
  <1>3. IsFiniteSet(places) /\ Cardinality(places) <= Len(s) /\ Cardinality(places) \in Nat
    BY <1>1, <1>2, FS_Subset, FS_CardinalityType
  <1>4. Orderly(before)
    <2>1. DOMAIN before = places
      OBVIOUS
    <2>2. \A x, y, z \in places : x < y /\ y < z => x < z
      BY <1>1
    <2>3. \A x, y \in places : ~(x < x) /\ (x # y => x < y \/ y < x)
      BY <1>1
    <2> QED BY <1>3, <2>1, <2>2, <2>3 DEF Orderly
  <1>5. /\ Enumerates(order, places)
        /\ \A i, j \in 1..Len(order) : i < j => order[i] \in {k \in places : k < order[j]}
    <2>1. DOMAIN before = places /\ \A i \in places : before[i] = {k \in places : k < i}
      OBVIOUS
    <2>0. order = InOrder(before)
      BY DEF PlacesOf
    <2> HIDE DEF before, places, order
    <2>2. Enumerates(order, DOMAIN before) /\ \A i, j \in 1..Len(order) : i < j => order[i] \in before[order[j]]
      BY <1>4, <2>0, InOrderLists
    <2>3. order \in Seq(places)
      BY <2>1, <2>2 DEF Enumerates
    <2>4. \A j \in 1..Len(order) : order[j] \in places
      BY <2>3, ElementOfSeq
    <2> QED BY <2>1, <2>2, <2>4
  <1>6. K = [n \in DOMAIN order |-> s[order[n]]]
    BY DEF Kept
  <1>7. order \in Seq(places) /\ Len(order) = Cardinality(places) /\ DOMAIN order = 1..Len(order)
        /\ \A n \in 1..Len(order) : order[n] \in places
    <2> HIDE DEF order
    <2>1. order \in Seq(places) /\ Len(order) = Cardinality(places)
      BY <1>5 DEF Enumerates
    <2> QED BY <2>1
  <1> HIDE DEF order, K
  <1>8. K \in Seq(S \cap T) /\ Len(K) = Len(order)
    <2>1. Len(order) \in Nat
      BY <1>3, <1>7
    <2>2. K \in [1..Len(order) -> S \cap T]
      BY <1>1, <1>6, <1>7
    <2>3. K \in Seq(S \cap T)
      BY <2>1, <2>2, SeqDef
    <2> QED BY <2>1, <2>2, <2>3, LenProperties
  <1>9. order \in [1..Len(K) -> 1..Len(s)]
    <2>1. order \in [1..Len(order) -> places]
      BY <1>7
    <2> QED BY <1>1, <1>8, <2>1
  <1>10. \A n \in 1..Len(K) : K[n] = s[order[n]]
    BY <1>6, <1>7, <1>8
  <1>11. ASSUME NEW i \in 1..Len(K), NEW j \in 1..Len(K), i < j
         PROVE  order[i] < order[j]
    BY <1>5, <1>7, <1>8, <1>11
  <1>12. ASSUME NEW i \in 1..Len(s), s[i] \in T
         PROVE  \E n \in 1..Len(K) : K[n] = s[i]
    <2>1. \E n \in 1..Len(K) : order[n] = i
      BY <1>1, <1>5, <1>8, <1>12 DEF Enumerates
    <2> QED BY <1>10, <2>1
  <1>13. Len(K) <= Len(s)
    BY <1>3, <1>7, <1>8
  <1> QED BY <1>8, <1>9, <1>10, <1>11, <1>12, <1>13 DEF K, order, S, IsKept

\* A set of numbers that has some has a least.
LEMMA LeastOne == ASSUME NEW S \in SUBSET Nat, S # {} PROVE \E x \in S : \A y \in S : x <= y
  <1> DEFINE R == OpToRel(<, Nat)
  <1>1. IsWellFoundedOn(R, Nat)
    BY NatLessThanWellFounded
  <1>2. \A x, y \in Nat : y < x => <<y, x>> \in R
    BY DEF OpToRel
  <1> HIDE DEF R
  <1>3. PICK n \in S : \A y \in S : <<y, n>> \notin R
    BY <1>1, WFMin
  <1>4. ASSUME NEW y \in S
        PROVE  n <= y
    <2>1. ~(y < n)
      BY <1>2, <1>3
    <2> QED BY <2>1
  <1> QED BY <1>4
=============================================================================
