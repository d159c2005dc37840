--------------------------- MODULE OrderedMap_proofs ---------------------------
(***************************************************************************)
(* What the proofs about both stores and about the server use of maps, of  *)
(* the greatest number in a set, and of the natural numbers.               *)
(***************************************************************************)
EXTENDS OrderedMap, FiniteSetTheorems, TLAPS

\* What map::insert and map::operator[] do to a map: key k is there with
\* value v, and every other key is as it was.
LEMMA PutMap ==
  ASSUME NEW m, NEW k, NEW v
  PROVE  /\ DOMAIN Put(m, k, v) = DOMAIN m \cup {k}
         /\ Put(m, k, v)[k] = v
         /\ \A j \in DOMAIN m : j # k => Put(m, k, v)[j] = m[j]
         /\ Put(m, k, v) = [j \in DOMAIN m \cup {k} |-> Put(m, k, v)[j]]
  BY DEF Put

\* What map::erase does to a map: key k is gone, the others are as before.
LEMMA EraseMap ==
  ASSUME NEW m, NEW k
  PROVE  /\ DOMAIN Erase(m, k) = DOMAIN m \ {k}
         /\ \A j \in DOMAIN m \ {k} : Erase(m, k)[j] = m[j]
         /\ Erase(m, k) = [j \in DOMAIN m \ {k} |-> Erase(m, k)[j]]
  BY DEF Erase, Restrict

-------------------------------------------------------------------------------
\* A set of natural numbers has a least one: the sets 1..n are ordered by
\* inclusion as the numbers n are by size, and inclusion of finite sets is
\* well-founded.
LEMMA LeastNatural ==
  ASSUME NEW S \in SUBSET Nat, S # {}
  PROVE  \E n \in S : \A m \in S : n <= m
  <1> DEFINE R == StrictSubsetOrdering(Nat)
             T == {1..n : n \in S}
  <1>1. T \subseteq FiniteSubsetsOf(Nat)
    <2>1. \A n \in S : 1..n \in SUBSET Nat /\ IsFiniteSet(1..n)
      BY FS_Interval
    <2> QED
      BY <2>1 DEF FiniteSubsetsOf
  <1>2. T # {}
    OBVIOUS
  <1>3. PICK t \in T : \A u \in T : <<u, t>> \notin R
    <2>1. IsWellFoundedOn(R, FiniteSubsetsOf(Nat))
      BY FS_StrictSubsetOrderingWellFounded
    <2> HIDE DEF R, T
    <2> QED
      BY <1>1, <1>2, <2>1, WFMin
  <1>4. PICK n \in S : t = 1..n
    OBVIOUS
  <1>5. ASSUME NEW m \in S, m < n
        PROVE  FALSE
    <2>1. 1..m \subseteq 1..n /\ n \in 1..n /\ n \notin 1..m
      BY <1>5
    <2>2. 1..m \in SUBSET Nat /\ 1..n \in SUBSET Nat
      OBVIOUS
    <2>3. <<1..m, 1..n>> \in R
      BY <2>1, <2>2 DEF StrictSubsetOrdering
    <2> QED
      BY <1>3, <1>4, <2>3
  <1> QED
    BY <1>5

\* Induction over the natural numbers, for a property given as the set of the
\* numbers that have it.
LEMMA NaturalInduction ==
  ASSUME NEW S \in SUBSET Nat, 0 \in S, \A n \in S : n + 1 \in S
  PROVE  S = Nat
  <1> SUFFICES ASSUME Nat \ S # {}
               PROVE  FALSE
    OBVIOUS
  <1>1. PICK n \in Nat \ S : \A m \in Nat \ S : n <= m
    BY LeastNatural
  <1>2. n - 1 \in Nat /\ n - 1 \notin Nat \ S
    BY <1>1
  <1> QED
    BY <1>1, <1>2

\* A set of numbers with a bound has a greatest one, and Max is that.
LEMMA GreatestOf ==
  ASSUME NEW S \in SUBSET Int, S # {}, NEW b \in Int, \A n \in S : n <= b
  PROVE  Max(S) \in S /\ \A n \in S : n <= Max(S)
  <1> DEFINE D == {b - n : n \in S}
  <1>1. PICK d \in D : \A e \in D : d <= e
    <2>1. \A n \in S : b - n \in Nat
      OBVIOUS
    <2>2. D \in SUBSET Nat /\ D # {}
      BY <2>1
    <2> HIDE DEF D
    <2> QED
      BY <2>2, LeastNatural
  <1>2. PICK m \in S : d = b - m
    OBVIOUS
  <1>3. \E x \in S : \A y \in S : x >= y
    BY <1>1, <1>2
  <1> HIDE DEF D
  <1> QED
    BY <1>3 DEF Max

-------------------------------------------------------------------------------
\* A finite set of numbers can be put in ascending order: the place of a number
\* is how many of the set there are up to it.
LEMMA AscendingExists ==
  ASSUME NEW S \in SUBSET Int, IsFiniteSet(S)
  PROVE  \E s \in [1..Cardinality(S) -> S] : Ascending(s) /\ Range(s) = S
  <1> DEFINE n == Cardinality(S)
             UpTo(k) == {j \in S : j <= k}
             place == [k \in S |-> Cardinality(UpTo(k))]
             s == [i \in 1..n |-> CHOOSE k \in S : place[k] = i]
  <1>1. n \in Nat
    BY FS_CardinalityType
  <1>2. \A k \in S : IsFiniteSet(UpTo(k)) /\ Cardinality(UpTo(k)) \in Nat
    BY FS_Subset, FS_CardinalityType
  <1>3. \A k \in S : place[k] \in 1..n
    <2> SUFFICES ASSUME NEW k \in S
                 PROVE  place[k] \in 1..n
      OBVIOUS
    <2>1. UpTo(k) \in SUBSET S /\ k \in UpTo(k)
      OBVIOUS
    <2>2. Cardinality(UpTo(k)) <= n
      BY <2>1, FS_Subset
    <2>3. Cardinality(UpTo(k)) # 0
      BY <2>1, <1>2, FS_EmptySet
    <2> QED
      BY <1>1, <1>2, <2>2, <2>3
  <1>4. ASSUME NEW j \in S, NEW k \in S, j < k
        PROVE  place[j] < place[k]
    <2>1. /\ UpTo(j) \in SUBSET UpTo(k)
          /\ k \in UpTo(k) /\ k \notin UpTo(j)
      <3>1. j \in Int /\ k \in Int /\ j < k
        BY <1>4
      <3>2. \A i \in Int : i <= j => i <= k
        BY <3>1
      <3>3. k \in UpTo(k) /\ k \notin UpTo(j)
        BY <3>1
      <3>4. \A i \in UpTo(j) : i \in S /\ i \in Int /\ i <= j
        OBVIOUS
      <3>5. \A i \in UpTo(j) : i \in UpTo(k)
        BY <3>2, <3>4
      <3> QED
        BY <3>3, <3>5
    <2>2. Cardinality(UpTo(j)) <= Cardinality(UpTo(k))
      BY <1>2, <2>1, FS_Subset
    <2>3. Cardinality(UpTo(j)) # Cardinality(UpTo(k))
      BY <1>2, <2>1, FS_Subset
    <2> QED
      BY <1>2, <2>2, <2>3
  <1>5. place \in Bijection(S, 1..n)
    <2> HIDE DEF n, place
    <2>1. \A j, k \in S : place[j] = place[k] => j = k
      BY <1>1, <1>3, <1>4
    <2>2. place \in [S -> 1..n]
      BY <1>3 DEF place
    <2>3. place \in Injection(S, 1..n)
      BY <2>1, <2>2 DEF Injection, IsInjective
    <2>4. IsFiniteSet(1..n) /\ Cardinality(1..n) = n
      BY <1>1, FS_Interval
    <2>5. place \in Surjection(S, 1..n)
      BY <2>3, <2>4, FS_Injection DEF n
    <2> QED
      BY <2>3, <2>5 DEF Bijection
  <1>6. \A i \in 1..n : s[i] \in S /\ place[s[i]] = i
    <2> HIDE DEF place
    <2>1. \A i \in 1..n : \E k \in S : place[k] = i
      BY <1>5 DEF Bijection, Surjection
    <2> QED
      BY <2>1
  <1> HIDE DEF place
  <1>7. s \in [1..n -> S] /\ DOMAIN s = 1..n
    BY <1>6
  <1> HIDE DEF s, n
  <1>8. Ascending(s)
    <2> SUFFICES ASSUME NEW i \in 1..n, NEW j \in 1..n, i < j
                 PROVE  s[i] < s[j]
      BY <1>7 DEF Ascending
    <2>1. s[i] \in Int /\ s[j] \in Int
      BY <1>6
    <2>2. CASE s[j] < s[i]
      <3>1. s[i] \in S /\ s[j] \in S /\ i \in Int /\ j \in Int
        BY <1>1, <1>6
      <3>2. place[s[j]] < place[s[i]]
        BY <1>4, <2>2, <3>1
      <3> QED
        BY <1>6, <3>1, <3>2
    <2>3. CASE s[j] = s[i]
      BY <1>6, <2>3
    <2> QED
      BY <2>1, <2>2, <2>3
  <1>9. \A k \in S : place[k] \in 1..n /\ s[place[k]] = k
    <2>1. \A j, k \in S : place[j] = place[k] => j = k
      BY <1>5 DEF Bijection, Injection, IsInjective
    <2> QED
      BY <1>3, <1>6, <2>1 DEF place
  <1>10. Range(s) = S
    BY <1>7, <1>9 DEF Range
  <1> QED
    BY <1>7, <1>8, <1>10 DEF n

\* Iterating over a std::map of ints visits every key once, the least first,
\* each with its value.
LEMMA IterationByKey ==
  ASSUME NEW m, DOMAIN m \in SUBSET Int, IsFiniteSet(DOMAIN m)
  PROVE  /\ Len(InOrder(m)) = Cardinality(DOMAIN m)
         /\ DOMAIN InOrder(m) = 1..Cardinality(DOMAIN m)
         /\ \A i \in DOMAIN InOrder(m) :
              /\ InOrder(m)[i][1] \in DOMAIN m
              /\ InOrder(m)[i] = <<InOrder(m)[i][1], m[InOrder(m)[i][1]]>>
         /\ \A i, j \in DOMAIN InOrder(m) :
              i < j => InOrder(m)[i][1] < InOrder(m)[j][1]
  <1> DEFINE n == Cardinality(DOMAIN m)
             keys == Keys(m)
  <1>1. keys \in [1..n -> DOMAIN m] /\ Ascending(keys)
    BY AscendingExists DEF Keys
  <1>2. n \in Nat
    BY FS_CardinalityType
  <1>3. InOrder(m) = [i \in 1..n |-> <<keys[i], m[keys[i]]>>]
    BY DEF InOrder
  <1> HIDE DEF n, keys
  <1>4. DOMAIN keys = 1..n /\ \A i \in 1..n : keys[i] \in DOMAIN m
    BY <1>1
  <1>5. DOMAIN InOrder(m) = 1..n /\ Len(InOrder(m)) = n
    BY <1>2, <1>3
  <1>6. \A i \in 1..n : InOrder(m)[i] = <<keys[i], m[keys[i]]>>
    BY <1>3
  <1>7. \A i, j \in 1..n : i < j => keys[i] < keys[j]
    BY <1>1, <1>4 DEF Ascending
  <1> QED
    BY <1>4, <1>5, <1>6, <1>7 DEF n

===============================================================================
