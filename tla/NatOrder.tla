------------------------------ MODULE NatOrder ------------------------------
(* Least and greatest members of sets of numbers, and induction over a set:
   what the models' CHOOSEs and their recursive functions rest on.  They come
   from the well-foundedness of < on Nat, a fact of the prover's library.    *)
EXTENDS Picks, WellFoundedInduction, FiniteSetTheorems, TLAPS

\* A set of natural numbers that is not empty has a least member.
LEMMA LeastNat ==
  ASSUME NEW T \in SUBSET Nat, T # {}
  PROVE  \E x \in T : \A y \in T : x <= y
  <1> DEFINE R == OpToRel(<, Nat)
  <1>1. IsWellFoundedOn(R, Nat)
    BY NatLessThanWellFounded
  <1>2. \A x, y \in Nat : x < y => <<x, y>> \in R
    BY DEF OpToRel
  <1> HIDE DEF R
  <1>3. PICK x \in T : \A y \in T : ~ (<<y, x>> \in R)
    BY <1>1, WFMin
  <1>4. ASSUME NEW y \in T
        PROVE  x <= y
    <2>1. x \in Nat /\ y \in Nat /\ ~ (y < x)
      BY <1>2, <1>3
    <2> QED
      BY <2>1
  <1> QED
    BY <1>4

\* What holds of 0, and of n + 1 if it holds of n, holds of every number.
LEMMA NatInd ==
  ASSUME NEW T, 0 \in T, \A n \in Nat : n \in T => n + 1 \in T
  PROVE  Nat \subseteq T
  <1> SUFFICES ASSUME NEW B, B = Nat \ T, B # {}
               PROVE  FALSE
    OBVIOUS
  <1>1. PICK x \in B : \A y \in B : x <= y
    BY LeastNat
  <1>2. x # 0 /\ x \in Nat /\ x - 1 \in Nat /\ x - 1 \notin B
    BY <1>1
  <1>3. x - 1 \in T
    BY <1>2
  <1> QED
    BY <1>1, <1>2, <1>3

\* A set of natural numbers with a bound that is not empty has a greatest
\* member.
LEMMA GreatestNat ==
  ASSUME NEW n \in Nat, NEW T \in SUBSET (0 .. n), T # {}
  PROVE  \E x \in T : \A y \in T : y <= x
  <1> DEFINE U == {n - x : x \in T}
  <1>1. U \in SUBSET Nat /\ U # {}
    <2>1. \A x \in T : n - x \in Nat /\ n - x \in U
      OBVIOUS
    <2> QED
      BY <2>1
  <1>2. PICK z \in U : \A y \in U : z <= y
    BY <1>1, LeastNat
  <1>3. PICK x \in T : z = n - x
    BY <1>2
  <1>4. ASSUME NEW y \in T
        PROVE  y <= x
    <2>1. x \in Nat /\ y \in Nat /\ n - x <= n - y
      BY <1>2, <1>3
    <2> QED
      BY <2>1
  <1> QED
    BY <1>4

\* B[x] are the members of S up to x in a total order.
Ranking(S, B) ==
  /\ B \in [S -> SUBSET S]
  /\ \A x \in S : x \in B[x]
  /\ \A x, y \in S : x # y => \/ B[x] \subseteq B[y] /\ y \notin B[x]
                              \/ B[y] \subseteq B[x] /\ x \notin B[y]

\* Each member has a number of its own by how many there are up to it, and each
\* number is one's.
OwnRanks(S, B) ==
  /\ Cardinality(S) \in Nat
  /\ \A x \in S : Cardinality(B[x]) \in 1 .. Cardinality(S)
  /\ \A x, y \in S : Cardinality(B[x]) = Cardinality(B[y]) => x = y
  /\ \A m \in 1 .. Cardinality(S) : \E x \in S : Cardinality(B[x]) = m

\* The members of a finite set that are ranked by how many stand before them
\* have the numbers from 1 on.
LEMMA RanksAreOwn ==
  ASSUME NEW S, NEW B, IsFiniteSet(S), Ranking(S, B)
  PROVE  OwnRanks(S, B)
  <1> DEFINE N == Cardinality(S)
             f == [x \in S |-> Cardinality(B[x])]
  <1>1. N \in Nat
    BY FS_CardinalityType
  <1>2. ASSUME NEW x \in S
        PROVE  IsFiniteSet(B[x]) /\ f[x] \in 1 .. N
    <2>1. B[x] \in SUBSET S /\ x \in B[x]
      BY DEF Ranking
    <2>2. IsFiniteSet(B[x]) /\ Cardinality(B[x]) <= N
      BY <2>1, FS_Subset
    <2>3. Cardinality(B[x]) \in Nat /\ Cardinality(B[x]) # 0
      BY <2>1, <2>2, FS_CardinalityType, FS_EmptySet
    <2> QED
      BY <1>1, <2>2, <2>3
  <1>3. ASSUME NEW x \in S, NEW y \in S, B[x] \subseteq B[y], y \notin B[x]
        PROVE  f[x] # f[y]
    <2>1. IsFiniteSet(B[y]) /\ B[x] \in SUBSET B[y] /\ B[x] # B[y]
      BY <1>2, <1>3 DEF Ranking
    <2>2. Cardinality(B[x]) # Cardinality(B[y])
      BY <2>1, FS_Subset
    <2> QED
      BY <2>2
  <1>4. \A x, y \in S : f[x] = f[y] => x = y
    BY <1>3 DEF Ranking
  <1>5. f \in Injection(S, 1 .. N)
    BY <1>2, <1>4 DEF Injection, IsInjective
  <1>6. f \in Surjection(S, 1 .. N)
    <2>1. 1 \in Int /\ N \in Int
      BY <1>1
    <2>2. IsFiniteSet(1 .. N) /\ Cardinality(1 .. N) = N
      BY <1>1, <2>1, FS_Interval
    <2> HIDE DEF f
    <2> QED
      BY <1>5, <2>2, FS_Injection
  <1>7. \A m \in 1 .. N : \E x \in S : f[x] = m
    BY <1>6 DEF Surjection
  <1> QED
    BY <1>1, <1>2, <1>4, <1>7 DEF OwnRanks

\* A member of a set of numbers has a place of its own among them, the greater
\* the member is, and every place is taken.
LEMMA PlaceIsOwn ==
  ASSUME NEW n \in Nat, NEW K \in SUBSET (1 .. n)
  PROVE  /\ Cardinality(K) \in Nat
         /\ \A i \in K : Place(K, i) \in 1 .. Cardinality(K)
         /\ \A i, j \in K : Place(K, i) = Place(K, j) => i = j
         /\ \A i, j \in K : i < j => Place(K, i) < Place(K, j)
         /\ \A m \in 1 .. Cardinality(K) : \E i \in K : Place(K, i) = m
  <1> DEFINE Upto == [i \in K |-> {j \in K : j <= i}]
  <1>1. IsFiniteSet(K)
    <2>1. 1 \in Int /\ n \in Int
      OBVIOUS
    <2>2. IsFiniteSet(1 .. n)
      BY <2>1, FS_Interval
    <2> QED
      BY <2>2, FS_Subset
  <1>2. \A i \in K : i \in Nat
    OBVIOUS
  <1>3. /\ Upto \in [K -> SUBSET K]
        /\ \A i \in K : i \in Upto[i]
        /\ \A i, j \in K : i < j => Upto[i] \subseteq Upto[j] /\ j \notin Upto[i]
    <2>1. Upto \in [K -> SUBSET K] /\ \A i \in K : i \in Upto[i]
      BY <1>2
    <2>2. ASSUME NEW i \in K, NEW j \in K, i < j
          PROVE  Upto[i] \subseteq Upto[j] /\ j \notin Upto[i]
      <3>1. i \in Nat /\ j \in Nat /\ ~ (j <= i)
        BY <1>2, <2>2
      <3>2. \A k \in K : k \in Nat /\ (k <= i => k <= j)
        BY <1>2, <2>2, <3>1
      <3> QED
        BY <3>1, <3>2
    <2> QED
      BY <2>1, <2>2
  <1>4. \A i, j \in K : i # j => \/ Upto[i] \subseteq Upto[j] /\ j \notin Upto[i]
                                 \/ Upto[j] \subseteq Upto[i] /\ i \notin Upto[j]
    BY <1>2, <1>3
  <1>5. \A i \in K : Place(K, i) = Cardinality(Upto[i])
    BY DEF Place
  <1> HIDE DEF Upto
  <1>6. /\ Cardinality(K) \in Nat
        /\ \A i \in K : Cardinality(Upto[i]) \in 1 .. Cardinality(K)
        /\ \A i, j \in K : Cardinality(Upto[i]) = Cardinality(Upto[j]) => i = j
        /\ \A m \in 1 .. Cardinality(K) : \E i \in K : Cardinality(Upto[i]) = m
    <2>1. Ranking(K, Upto)
      BY <1>3, <1>4 DEF Ranking
    <2>2. OwnRanks(K, Upto)
      BY <1>1, <2>1, RanksAreOwn
    <2> QED
      BY <2>2 DEF OwnRanks
  <1>7. ASSUME NEW i \in K, NEW j \in K, i < j
        PROVE  Place(K, i) < Place(K, j)
    <2>1. IsFiniteSet(Upto[j]) /\ Upto[i] \in SUBSET Upto[j] /\ Upto[i] # Upto[j]
      BY <1>1, <1>3, <1>7, FS_Subset
    <2>2. Cardinality(Upto[i]) <= Cardinality(Upto[j])
      BY <2>1, FS_Subset
    <2>3. i # j
      <3>1. i \in Nat /\ j \in Nat
        BY <1>2
      <3> QED
        BY <1>7, <3>1
    <2>4. Cardinality(Upto[i]) # Cardinality(Upto[j])
      BY <1>6, <2>3
    <2> QED
      BY <1>5, <1>6, <2>2, <2>4
  <1> QED
    BY <1>5, <1>6, <1>7

\* What is picked stands at its place.
LEMMA KeptAtPlace ==
  ASSUME NEW n \in Nat, NEW K \in SUBSET (1 .. n), NEW s
  PROVE  /\ Len(Picked(s, K)) = Cardinality(K)
         /\ \A i \in K : Picked(s, K)[Place(K, i)] = s[i]
  <1>1. Cardinality(K) \in Nat
    BY PlaceIsOwn
  <1>2. Len(Picked(s, K)) = Cardinality(K)
    <2> DEFINE S == {Picked(s, K)[m] : m \in 1 .. Cardinality(K)}
    <2>1. Picked(s, K) \in [1 .. Cardinality(K) -> S]
      BY DEF Picked
    <2> HIDE DEF S
    <2> QED
      BY <1>1, <2>1
  <1>3. ASSUME NEW i \in K
        PROVE  Picked(s, K)[Place(K, i)] = s[i]
    <2>1. Place(K, i) \in 1 .. Cardinality(K)
      BY PlaceIsOwn
    <2>2. (CHOOSE j \in K : Place(K, j) = Place(K, i)) = i
      BY PlaceIsOwn
    <2> QED
      BY <2>1, <2>2 DEF Picked
  <1> QED
    BY <1>2, <1>3

\* What is picked from s is what stands at the positions K: at says where each
\* element comes from.
KeptBy(at, s, K) ==
  /\ at \in [DOMAIN Picked(s, K) -> DOMAIN s]
  /\ \A k, m \in DOMAIN at : k < m => at[k] < at[m]
  /\ Picked(s, K) = [k \in DOMAIN at |-> s[at[k]]]
  /\ {at[k] : k \in DOMAIN at} = K

\* What is picked is what stands at the positions kept, each once, in their order.
LEMMA PickedInOrder ==
  ASSUME NEW S, NEW s \in Seq(S), NEW K \in SUBSET DOMAIN s
  PROVE  Picked(s, K) \in Seq(S) /\ \E at : KeptBy(at, s, K)
  <1> DEFINE N == Cardinality(K)
             at == [m \in 1 .. N |-> CHOOSE i \in K : Place(K, i) = m]
  <1>1. Len(s) \in Nat /\ K \in SUBSET (1 .. Len(s)) /\ DOMAIN s = 1 .. Len(s)
    OBVIOUS
  <1>2. /\ N \in Nat
        /\ \A i \in K : Place(K, i) \in 1 .. N
        /\ \A i, j \in K : Place(K, i) = Place(K, j) => i = j
        /\ \A i, j \in K : i < j => Place(K, i) < Place(K, j)
        /\ \A m \in 1 .. N : \E i \in K : Place(K, i) = m
    BY <1>1, PlaceIsOwn
  <1>3. Picked(s, K) = [m \in 1 .. N |-> s[at[m]]] /\ DOMAIN Picked(s, K) = 1 .. N
    BY DEF Picked
  <1>4. \A m \in 1 .. N : at[m] \in K /\ Place(K, at[m]) = m
    BY <1>2
  <1>5. \A i \in K : at[Place(K, i)] = i
    BY <1>2, <1>4
  <1>6. DOMAIN at = 1 .. N
    OBVIOUS
  <1> HIDE DEF at, N
  <1>7. ASSUME NEW k \in 1 .. N, NEW m \in 1 .. N, k < m
        PROVE  at[k] < at[m]
    <2>1. at[k] \in K /\ at[m] \in K /\ Place(K, at[k]) = k /\ Place(K, at[m]) = m
      BY <1>4
    <2>2. at[k] \in Nat /\ at[m] \in Nat /\ k \in Nat /\ m \in Nat
      BY <1>1, <1>2, <2>1
    <2>3. ~ (at[m] < at[k])
      <3>1. at[m] < at[k] => Place(K, at[m]) < Place(K, at[k])
        BY <1>2, <2>1
      <3> QED
        BY <1>7, <2>1, <2>2, <3>1
    <2>4. at[m] # at[k]
      BY <1>7, <2>1, <2>2
    <2> QED
      BY <2>2, <2>3, <2>4
  <1>8. \A x : x \in {at[k] : k \in 1 .. N} <=> x \in K
    BY <1>2, <1>4, <1>5
  <1>9. at \in [1 .. N -> DOMAIN s]
    <2>1. at = [m \in 1 .. N |-> at[m]]
      BY DEF at
    <2>2. \A m \in 1 .. N : at[m] \in DOMAIN s
      BY <1>4
    <2> QED
      BY <2>1, <2>2
  <1>10. Picked(s, K) \in Seq(S)
    <2>1. \A m \in 1 .. N : s[at[m]] \in S
      BY <1>4
    <2>2. Picked(s, K) \in [1 .. N -> S]
      BY <1>3, <2>1
    <2> QED
      BY <1>2, <2>2
  <1>11. {at[k] : k \in 1 .. N} = K
    BY <1>8
  <1>12. KeptBy(at, s, K)
    BY <1>3, <1>6, <1>7, <1>9, <1>11 DEF KeptBy
  <1> QED
    BY <1>10, <1>12

\* What is picked is what stands at the positions kept, and nothing else.
LEMMA PickedElements ==
  ASSUME NEW S, NEW s \in Seq(S), NEW K \in SUBSET DOMAIN s
  PROVE  /\ Picked(s, K) \in Seq(S)
         /\ {Picked(s, K)[m] : m \in DOMAIN Picked(s, K)} = {s[i] : i \in K}
  <1>1. PICK at : KeptBy(at, s, K)
    BY PickedInOrder
  <1>2. \A x : x \in {Picked(s, K)[m] : m \in DOMAIN Picked(s, K)}
                 <=> x \in {s[i] : i \in K}
    BY <1>1 DEF KeptBy
  <1>3. Picked(s, K) \in Seq(S)
    BY PickedInOrder
  <1> QED
    BY <1>2, <1>3

\* A set of pairs of numbers is listed whole, each pair once.
LEMMA ListedOnce ==
  ASSUME NEW a \in Nat, NEW b \in Nat, NEW S \in SUBSET ((1 .. a) \X (0 .. b))
  PROVE  /\ Cardinality(S) \in Nat
         /\ PairList(S) \in [1 .. Cardinality(S) -> S]
         /\ \A k, m \in 1 .. Cardinality(S) : PairList(S)[k] = PairList(S)[m] => k = m
         /\ \A p \in S : \E k \in 1 .. Cardinality(S) : PairList(S)[k] = p
  <1> DEFINE N == Cardinality(S)
             Upto == [p \in S |-> {q \in S : q[1] < p[1] \/ (q[1] = p[1] /\ q[2] <= p[2])}]
  <1>1. IsFiniteSet(S)
    <2>1. 1 \in Int /\ 0 \in Int /\ a \in Int /\ b \in Int
      OBVIOUS
    <2>2. IsFiniteSet(1 .. a) /\ IsFiniteSet(0 .. b)
      BY <2>1, FS_Interval
    <2>3. IsFiniteSet((1 .. a) \X (0 .. b))
      BY <2>2, FS_Product
    <2> QED
      BY <2>3, FS_Subset
  <1>2. \A p \in S : p[1] \in Nat /\ p[2] \in Nat /\ p = <<p[1], p[2]>>
    OBVIOUS
  <1>3. Ranking(S, Upto)
    <2>1. Upto \in [S -> SUBSET S]
      OBVIOUS
    <2>2. \A p \in S : p \in Upto[p]
      BY <1>2
    <2>3. ASSUME NEW p \in S, NEW r \in S,
                 p[1] < r[1] \/ (p[1] = r[1] /\ p[2] < r[2])
          PROVE  Upto[p] \subseteq Upto[r] /\ r \notin Upto[p]
      <3>1. ASSUME NEW q \in S, q[1] < p[1] \/ (q[1] = p[1] /\ q[2] <= p[2])
            PROVE  q[1] < r[1] \/ (q[1] = r[1] /\ q[2] <= r[2])
        BY <1>2, <2>3, <3>1
      <3>2. ~ (r[1] < p[1] \/ (r[1] = p[1] /\ r[2] <= p[2]))
        BY <1>2, <2>3
      <3> QED
        BY <3>1, <3>2
    <2>4. ASSUME NEW p \in S, NEW r \in S, p # r
          PROVE  \/ p[1] < r[1] \/ (p[1] = r[1] /\ p[2] < r[2])
                 \/ r[1] < p[1] \/ (r[1] = p[1] /\ r[2] < p[2])
      <3>1. p[1] # r[1] \/ p[2] # r[2]
        BY <1>2, <2>4
      <3> QED
        BY <1>2, <3>1
    <2> HIDE DEF Upto
    <2> QED
      BY <2>1, <2>2, <2>3, <2>4 DEF Ranking
  <1>4. \A p \in S : PairPlace(S, p) = Cardinality(Upto[p])
    BY DEF PairPlace
  <1> HIDE DEF Upto
  <1>5. OwnRanks(S, Upto)
    BY <1>1, <1>3, RanksAreOwn
  <1>6. /\ N \in Nat
        /\ \A p \in S : PairPlace(S, p) \in 1 .. N
        /\ \A p, q \in S : PairPlace(S, p) = PairPlace(S, q) => p = q
        /\ \A m \in 1 .. N : \E p \in S : PairPlace(S, p) = m
    BY <1>4, <1>5 DEF OwnRanks
  <1>7. \A m \in 1 .. N : PairList(S)[m] \in S /\ PairPlace(S, PairList(S)[m]) = m
    BY <1>6 DEF PairList
  <1>8. \A p \in S : PairList(S)[PairPlace(S, p)] = p
    BY <1>6, <1>7
  <1>9. PairList(S) \in [1 .. N -> S]
    <2>1. PairList(S) = [m \in 1 .. N |-> PairList(S)[m]]
      BY DEF PairList
    <2> QED
      BY <1>7, <2>1
  <1> HIDE DEF N
  <1>10. \A k, m \in 1 .. N : PairList(S)[k] = PairList(S)[m] => k = m
    BY <1>7
  <1>11. \A p \in S : \E k \in 1 .. N : PairList(S)[k] = p
    BY <1>6, <1>8
  <1> QED
    BY <1>6, <1>9, <1>10, <1>11 DEF N
=============================================================================
