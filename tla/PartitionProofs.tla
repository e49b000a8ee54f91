--------------------------- MODULE PartitionProofs ---------------------------
(***************************************************************************)
(* Proofs about Partition, for every number of keys, partitions, shards,   *)
(* writers and readers.  The store methods are functions of the table, so  *)
(* each is shown to keep a sound table sound; the steps follow.            *)
(***************************************************************************)
EXTENDS Partition, FoldFacts

----------------------------------------------------------------------------
(* Nth and Kept.                                                           *)

Ascending(S) == [k \in 1..Cardinality(S) |-> Nth(S, k)]

\* f enumerates S upwards.
Climbs(f, S) ==
    /\ f \in [1..Cardinality(S) -> S]
    /\ \A i, j \in 1..Cardinality(S) : i < j => f[i] < f[j]

\* A set of positions can be enumerated upwards.
LEMMA AscentExists ==
    ASSUME NEW n \in Nat
    PROVE  \A S \in SUBSET (1..n) : \E f : Climbs(f, S)
<1> DEFINE D == 1..n
           X == {S \in SUBSET D : \E f : Climbs(f, S)}
<1>0. IsFiniteSet(D)
  BY FS_Interval
<1>1. {} \in X
  <2> DEFINE f == [i \in 1..0 |-> i]
  <2>1. Cardinality({}) = 0 /\ 1..0 = {}
    BY FS_EmptySet
  <2>2. Climbs(f, {})
    BY <2>1 DEF Climbs
  <2> QED BY <2>2
<1>2. \A T \in SUBSET D : T # {} /\ (\A x \in T : T \ {x} \in X) => T \in X
  <2> SUFFICES ASSUME NEW T \in SUBSET D, T # {}, \A x \in T : T \ {x} \in X
               PROVE  \E f : Climbs(f, T)
    OBVIOUS
  <2>1. PICK m \in T : \A y \in T : y <= m
    <3> DEFINE R == {k \in Nat : \A y \in T : y <= k}
    <3>1. R # {} /\ R \subseteq Nat
      BY n \in R
    <3>2. PICK m \in R : \A k \in R : m <= k
      BY <3>1, NatMin
    <3>3. m \in T
      <4> SUFFICES ASSUME m \notin T PROVE FALSE
        OBVIOUS
      <4>1. m \in Nat /\ \A y \in T : y \in Nat /\ 1 <= y /\ y < m
        OBVIOUS
      <4>2. m # 0
        <5>1. PICK y \in T : TRUE
          OBVIOUS
        <5> QED BY <4>1, <5>1
      <4>3. m - 1 \in Nat /\ \A y \in T : y <= m - 1
        BY <4>1, <4>2
      <4> QED BY <3>2, <4>1, <4>3
    <3> QED BY <3>3
  <2> DEFINE U == T \ {m}
             c == Cardinality(U)
  <2>2. IsFiniteSet(T) /\ IsFiniteSet(U) /\ c \in Nat /\ Cardinality(T) = c + 1
    <3>1. IsFiniteSet(T)
      BY <1>0, FS_Subset
    <3>2. IsFiniteSet(U) /\ Cardinality(U) = Cardinality(T) - 1
      BY <2>1, <3>1, FS_RemoveElement
    <3> QED BY <3>1, <3>2, FS_CardinalityType
  <2>3. PICK g : Climbs(g, U)
    BY <2>1
  <2> DEFINE f == [i \in 1..(c + 1) |-> IF i = c + 1 THEN m ELSE g[i]]
  <2>4. /\ g \in [1..c -> U]
        /\ \A i, j \in 1..c : i < j => g[i] < g[j]
    BY <2>3 DEF Climbs
  <2>5. \A x \in U : x < m /\ x \in T /\ x \in Int
    BY <2>1
  <2> HIDE DEF U, c
  <2>6. f \in [1..(c + 1) -> T]
    BY <2>1, <2>2, <2>4, <2>5
  <2>7. \A i, j \in 1..(c + 1) : i < j => f[i] < f[j]
    <3> SUFFICES ASSUME NEW i \in 1..(c + 1), NEW j \in 1..(c + 1), i < j PROVE f[i] < f[j]
      OBVIOUS
    <3>1. i \in 1..c /\ f[i] = g[i] /\ g[i] \in U
      BY <2>2, <2>4
    <3>2. CASE j = c + 1
      BY <3>1, <3>2, <2>5
    <3>3. CASE j \in 1..c
      <4>1. j # c + 1
        BY <2>2, <3>3
      <4> QED BY <2>4, <3>1, <3>3, <4>1
    <3> QED BY <2>2, <3>2, <3>3
  <2>8. Climbs(f, T)
    <3> HIDE DEF f
    <3> QED BY <2>2, <2>6, <2>7 DEF Climbs
  <2> QED BY <2>8
<1>3. SUBSET D \subseteq X
  <2> HIDE DEF X, D
  <2> QED BY <1>0, <1>1, <1>2, SubsetInduction
<1> QED BY <1>3

\* g is one to one from 1..c onto S.
Meets(g, c, S) ==
    /\ \A i, j \in 1..c : g[i] = g[j] => i = j
    /\ \A x \in S : \E k \in 1..c : g[k] = x

\* An ascent meets every element, once.
LEMMA ClimbsOver ==
    ASSUME NEW S \in SUBSET Nat, NEW c \in Nat, c = Cardinality(S), IsFiniteSet(S),
           NEW g, Climbs(g, S)
    PROVE  Meets(g, c, S)
<1>0. g \in [1..c -> S] /\ \A i, j \in 1..c : i < j => g[i] < g[j]
  BY DEF Climbs
<1>1. \A i, j \in 1..c : g[i] = g[j] => i = j
  <2> SUFFICES ASSUME NEW i \in 1..c, NEW j \in 1..c, g[i] = g[j], i # j PROVE FALSE
    OBVIOUS
  <2>1. i < j \/ j < i
    OBVIOUS
  <2>2. \A x \in S : ~(x < x)
    OBVIOUS
  <2>3. g[i] \in S
    BY <1>0
  <2> QED BY <1>0, <2>1, <2>2, <2>3
<1>2. g \in Injection(1..c, S)
  BY <1>0, <1>1 DEF Injection, IsInjective
<1>3. IsFiniteSet(1..c) /\ Cardinality(1..c) = c
  BY FS_Interval
<1>4. g \in Surjection(1..c, S)
  BY <1>2, <1>3, FS_Injection
<1> QED BY <1>1, <1>4 DEF Surjection, Meets

\* The k-th element of an ascent has k elements up to it, and is the only one.
LEMMA ClimbRanks ==
    ASSUME NEW S \in SUBSET Nat, NEW c \in Nat, c = Cardinality(S), IsFiniteSet(S),
           NEW g, Climbs(g, S), NEW k \in 1..c
    PROVE  Nth(S, k) = g[k]
<1> DEFINE Up(x) == {y \in S : y <= x}
<1>0. g \in [1..c -> S] /\ \A i, j \in 1..c : i < j => g[i] < g[j]
  BY DEF Climbs
<1>1. /\ \A i, j \in 1..c : g[i] = g[j] => i = j
      /\ \A x \in S : \E j \in 1..c : g[j] = x
  <2>1. Meets(g, c, S)
    BY ClimbsOver
  <2> QED BY <2>1 DEF Meets
<1>5. \A x \in S : x \in Int
  OBVIOUS
<1>2. ASSUME NEW m \in 1..c PROVE Cardinality(Up(g[m])) = m
  <2> DEFINE h == [i \in 1..m |-> g[i]]
             T == Up(g[m])
  <2>1. \A i \in 1..m : i \in 1..c /\ g[i] \in S /\ g[i] <= g[m]
    <3> SUFFICES ASSUME NEW i \in 1..m PROVE i \in 1..c /\ g[i] \in S /\ g[i] <= g[m]
      OBVIOUS
    <3>1. i \in 1..c /\ m \in 1..c /\ (i = m \/ i < m)
      OBVIOUS
    <3>2. g[i] \in Int /\ g[m] \in Int /\ g[i] \in S
      <4>1. g[i] \in S /\ g[m] \in S
        BY <1>0, <3>1
      <4> QED BY <1>5, <4>1
    <3> QED BY <1>0, <3>1, <3>2
  <2>2. \A y \in T : \E i \in 1..m : h[i] = y
    <3> SUFFICES ASSUME NEW y \in T PROVE \E i \in 1..m : h[i] = y
      OBVIOUS
    <3>1. PICK i \in 1..c : g[i] = y
      BY <1>1
    <3>2. ~(m < i)
      <4> SUFFICES ASSUME m < i PROVE FALSE
        OBVIOUS
      <4>1. g[m] < y /\ y <= g[m] /\ g[m] \in Int /\ y \in Int
        <5>1. g[m] \in S /\ y \in S /\ y <= g[m] /\ g[m] < g[i]
          BY <1>0
        <5> QED BY <1>5, <3>1, <5>1
      <4> QED BY <4>1
    <3>3. i \in 1..m
      BY <3>2
    <3> QED BY <3>1, <3>3
  <2>3. h \in [1..m -> T] /\ \A i, j \in 1..m : h[i] = h[j] => i = j
    BY <1>1, <2>1
  <2> HIDE DEF h, T
  <2>4. h \in Bijection(1..m, T)
    BY <2>2, <2>3 DEF Bijection, Injection, Surjection, IsInjective
  <2>5. IsFiniteSet(1..m) /\ Cardinality(1..m) = m
    BY FS_Interval
  <2>6. Cardinality(T) = m
    BY <2>4, <2>5, FS_Bijection DEF ExistsBijection
  <2> QED BY <2>6 DEF T
<1>3. g[k] \in S /\ Cardinality(Up(g[k])) = k
  BY <1>0, <1>2
<1>4. ASSUME NEW x \in S, Cardinality(Up(x)) = k PROVE x = g[k]
  <2>1. PICK j \in 1..c : g[j] = x
    BY <1>1
  <2>2. Cardinality(Up(g[j])) = j
    BY <1>2
  <2> QED BY <1>4, <2>1, <2>2
<1> QED BY <1>3, <1>4 DEF Nth

\* Ascending has each of the positions once, upwards.
LEMMA AscendingFacts ==
    ASSUME NEW n \in Nat, NEW S \in SUBSET (1..n)
    PROVE  /\ IsFiniteSet(S) /\ Cardinality(S) \in Nat
           /\ Ascending(S) \in Seq(S) /\ Len(Ascending(S)) = Cardinality(S)
           /\ Ascending(S) \in [1..Cardinality(S) -> S]
           /\ \A i, j \in 1..Cardinality(S) : i < j => Ascending(S)[i] < Ascending(S)[j]
           /\ \A i, j \in 1..Cardinality(S) : Ascending(S)[i] = Ascending(S)[j] => i = j
           /\ \A x \in S : \E i \in 1..Cardinality(S) : Ascending(S)[i] = x
<1> DEFINE f == Ascending(S)
           c == Cardinality(S)
<1>0. S \in SUBSET Nat
  OBVIOUS
<1>1. IsFiniteSet(S) /\ c \in Nat
  <2>1. IsFiniteSet(1..n)
    BY FS_Interval
  <2>2. IsFiniteSet(S)
    BY <2>1, FS_Subset
  <2> QED BY <2>2, FS_CardinalityType
<1>2. f \in [1..c -> S] /\ \A i, j \in 1..c : i < j => f[i] < f[j]
  <2>1. PICK g : Climbs(g, S)
    BY AscentExists
  <2>2. g \in [1..c -> S] /\ \A i, j \in 1..c : i < j => g[i] < g[j]
    BY <2>1 DEF Climbs
  <2>4. \A k \in 1..c : Nth(S, k) = g[k]
    BY <1>0, <1>1, <2>1, ClimbRanks
  <2>5. f = g
    BY <2>2, <2>4 DEF Ascending
  <2> QED BY <2>2, <2>5
<1> HIDE DEF f, c
<1>3. f \in Seq(S) /\ Len(f) = c
  BY <1>1, <1>2
<1>4. /\ \A i, j \in 1..c : f[i] = f[j] => i = j
      /\ \A x \in S : \E i \in 1..c : f[i] = x
  <2>1. Climbs(f, S)
    BY <1>2 DEF Climbs, c
  <2>2. Meets(f, c, S)
    BY <1>0, <1>1, <2>1, ClimbsOver DEF c
  <2> QED BY <2>2 DEF Meets
<1> QED BY <1>1, <1>2, <1>3, <1>4 DEF f, c

----------------------------------------------------------------------------
(* One arena R and one partition's list L with d dead numbers.             *)

Cell == Live \cup {None}
Number == Nat \ {0}

Listing(R, L, d, q) ==
    /\ \A i, j \in 1..Len(L) : i < j => L[i] < L[j]
    /\ \A i \in 1..Len(R) : R[i] # None /\ R[i].part = q => i \in ToSet(L)
    /\ \A i \in ToSet(L) : i <= Len(R) /\ (R[i] # None => R[i].part = q)
    /\ d = Cardinality({i \in ToSet(L) : R[i] = None})

\* The numbers of a list.
LEMMA ToSetIs ==
    ASSUME NEW S, NEW L \in Seq(S)
    PROVE  /\ \A i \in ToSet(L) : i \in S /\ \E k \in 1..Len(L) : L[k] = i
           /\ \A k \in 1..Len(L) : L[k] \in ToSet(L)
BY DEF ToSet

\* A list with one more number.
LEMMA ToSetAppend ==
    ASSUME NEW S, NEW L \in Seq(S), NEW x \in S
    PROVE  ToSet(Append(L, x)) = ToSet(L) \cup {x}
<1> DEFINE M == Append(L, x)
<1>1. M \in Seq(S) /\ Len(M) = Len(L) + 1 /\ M[Len(L) + 1] = x /\ \A k \in 1..Len(L) : M[k] = L[k]
  OBVIOUS
<1>2. Len(L) \in Nat
  OBVIOUS
<1> HIDE DEF M
<1>3. ASSUME NEW i \in ToSet(M) PROVE i \in ToSet(L) \cup {x}
  <2>1. PICK k \in 1..Len(M) : M[k] = i
    BY <1>1, ToSetIs
  <2>2. k \in 1..Len(L) \/ k = Len(L) + 1
    BY <1>1, <1>2
  <2> QED BY <1>1, <2>1, <2>2, ToSetIs
<1>4. ASSUME NEW i \in ToSet(L) PROVE i \in ToSet(M)
  <2>1. PICK k \in 1..Len(L) : L[k] = i
    BY ToSetIs
  <2>2. k \in 1..Len(M)
    BY <1>1, <1>2
  <2> QED BY <1>1, <2>1, <2>2, ToSetIs
<1>5. x \in ToSet(M)
  <2>1. Len(L) + 1 \in 1..Len(M)
    BY <1>1, <1>2
  <2> QED BY <1>1, <2>1, ToSetIs
<1> QED BY <1>3, <1>4, <1>5 DEF M

\* The numbers in a listing are places of the arena, and finitely many.
LEMMA ListingPlaces ==
    ASSUME NEW R \in Seq(Cell), NEW L \in Seq(Number), NEW d, NEW q, Listing(R, L, d, q)
    PROVE  /\ ToSet(L) \subseteq 1..Len(R) /\ Len(R) \in Nat
           /\ \A T \in SUBSET ToSet(L) : IsFiniteSet(T) /\ Cardinality(T) \in Nat
<1>1. Len(R) \in Nat /\ \A i \in ToSet(L) : i \in Number /\ i <= Len(R)
  BY ToSetIs DEF Listing
<1>2. ToSet(L) \subseteq 1..Len(R)
  BY <1>1 DEF Number
<1>3. IsFiniteSet(1..Len(R))
  BY <1>1, FS_Interval
<1> QED BY <1>1, <1>2, <1>3, FS_Subset, FS_CardinalityType

\* A row of the partition is appended to the arena and to the list.
LEMMA ListingAdds ==
    ASSUME NEW R \in Seq(Cell), NEW L \in Seq(Number), NEW d, NEW q, Listing(R, L, d, q),
           NEW x \in Live, x.part = q
    PROVE  Listing(Append(R, x), Append(L, Len(R) + 1), d, q)
<1> DEFINE n == Len(R) + 1
           R1 == Append(R, x)
           L1 == Append(L, n)
<1>0. x \in Cell /\ x # None /\ Len(R) \in Nat /\ Len(L) \in Nat /\ n \in Number
  BY NoneIsApart DEF Cell, Number, NoneIsApart
<1>1. R1 \in Seq(Cell) /\ Len(R1) = n /\ R1[n] = x /\ \A i \in 1..Len(R) : R1[i] = R[i]
  BY <1>0
<1>2. L1 \in Seq(Number) /\ Len(L1) = Len(L) + 1 /\ L1[Len(L) + 1] = n /\ \A k \in 1..Len(L) : L1[k] = L[k]
  BY <1>0
<1>3. ToSet(L1) = ToSet(L) \cup {n}
  BY <1>0, ToSetAppend
<1>4. ToSet(L) \subseteq 1..Len(R) /\ n \notin ToSet(L)
  BY <1>0, ListingPlaces
<1> HIDE DEF R1, L1
<1>5. ASSUME NEW i \in 1..Len(L1), NEW j \in 1..Len(L1), i < j PROVE L1[i] < L1[j]
  <2>1. i \in 1..Len(L) /\ L[i] \in ToSet(L) /\ L1[i] = L[i]
    BY <1>0, <1>2, <1>5, ToSetIs
  <2>2. CASE j = Len(L) + 1
    BY <1>0, <1>2, <1>4, <2>1, <2>2
  <2>3. CASE j \in 1..Len(L)
    BY <1>2, <1>5, <2>1, <2>3 DEF Listing
  <2> QED BY <1>0, <1>2, <2>2, <2>3
<1>6. ASSUME NEW i \in 1..Len(R1), R1[i] # None, R1[i].part = q PROVE i \in ToSet(L1)
  <2>1. i = n \/ i \in 1..Len(R)
    BY <1>0, <1>1
  <2> QED BY <1>1, <1>3, <1>6, <2>1 DEF Listing
<1>7. ASSUME NEW i \in ToSet(L1) PROVE i <= Len(R1) /\ (R1[i] # None => R1[i].part = q)
  <2>1. CASE i = n
    BY <1>0, <1>1, <2>1
  <2>2. CASE i \in ToSet(L)
    <3>1. i \in 1..Len(R) /\ (R[i] # None => R[i].part = q)
      BY <1>4, <2>2 DEF Listing
    <3> QED BY <1>0, <1>1, <3>1
  <2> QED BY <1>3, <2>1, <2>2
<1>8. {i \in ToSet(L1) : R1[i] = None} = {i \in ToSet(L) : R[i] = None}
  BY <1>0, <1>1, <1>3, <1>4
<1>9. d = Cardinality({i \in ToSet(L1) : R1[i] = None})
  BY <1>8 DEF Listing
<1>10. Listing(R1, L1, d, q)
  BY <1>5, <1>6, <1>7, <1>9 DEF Listing
<1> QED BY <1>10 DEF R1, L1, n

\* A row of another partition is appended to the arena.
LEMMA ListingSkips ==
    ASSUME NEW R \in Seq(Cell), NEW L \in Seq(Number), NEW d, NEW q, Listing(R, L, d, q),
           NEW x \in Live, x.part # q
    PROVE  Listing(Append(R, x), L, d, q)
<1> DEFINE n == Len(R) + 1
           R1 == Append(R, x)
<1>0. x \in Cell /\ Len(R) \in Nat
  BY DEF Cell
<1>1. R1 \in Seq(Cell) /\ Len(R1) = n /\ R1[n] = x /\ \A i \in 1..Len(R) : R1[i] = R[i]
  BY <1>0
<1>2. ToSet(L) \subseteq 1..Len(R)
  BY ListingPlaces
<1> HIDE DEF R1
<1>3. ASSUME NEW i \in 1..Len(R1), R1[i] # None, R1[i].part = q PROVE i \in ToSet(L)
  <2>1. i = n \/ i \in 1..Len(R)
    BY <1>0, <1>1
  <2> QED BY <1>1, <1>3, <2>1 DEF Listing
<1>4. ASSUME NEW i \in ToSet(L) PROVE i <= Len(R1) /\ (R1[i] # None => R1[i].part = q)
  <2>1. i \in 1..Len(R) /\ (R[i] # None => R[i].part = q)
    BY <1>2 DEF Listing
  <2> QED BY <1>0, <1>1, <2>1
<1>5. {i \in ToSet(L) : R1[i] = None} = {i \in ToSet(L) : R[i] = None}
  BY <1>1, <1>2
<1>6. Listing(R1, L, d, q)
  BY <1>3, <1>4, <1>5 DEF Listing
<1> QED BY <1>6 DEF R1

\* A row of the partition is tombstoned.
LEMMA ListingBuries ==
    ASSUME NEW R \in Seq(Cell), NEW L \in Seq(Number), NEW d, NEW q, Listing(R, L, d, q),
           NEW n \in 1..Len(R), R[n] # None, R[n].part = q
    PROVE  Listing([R EXCEPT ![n] = None], L, d + 1, q)
<1> DEFINE R1 == [R EXCEPT ![n] = None]
           Dead(Q) == {i \in ToSet(L) : Q[i] = None}
<1>1. /\ R1 \in Seq(Cell) /\ Len(R1) = Len(R) /\ R1[n] = None
      /\ \A i \in 1..Len(R) : i # n => R1[i] = R[i]
  BY DEF Cell
<1>2. ToSet(L) \subseteq 1..Len(R) /\ n \in ToSet(L) /\ IsFiniteSet(Dead(R)) /\ Cardinality(Dead(R)) = d
  BY ListingPlaces DEF Listing
<1> HIDE DEF R1
<1>3. Dead(R1) = Dead(R) \cup {n} /\ n \notin Dead(R)
  BY <1>1, <1>2
<1>4. Cardinality(Dead(R1)) = d + 1
  <2> HIDE DEF Dead
  <2> QED BY <1>2, <1>3, FS_AddElement
<1>5. \A i \in 1..Len(R1) : R1[i] # None /\ R1[i].part = q => i \in ToSet(L)
  BY <1>1 DEF Listing
<1>6. \A i \in ToSet(L) : i <= Len(R1) /\ (R1[i] # None => R1[i].part = q)
  BY <1>1, <1>2 DEF Listing
<1>7. Listing(R1, L, d + 1, q)
  BY <1>4, <1>5, <1>6 DEF Listing
<1> QED BY <1>7 DEF R1

\* A row of another partition is tombstoned.
LEMMA ListingIgnores ==
    ASSUME NEW R \in Seq(Cell), NEW L \in Seq(Number), NEW d, NEW q, Listing(R, L, d, q),
           NEW n \in 1..Len(R), R[n] # None, R[n].part # q
    PROVE  Listing([R EXCEPT ![n] = None], L, d, q)
<1> DEFINE R1 == [R EXCEPT ![n] = None]
           Dead(Q) == {i \in ToSet(L) : Q[i] = None}
<1>1. /\ R1 \in Seq(Cell) /\ Len(R1) = Len(R) /\ R1[n] = None
      /\ \A i \in 1..Len(R) : i # n => R1[i] = R[i]
  BY DEF Cell
<1>2. ToSet(L) \subseteq 1..Len(R) /\ n \notin ToSet(L)
  BY ListingPlaces DEF Listing
<1> HIDE DEF R1
<1>3. Dead(R1) = Dead(R)
  BY <1>1, <1>2
<1>4. \A i \in 1..Len(R1) : R1[i] # None /\ R1[i].part = q => i \in ToSet(L)
  BY <1>1 DEF Listing
<1>5. \A i \in ToSet(L) : i <= Len(R1) /\ (R1[i] # None => R1[i].part = q)
  BY <1>1, <1>2 DEF Listing
<1>6. Listing(R1, L, d, q)
  BY <1>3, <1>4, <1>5 DEF Listing
<1> QED BY <1>6 DEF R1

\* The elements of a list at some positions.
Picked(l, S) == [k \in 1..Cardinality(S) |-> l[Nth(S, k)]]

\* K has the elements of l at S: A are the c positions, upwards.
IsPicked(K, A, c, l, S) ==
    /\ Len(K) = c /\ c \in Nat /\ A \in [1..c -> S]
    /\ \A k \in 1..c : A[k] \in S /\ K[k] = l[A[k]]
    /\ \A i, j \in 1..c : i < j => A[i] < A[j]
    /\ \A i, j \in 1..c : A[i] = A[j] => i = j
    /\ \A x \in S : \E k \in 1..c : A[k] = x /\ K[k] = l[x]

\* They are the elements at those positions, in order.
LEMMA PickedFacts ==
    ASSUME NEW E, NEW l \in Seq(E), NEW S \in SUBSET (1..Len(l))
    PROVE  /\ IsPicked(Picked(l, S), Ascending(S), Cardinality(S), l, S)
           /\ Picked(l, S) \in Seq(E)
<1> DEFINE A == Ascending(S)
           c == Cardinality(S)
           P == [k \in 1..c |-> l[A[k]]]
<1>0. Len(l) \in Nat
  OBVIOUS
<1>1. /\ c \in Nat /\ Len(A) = c /\ A \in [1..c -> S]
      /\ \A i, j \in 1..c : i < j => A[i] < A[j]
      /\ \A i, j \in 1..c : A[i] = A[j] => i = j
      /\ \A x \in S : \E i \in 1..c : A[i] = x
  BY <1>0, AscendingFacts
<1>2. Picked(l, S) = P
  BY <1>1 DEF Picked, Ascending
<1> HIDE DEF A, c
<1>3. \A k \in 1..c : A[k] \in S /\ A[k] \in 1..Len(l) /\ l[A[k]] \in E
  <2>1. \A k \in 1..c : A[k] \in S
    BY <1>1
  <2>2. \A x \in S : x \in 1..Len(l) /\ l[x] \in E
    OBVIOUS
  <2> QED BY <2>1, <2>2
<1>4. P \in [1..c -> E] /\ \A k \in 1..c : P[k] = l[A[k]]
  BY <1>3
<1> HIDE DEF P
<1>5. P \in Seq(E) /\ Len(P) = c
  BY <1>1, <1>4
<1>6. \A x \in S : \E k \in 1..c : A[k] = x /\ P[k] = l[x]
  BY <1>1, <1>4
<1>7. IsPicked(P, A, c, l, S)
  BY <1>1, <1>3, <1>4, <1>5, <1>6 DEF IsPicked
<1> QED BY <1>2, <1>5, <1>7 DEF A, c

\* The dead numbers are dropped from the list.
LEMMA ListingPrunes ==
    ASSUME NEW R \in Seq(Cell), NEW L \in Seq(Number), NEW d, NEW q, Listing(R, L, d, q),
           NEW S, S = {k \in 1..Len(L) : R[L[k]] # None}
    PROVE  Picked(L, S) \in Seq(Number) /\ Listing(R, Picked(L, S), 0, q)
<1> DEFINE K == Picked(L, S)
           A == Ascending(S)
           c == Cardinality(S)
<1>0. S \in SUBSET (1..Len(L)) /\ Len(L) \in Nat
  OBVIOUS
<1>1. /\ K \in Seq(Number) /\ Len(K) = c /\ c \in Nat
      /\ \A k \in 1..c : A[k] \in S /\ K[k] = L[A[k]]
      /\ \A i, j \in 1..c : i < j => A[i] < A[j]
      /\ \A x \in S : \E k \in 1..c : A[k] = x /\ K[k] = L[x]
  <2>1. IsPicked(K, A, c, L, S) /\ K \in Seq(Number)
    BY <1>0, PickedFacts
  <2> QED BY <2>1 DEF IsPicked
<1> HIDE DEF K, A, c
<1>2. \A i, j \in 1..Len(K) : i < j => K[i] < K[j]
  BY SMTT(40), <1>0, <1>1 DEF Listing
<1>3. ASSUME NEW i \in ToSet(K) PROVE i \in ToSet(L) /\ R[i] # None
  <2>1. PICK k \in 1..c : K[k] = i
    BY <1>1, ToSetIs
  <2>2. A[k] \in 1..Len(L) /\ R[L[A[k]]] # None /\ K[k] = L[A[k]]
    BY <1>1
  <2> QED BY <2>1, <2>2, ToSetIs
<1>4. ASSUME NEW i \in ToSet(L), R[i] # None PROVE i \in ToSet(K)
  <2>1. PICK x \in 1..Len(L) : L[x] = i
    BY ToSetIs
  <2>2. PICK k \in 1..c : K[k] = L[x]
    BY <1>1, <1>4, <2>1
  <2> QED BY <1>1, <2>1, <2>2, ToSetIs
<1>5. {i \in ToSet(K) : R[i] = None} = {}
  BY <1>3
<1>6. Cardinality({i \in ToSet(K) : R[i] = None}) = 0
  BY <1>5, FS_EmptySet
<1>7. Listing(R, K, 0, q)
  BY <1>2, <1>3, <1>4, <1>6 DEF Listing
<1> QED BY <1>1, <1>7 DEF K

\* The list of a partition in an arena without tombstones.
LEMMA ListingRebuilds ==
    ASSUME NEW N \in Seq(Live), NEW q, NEW S, S = {i \in 1..Len(N) : N[i].part = q}
    PROVE  Picked(Numbers(N), S) \in Seq(Number) /\ Listing(N, Picked(Numbers(N), S), 0, q)
<1> DEFINE M == Numbers(N)
           K == Picked(M, S)
           A == Ascending(S)
           c == Cardinality(S)
<1>0. Len(N) \in Nat /\ \A i \in 1..Len(N) : N[i] \in Live /\ N[i] # None
  BY NoneIsApart DEF NoneIsApart
<1>1. M \in Seq(Number) /\ Len(M) = Len(N) /\ \A i \in 1..Len(N) : M[i] = i
  BY <1>0 DEF Numbers, Number
<1> HIDE DEF M
<1>2. S \in SUBSET (1..Len(M))
  BY <1>1
<1>3. /\ K \in Seq(Number) /\ Len(K) = c /\ c \in Nat
      /\ \A k \in 1..c : A[k] \in S /\ K[k] = M[A[k]]
      /\ \A i, j \in 1..c : i < j => A[i] < A[j]
      /\ \A x \in S : \E k \in 1..c : A[k] = x /\ K[k] = M[x]
  <2>1. IsPicked(K, A, c, M, S) /\ K \in Seq(Number)
    BY <1>1, <1>2, PickedFacts
  <2> QED BY <2>1 DEF IsPicked
<1> HIDE DEF K, A, c
<1>4. \A k \in 1..c : K[k] = A[k] /\ A[k] \in S
  BY <1>1, <1>2, <1>3
<1>5. \A i, j \in 1..Len(K) : i < j => K[i] < K[j]
  BY <1>3, <1>4
<1>6. ToSet(K) = S
  <2>1. ASSUME NEW i \in ToSet(K) PROVE i \in S
    <3>1. PICK k \in 1..c : K[k] = i
      BY <1>3, ToSetIs
    <3> QED BY <1>4, <3>1
  <2>2. ASSUME NEW i \in S PROVE i \in ToSet(K)
    <3>1. PICK k \in 1..c : A[k] = i
      BY <1>3
    <3> QED BY <1>3, <1>4, <3>1, ToSetIs
  <2> QED BY <2>1, <2>2
<1>7. {i \in ToSet(K) : N[i] = None} = {}
  BY <1>0, <1>6
<1>8. Cardinality({i \in ToSet(K) : N[i] = None}) = 0
  BY <1>7, FS_EmptySet
<1>9. \A i \in S : i <= Len(N) /\ N[i].part = q
  BY <1>0
<1>10. \A i \in 1..Len(N) : N[i].part = q => i \in S
  OBVIOUS
<1>11. Listing(N, K, 0, q)
  BY <1>5, <1>6, <1>8, <1>9, <1>10 DEF Listing
<1> QED BY <1>3, <1>11 DEF K, M

----------------------------------------------------------------------------
(* The live count of an arena.                                             *)

Places(R) == {i \in 1..Len(R) : R[i] # None}

\* Its rows are finitely many.
LEMMA PlacesFinite ==
    ASSUME NEW R \in Seq(Cell)
    PROVE  IsFiniteSet(Places(R)) /\ Cardinality(Places(R)) \in Nat /\ Places(R) \in SUBSET (1..Len(R))
<1>1. IsFiniteSet(1..Len(R)) /\ Places(R) \in SUBSET (1..Len(R))
  BY FS_Interval DEF Places
<1> QED BY <1>1, FS_Subset, FS_CardinalityType

\* A row is appended.
LEMMA PlacesAdd ==
    ASSUME NEW R \in Seq(Cell), NEW x \in Live
    PROVE  Cardinality(Places(Append(R, x))) = Cardinality(Places(R)) + 1
<1> DEFINE n == Len(R) + 1
           R1 == Append(R, x)
<1>0. x \in Cell /\ x # None /\ Len(R) \in Nat
  BY NoneIsApart DEF Cell, NoneIsApart
<1>1. R1 \in Seq(Cell) /\ Len(R1) = n /\ R1[n] = x /\ \A i \in 1..Len(R) : R1[i] = R[i]
  BY <1>0
<1> HIDE DEF R1
<1>2. Places(R1) = Places(R) \cup {n} /\ n \notin Places(R)
  BY <1>0, <1>1 DEF Places
<1>3. Cardinality(Places(R1)) = Cardinality(Places(R)) + 1
  BY <1>2, PlacesFinite, FS_AddElement
<1> QED BY <1>3 DEF R1

\* A row is tombstoned.
LEMMA PlacesBury ==
    ASSUME NEW R \in Seq(Cell), NEW n \in 1..Len(R), R[n] # None
    PROVE  /\ Cardinality(Places([R EXCEPT ![n] = None])) = Cardinality(Places(R)) - 1
           /\ [R EXCEPT ![n] = None] \in Seq(Cell)
<1> DEFINE R1 == [R EXCEPT ![n] = None]
<1>1. /\ R1 \in Seq(Cell) /\ Len(R1) = Len(R) /\ R1[n] = None
      /\ \A i \in 1..Len(R) : i # n => R1[i] = R[i]
  BY DEF Cell
<1> HIDE DEF R1
<1>2. Places(R1) = Places(R) \ {n} /\ n \in Places(R)
  BY <1>1 DEF Places
<1>3. Cardinality(Places(R1)) = Cardinality(Places(R)) - 1
  BY <1>2, PlacesFinite, FS_RemoveElement
<1> QED BY <1>1, <1>3 DEF R1

\* An arena without tombstones.
LEMMA PlacesAll ==
    ASSUME NEW N \in Seq(Live)
    PROVE  N \in Seq(Cell) /\ Cardinality(Places(N)) = Len(N)
<1>1. Len(N) \in Nat /\ N \in Seq(Cell) /\ \A i \in 1..Len(N) : N[i] # None
  BY NoneIsApart DEF NoneIsApart, Cell
<1>2. Places(N) = 1..Len(N)
  BY <1>1 DEF Places
<1>3. Cardinality(1..Len(N)) = Len(N)
  <2> DEFINE n == Len(N)
  <2>1. n \in Nat
    BY <1>1
  <2> HIDE DEF n
  <2>2. Cardinality(1..n) = n
    BY <2>1, FS_Interval
  <2> QED BY <2>2 DEF n
<1> QED BY <1>1, <1>2, <1>3

----------------------------------------------------------------------------
(* A table whose five pieces agree, and the methods that keep it so.       *)

TableT == [rows : [Shard -> Seq(Cell)], live : [Shard -> Nat], tails : [Parts -> Seq(Number)],
           tailsDead : [Parts -> Nat], dir : [PKs -> Loc \cup {None}]]

Placed(t) ==
    /\ \A p \in PKs : t.dir[p] # None => At(t, t.dir[p]) # None /\ At(t, t.dir[p]).pk = p
    /\ \A s \in Shard : \A i \in 1..Len(t.rows[s]) :
        t.rows[s][i] # None => /\ t.dir[t.rows[s][i].pk] = [shard |-> s, rowID |-> i]
                               /\ shardOf[t.rows[s][i].part] = s
Listed(t) == \A q \in Parts : Listing(t.rows[shardOf[q]], t.tails[q], t.tailsDead[q], q)
LiveFits(t) == \A s \in Shard : t.live[s] = Cardinality(Places(t.rows[s]))

Sound(t) == t \in TableT /\ Placed(t) /\ Listed(t) /\ LiveFits(t)

\* The parts of a table.
LEMMA TableParts ==
    ASSUME NEW t \in TableT
    PROVE  /\ t = [rows |-> t.rows, live |-> t.live, tails |-> t.tails, tailsDead |-> t.tailsDead, dir |-> t.dir]
           /\ t.rows \in [Shard -> Seq(Cell)] /\ t.live \in [Shard -> Nat]
           /\ t.tails \in [Parts -> Seq(Number)] /\ t.tailsDead \in [Parts -> Nat]
           /\ t.dir \in [PKs -> Loc \cup {None}]
           /\ \A s \in Shard : t.rows[s] \in Seq(Cell) /\ Len(t.rows[s]) \in Nat
           /\ \A q \in Parts : shardOf[q] \in Shard
BY PartitionRouting DEF TableT, PartitionRouting

\* The parts of a location, and what is there.
LEMMA LocParts ==
    ASSUME NEW t \in TableT, Placed(t), NEW p \in PKs, t.dir[p] # None
    PROVE  /\ t.dir[p] = [shard |-> t.dir[p].shard, rowID |-> t.dir[p].rowID]
           /\ t.dir[p].shard \in Shard
           /\ t.dir[p].rowID \in 1..Len(t.rows[t.dir[p].shard])
           /\ At(t, t.dir[p]) = t.rows[t.dir[p].shard][t.dir[p].rowID]
           /\ At(t, t.dir[p]) \in Live /\ At(t, t.dir[p]).pk = p /\ At(t, t.dir[p]) # None
           /\ At(t, t.dir[p]).part \in Parts /\ shardOf[At(t, t.dir[p]).part] = t.dir[p].shard
<1> DEFINE loc == t.dir[p]
<1>1. loc \in Loc
  BY TableParts
<1>2. /\ loc.shard \in Shard /\ loc.rowID \in Nat \ {0} /\ loc = [shard |-> loc.shard, rowID |-> loc.rowID]
  BY <1>1 DEF Loc
<1>3. At(t, loc) # None /\ At(t, loc).pk = p
  BY DEF Placed
<1> HIDE DEF loc
<1>4. Len(t.rows[loc.shard]) \in Nat /\ t.rows[loc.shard] \in Seq(Cell)
  BY <1>2, TableParts
<1>5. loc.rowID <= Len(t.rows[loc.shard]) /\ At(t, loc) = t.rows[loc.shard][loc.rowID]
  BY <1>3 DEF At
<1>6. loc.rowID \in 1..Len(t.rows[loc.shard])
  BY <1>2, <1>4, <1>5
<1>7. At(t, loc) \in Live
  BY <1>3, <1>4, <1>5, <1>6 DEF Cell
<1>8. shardOf[At(t, loc).part] = loc.shard
  BY <1>2, <1>3, <1>5, <1>6 DEF Placed
<1>9. At(t, loc).part \in Parts
  BY <1>7 DEF Live
<1> QED BY <1>2, <1>3, <1>5, <1>6, <1>7, <1>8, <1>9 DEF loc

\* A row of a table.
LEMMA RowParts ==
    ASSUME NEW t \in TableT, Placed(t), NEW s \in Shard, NEW i \in 1..Len(t.rows[s]), t.rows[s][i] # None
    PROVE  /\ t.rows[s][i] \in Live /\ t.rows[s][i].pk \in PKs /\ t.rows[s][i].part \in Parts
           /\ t.dir[t.rows[s][i].pk] = [shard |-> s, rowID |-> i]
           /\ t.dir[t.rows[s][i].pk] # None
           /\ shardOf[t.rows[s][i].part] = s
<1>1. t.rows[s][i] \in Live
  BY TableParts DEF Cell
<1>2. i \in Nat \ {0}
  BY TableParts
<1>3. [shard |-> s, rowID |-> i] \in Loc
  BY <1>2 DEF Loc
<1>4. [shard |-> s, rowID |-> i] # None
  BY <1>3, NoneIsApart DEF NoneIsApart
<1>5. t.dir[t.rows[s][i].pk] = [shard |-> s, rowID |-> i] /\ shardOf[t.rows[s][i].part] = s
  BY DEF Placed
<1> QED BY <1>1, <1>4, <1>5 DEF Live

\* What an insert does to each piece.
LEMMA AddRowIs ==
    ASSUME NEW t \in TableT, NEW p, NEW q, NEW u, u = addRow(t, p, q)
    PROVE  u = [rows |-> [t.rows EXCEPT ![shardOf[q]] = Append(t.rows[shardOf[q]], [pk |-> p, part |-> q])],
                live |-> [t.live EXCEPT ![shardOf[q]] = t.live[shardOf[q]] + 1],
                tails |-> [t.tails EXCEPT ![q] = Append(t.tails[q], Len(t.rows[shardOf[q]]) + 1)],
                tailsDead |-> t.tailsDead,
                dir |-> [t.dir EXCEPT ![p] = [shard |-> shardOf[q], rowID |-> Len(t.rows[shardOf[q]]) + 1]]]
<1>1. PICK r, v, l, d, i : t = [rows |-> r, live |-> v, tails |-> l, tailsDead |-> d, dir |-> i]
  BY DEF TableT
<1> QED BY <1>1 DEF addRow

\* INSERT of a key that the table lacks.
LEMMA AddRowIsSound ==
    ASSUME NEW t, Sound(t), NEW p \in PKs, NEW q \in Parts, t.dir[p] = None
    PROVE  Sound(addRow(t, p, q))
<1> DEFINE s == shardOf[q]
           R == t.rows[s]
           id == Len(R) + 1
           x == [pk |-> p, part |-> q]
           l == [shard |-> s, rowID |-> id]
           u == addRow(t, p, q)
<1>0. /\ t \in TableT /\ Placed(t) /\ Listed(t) /\ LiveFits(t)
      /\ s \in Shard /\ R \in Seq(Cell) /\ Len(R) \in Nat
  BY TableParts DEF Sound
<1>1. x \in Live /\ x # None /\ x \in Cell /\ x.pk = p /\ x.part = q /\ id \in Number /\ l \in Loc /\ l # None
  <2>1. x \in Live /\ x.pk = p /\ x.part = q /\ id \in Nat \ {0}
    BY <1>0 DEF Live
  <2>2. l \in Loc
    BY <1>0, <2>1 DEF Loc
  <2> QED BY <2>1, <2>2, NoneIsApart DEF NoneIsApart, Cell, Number
<1>2. /\ u.rows = [t.rows EXCEPT ![s] = Append(R, x)]
      /\ u.live = [t.live EXCEPT ![s] = t.live[s] + 1]
      /\ u.tails = [t.tails EXCEPT ![q] = Append(t.tails[q], id)]
      /\ u.tailsDead = t.tailsDead
      /\ u.dir = [t.dir EXCEPT ![p] = l]
      /\ u = [rows |-> u.rows, live |-> u.live, tails |-> u.tails, tailsDead |-> u.tailsDead, dir |-> u.dir]
  <2> HIDE DEF u
  <2>0. u = addRow(t, p, q)
    BY DEF u
  <2>1. u = [rows |-> [t.rows EXCEPT ![s] = Append(R, x)],
             live |-> [t.live EXCEPT ![s] = t.live[s] + 1],
             tails |-> [t.tails EXCEPT ![q] = Append(t.tails[q], id)],
             tailsDead |-> t.tailsDead,
             dir |-> [t.dir EXCEPT ![p] = l]]
    BY <1>0, <2>0, AddRowIs
  <2> HIDE DEF R, x, l, id, s
  <2> QED BY <2>1
<1>3. /\ t.rows \in [Shard -> Seq(Cell)] /\ t.live \in [Shard -> Nat]
      /\ t.tails \in [Parts -> Seq(Number)] /\ t.tailsDead \in [Parts -> Nat]
      /\ t.dir \in [PKs -> Loc \cup {None}]
      /\ \A v \in Shard : t.rows[v] \in Seq(Cell) /\ Len(t.rows[v]) \in Nat
      /\ \A v \in Parts : shardOf[v] \in Shard
  BY <1>0, TableParts
<1> DEFINE R1 == Append(R, x)
<1>4. R1 \in Seq(Cell) /\ Len(R1) = id /\ R1[id] = x /\ \A i \in 1..Len(R) : R1[i] = R[i]
  BY <1>0, <1>1
<1> HIDE DEF u, x, l, R1, R, s
<1>5. /\ \A v \in Shard : u.rows[v] = IF v = s THEN R1 ELSE t.rows[v]
      /\ \A v \in Parts : u.tails[v] = IF v = q THEN Append(t.tails[v], id) ELSE t.tails[v]
      /\ \A v \in PKs : u.dir[v] = IF v = p THEN l ELSE t.dir[v]
      /\ \A v \in Shard : u.live[v] = IF v = s THEN t.live[v] + 1 ELSE t.live[v]
  BY SMTT(40), <1>0, <1>2, <1>3 DEF R1
<1>6. u \in TableT
  <2>1. u.rows \in [Shard -> Seq(Cell)]
    BY <1>0, <1>2, <1>3, <1>4 DEF R1
  <2>2. u.live \in [Shard -> Nat] /\ u.tailsDead \in [Parts -> Nat] /\ u.dir \in [PKs -> Loc \cup {None}]
    BY SMTT(30), <1>0, <1>1, <1>2, <1>3
  <2>3. u.tails \in [Parts -> Seq(Number)]
    BY <1>1, <1>2, <1>3
  <2> QED BY <1>2, <2>1, <2>2, <2>3 DEF TableT
<1>7. Placed(u)
  <2>1. ASSUME NEW k \in PKs, u.dir[k] # None PROVE At(u, u.dir[k]) # None /\ At(u, u.dir[k]).pk = k
    <3>1. CASE k = p
      <4>1. u.dir[k] = l /\ l.shard = s /\ l.rowID = id
        BY <1>5, <3>1 DEF l
      <4>2. At(u, l) = x
        BY <1>0, <1>4, <1>5, <4>1 DEF At
      <4> QED BY <1>1, <3>1, <4>1, <4>2
    <3>2. CASE k # p
      <4> DEFINE d == t.dir[k]
      <4>1. u.dir[k] = d /\ d # None
        BY <1>5, <2>1, <3>2
      <4>2. /\ d.shard \in Shard /\ d.rowID \in 1..Len(t.rows[d.shard])
            /\ At(t, d) = t.rows[d.shard][d.rowID] /\ At(t, d) # None /\ At(t, d).pk = k
        BY <1>0, <4>1, LocParts
      <4> HIDE DEF d
      <4>3. u.rows[d.shard][d.rowID] = t.rows[d.shard][d.rowID] /\ d.rowID <= Len(u.rows[d.shard])
        <5>1. CASE d.shard = s
          BY <1>0, <1>4, <1>5, <4>2, <5>1 DEF R
        <5>2. CASE d.shard # s
          <6>1. u.rows[d.shard] = t.rows[d.shard] /\ Len(t.rows[d.shard]) \in Nat
            BY <1>3, <1>5, <4>2, <5>2
          <6> QED BY <4>2, <6>1
        <5> QED BY <5>1, <5>2
      <4>4. At(u, d) = At(t, d)
        BY <4>2, <4>3 DEF At
      <4> QED BY <4>1, <4>2, <4>4
    <3> QED BY <3>1, <3>2
  <2>2. ASSUME NEW v \in Shard, NEW i \in 1..Len(u.rows[v]), u.rows[v][i] # None
        PROVE  u.dir[u.rows[v][i].pk] = [shard |-> v, rowID |-> i] /\ shardOf[u.rows[v][i].part] = v
    <3>1. CASE v = s /\ i = id
      <4>1. u.rows[v][i] = x
        BY <1>4, <1>5, <3>1
      <4> QED BY <1>1, <1>5, <3>1, <4>1 DEF l, s
    <3>2. CASE ~(v = s /\ i = id)
      <4>1. i \in 1..Len(t.rows[v]) /\ u.rows[v][i] = t.rows[v][i]
        BY <1>0, <1>3, <1>4, <1>5, <3>2 DEF R
      <4>2. /\ t.rows[v][i].pk \in PKs /\ t.dir[t.rows[v][i].pk] = [shard |-> v, rowID |-> i]
            /\ t.dir[t.rows[v][i].pk] # None /\ shardOf[t.rows[v][i].part] = v
        BY <1>0, <2>2, <4>1, RowParts
      <4> QED BY <1>5, <4>1, <4>2
    <3> QED BY <3>1, <3>2
  <2> QED BY <2>1, <2>2 DEF Placed
<1>8. Listed(u)
  <2> SUFFICES ASSUME NEW v \in Parts
               PROVE  Listing(u.rows[shardOf[v]], u.tails[v], u.tailsDead[v], v)
    BY DEF Listed
  <2>1. /\ Listing(t.rows[shardOf[v]], t.tails[v], t.tailsDead[v], v) /\ shardOf[v] \in Shard
        /\ t.tails[v] \in Seq(Number) /\ t.rows[shardOf[v]] \in Seq(Cell)
    BY <1>0, <1>3 DEF Listed
  <2>2. CASE v = q
    <3>1. /\ t.rows[shardOf[v]] = R /\ u.rows[shardOf[v]] = R1
          /\ u.tails[v] = Append(t.tails[v], id) /\ u.tailsDead[v] = t.tailsDead[v]
      BY <1>0, <1>2, <1>5, <2>2 DEF R, s
    <3> QED BY <1>0, <1>1, <2>1, <2>2, <3>1, ListingAdds DEF R1
  <2>3. CASE v # q /\ shardOf[v] = s
    <3>1. /\ t.rows[shardOf[v]] = R /\ u.rows[shardOf[v]] = R1
          /\ u.tails[v] = t.tails[v] /\ u.tailsDead[v] = t.tailsDead[v]
      BY <1>0, <1>2, <1>5, <2>3 DEF R
    <3> QED BY <1>0, <1>1, <2>1, <2>3, <3>1, ListingSkips DEF R1
  <2>4. CASE v # q /\ shardOf[v] # s
    BY <1>2, <1>5, <2>1, <2>4
  <2> QED BY <2>2, <2>3, <2>4
<1>9. LiveFits(u)
  <2> SUFFICES ASSUME NEW v \in Shard PROVE u.live[v] = Cardinality(Places(u.rows[v]))
    BY DEF LiveFits
  <2>1. t.live[v] = Cardinality(Places(t.rows[v]))
    BY <1>0 DEF LiveFits
  <2>2. CASE v = s
    <3>1. Cardinality(Places(R1)) = Cardinality(Places(R)) + 1
      BY <1>0, <1>1, PlacesAdd DEF R1
    <3> QED BY <1>5, <2>1, <2>2, <3>1 DEF R
  <2>3. CASE v # s
    BY <1>5, <2>1, <2>3
  <2> QED BY <2>2, <2>3
<1> QED BY <1>6, <1>7, <1>8, <1>9 DEF Sound, u

\* The live numbers of a list, by position.
Alive(R, L) == {k \in 1..Len(L) : R[L[k]] # None}

\* The numbers of q's list are places of its arena.
InArena(t, q) == t.tails[q] \in Seq(Number) /\ \A i \in ToSet(t.tails[q]) : i <= Len(t.rows[shardOf[q]])

\* liveTail picks them.
LEMMA LiveTailIs ==
    ASSUME NEW t, NEW q, InArena(t, q)
    PROVE  liveTail(t, q) = Picked(t.tails[q], Alive(t.rows[shardOf[q]], t.tails[q]))
<1> DEFINE R == t.rows[shardOf[q]]
           L == t.tails[q]
           X == {k \in 1..Len(L) : At(t, [shard |-> shardOf[q], rowID |-> L[k]]) # None}
<1>1. liveTail(t, q) = Picked(L, X)
  BY DEF liveTail, Kept, Picked
<1>2. ASSUME NEW k \in 1..Len(L) PROVE At(t, [shard |-> shardOf[q], rowID |-> L[k]]) = R[L[k]]
  <2>1. L[k] <= Len(R)
    BY ToSetIs DEF InArena
  <2> QED BY <2>1 DEF At
<1>3. X = Alive(R, L)
  BY <1>2 DEF Alive
<1> QED BY <1>1, <1>3

\* A table while one of its rows is being buried: the live count is not checked.
IsTable(t) ==
    /\ \E r, v, l, e, i : t = [rows |-> r, live |-> v, tails |-> l, tailsDead |-> e, dir |-> i]
    /\ t.tails \in [Parts -> Seq(Number)]

\* u is t with another list and dead count for q.
Relists(t, q, L, d, u) ==
    u = [rows |-> t.rows, live |-> t.live, tails |-> [t.tails EXCEPT ![q] = L],
         tailsDead |-> [t.tailsDead EXCEPT ![q] = d], dir |-> t.dir]

\* What a tombstone does to a list: one more dead number, or none left.
LEMMA TombstoneIs ==
    ASSUME NEW q, NEW t, IsTable(t), NEW u, u = tailsTombstone(t, q)
    PROVE  \/ Relists(t, q, t.tails[q], t.tailsDead[q] + 1, u)
           \/ Relists(t, q, liveTail(t, q), 0, u)
<1>1. PICK r, v, l, e, i : t = [rows |-> r, live |-> v, tails |-> l, tailsDead |-> e, dir |-> i]
  BY DEF IsTable
<1>2. CASE u = [t EXCEPT !.tailsDead[q] = t.tailsDead[q] + 1]
  <2>1. t.tails = [t.tails EXCEPT ![q] = t.tails[q]]
    BY DEF IsTable
  <2>2. u = [rows |-> r, live |-> v, tails |-> l, tailsDead |-> [e EXCEPT ![q] = e[q] + 1], dir |-> i]
    BY <1>1, <1>2
  <2>3. t.rows = r /\ t.live = v /\ t.tails = l /\ t.tailsDead = e /\ t.dir = i
    BY <1>1
  <2>4. Relists(t, q, t.tails[q], t.tailsDead[q] + 1, u)
    BY <2>1, <2>2, <2>3, Zenon DEF Relists
  <2> QED BY <2>4
<1>3. CASE u = [t EXCEPT !.tails[q] = liveTail(t, q), !.tailsDead[q] = 0]
  <2> DEFINE K == liveTail(t, q)
  <2> HIDE DEF K
  <2>1. u = [t EXCEPT !.tails[q] = K, !.tailsDead[q] = 0]
    BY <1>3 DEF K
  <2>2. u = [rows |-> r, live |-> v, tails |-> [l EXCEPT ![q] = K], tailsDead |-> [e EXCEPT ![q] = 0], dir |-> i]
    BY <1>1, <2>1
  <2>3. t.rows = r /\ t.live = v /\ t.tails = l /\ t.tailsDead = e /\ t.dir = i
    BY <1>1
  <2>4. Relists(t, q, K, 0, u)
    BY <2>2, <2>3, Zenon DEF Relists
  <2> QED BY <2>4 DEF K
<1> QED BY <1>2, <1>3 DEF tailsTombstone

\* u is t without the row of key p, whose arena s becomes R; L and d are q's new list.
Buries(t, p, s, R, q, L, d, u) ==
    u = [rows |-> [t.rows EXCEPT ![s] = R], live |-> [t.live EXCEPT ![s] = t.live[s] - 1],
         tails |-> [t.tails EXCEPT ![q] = L],
         tailsDead |-> [t.tailsDead EXCEPT ![q] = d], dir |-> [t.dir EXCEPT ![p] = None]]

\* What a removal does to each piece.
LEMMA RemoveRowIs ==
    ASSUME NEW t \in TableT, Placed(t), Listed(t), NEW p \in PKs, t.dir[p] # None, NEW u, u = removeRow(t, p),
           NEW s, NEW n, NEW q, NEW R1,
           s = t.dir[p].shard, n = t.dir[p].rowID, q = At(t, t.dir[p]).part, R1 = [t.rows[s] EXCEPT ![n] = None]
    PROVE  \/ Buries(t, p, s, R1, q, t.tails[q], t.tailsDead[q] + 1, u)
           \/ Buries(t, p, s, R1, q, Picked(t.tails[q], Alive(R1, t.tails[q])), 0, u)
<1> DEFINE t0 == [t EXCEPT !.rows[s][n] = None, !.live[s] = @ - 1]
           t1 == tailsTombstone(t0, q)
<1>1. u = [t1 EXCEPT !.dir[p] = None]
  BY DEF removeRow
<1>2. PICK r, v, l, e, i : t = [rows |-> r, live |-> v, tails |-> l, tailsDead |-> e, dir |-> i]
  BY DEF TableT
<1> HIDE DEF t0, t1
<1>3. /\ s \in Shard /\ n \in 1..Len(t.rows[s]) /\ q \in Parts /\ shardOf[q] = s
      /\ t.rows[s][n] # None
  <2>1. /\ t.dir[p].shard \in Shard
        /\ t.dir[p].rowID \in 1..Len(t.rows[t.dir[p].shard])
        /\ At(t, t.dir[p]) = t.rows[t.dir[p].shard][t.dir[p].rowID]
        /\ At(t, t.dir[p]) # None
        /\ At(t, t.dir[p]).part \in Parts /\ shardOf[At(t, t.dir[p]).part] = t.dir[p].shard
    BY LocParts
  <2> QED BY <2>1
<1>a. t.rows[s] \in Seq(Cell) /\ t.tails[q] \in Seq(Number) /\ t.tails \in [Parts -> Seq(Number)]
      /\ t.rows \in [Shard -> Seq(Cell)]
  BY <1>3, TableParts
<1>4. t0 = [rows |-> [t.rows EXCEPT ![s] = R1], live |-> [t.live EXCEPT ![s] = t.live[s] - 1],
            tails |-> t.tails, tailsDead |-> t.tailsDead, dir |-> t.dir]
  <2>1. t0 = [t EXCEPT !.rows[s][n] = None, !.live[s] = @ - 1]
    BY DEF t0
  <2>2. R1 = [r[s] EXCEPT ![n] = None]
    BY <1>2
  <2>3. t0 = [rows |-> [r EXCEPT ![s] = R1], live |-> [v EXCEPT ![s] = v[s] - 1],
              tails |-> l, tailsDead |-> e, dir |-> i]
    BY <1>2, <2>1, <2>2
  <2> QED BY <1>2, <2>3
<1>5. \/ Relists(t0, q, t0.tails[q], t0.tailsDead[q] + 1, t1)
      \/ Relists(t0, q, liveTail(t0, q), 0, t1)
  <2>1. t1 = tailsTombstone(t0, q)
    BY DEF t1
  <2>2. t0.rows = [t.rows EXCEPT ![s] = R1] /\ t0.live = [t.live EXCEPT ![s] = t.live[s] - 1]
        /\ t0.tails = t.tails /\ t0.tailsDead = t.tailsDead /\ t0.dir = t.dir
    BY <1>4
  <2>3. IsTable(t0)
    BY <1>4, <1>a DEF IsTable
  <2> QED BY <2>1, <2>3, TombstoneIs
<1>6. ASSUME NEW L, NEW d, Relists(t0, q, L, d, t1) PROVE Buries(t, p, s, R1, q, L, d, u)
  <2>1. t1 = [rows |-> [t.rows EXCEPT ![s] = R1], live |-> [t.live EXCEPT ![s] = t.live[s] - 1],
              tails |-> [t.tails EXCEPT ![q] = L],
              tailsDead |-> [t.tailsDead EXCEPT ![q] = d], dir |-> t.dir]
    BY <1>4, <1>6 DEF Relists
  <2> QED BY <1>1, <2>1 DEF Buries
<1>7. liveTail(t0, q) = Picked(t.tails[q], Alive(R1, t.tails[q]))
  <2>1. R1 = t0.rows[shardOf[q]] /\ t.tails[q] = t0.tails[q] /\ Len(R1) = Len(t.rows[s])
    BY <1>3, <1>a, <1>4
  <2>2. \A j \in ToSet(t.tails[q]) : j <= Len(R1)
    BY <1>3, <2>1 DEF Listed, Listing
  <2>3. InArena(t0, q)
    BY <1>a, <2>1, <2>2, Zenon DEF InArena
  <2> QED BY <2>1, <2>3, LiveTailIs
<1>8. t0.tails = t.tails /\ t0.tailsDead = t.tailsDead
  BY <1>4
<1> QED BY <1>5, <1>6, <1>7, <1>8

\* DELETE of a key that is there.
LEMMA RemoveRowIsSound ==
    ASSUME NEW t, Sound(t), NEW p \in PKs, t.dir[p] # None
    PROVE  Sound(removeRow(t, p))
<1> DEFINE loc == t.dir[p]
           s == loc.shard
           n == loc.rowID
           q == At(t, loc).part
           R == t.rows[s]
           R1 == [R EXCEPT ![n] = None]
           u == removeRow(t, p)
<1>0. t \in TableT /\ Placed(t) /\ Listed(t) /\ LiveFits(t)
  BY DEF Sound
<1>1. /\ loc = [shard |-> s, rowID |-> n] /\ s \in Shard /\ n \in 1..Len(R)
      /\ At(t, loc) = R[n] /\ R[n] # None /\ R[n].pk = p /\ R[n].part = q
      /\ q \in Parts /\ shardOf[q] = s
  <2>1. /\ t.dir[p] = [shard |-> t.dir[p].shard, rowID |-> t.dir[p].rowID]
        /\ t.dir[p].shard \in Shard
        /\ t.dir[p].rowID \in 1..Len(t.rows[t.dir[p].shard])
        /\ At(t, t.dir[p]) = t.rows[t.dir[p].shard][t.dir[p].rowID]
        /\ At(t, t.dir[p]).pk = p /\ At(t, t.dir[p]) # None
        /\ At(t, t.dir[p]).part \in Parts /\ shardOf[At(t, t.dir[p]).part] = t.dir[p].shard
    BY <1>0, LocParts
  <2> QED BY <2>1
<1>2. \/ Buries(t, p, s, R1, q, t.tails[q], t.tailsDead[q] + 1, u)
      \/ Buries(t, p, s, R1, q, Picked(t.tails[q], Alive(R1, t.tails[q])), 0, u)
  <2>1. u = removeRow(t, p)
    OBVIOUS
  <2> HIDE DEF u
  <2> QED BY <1>0, <2>1, RemoveRowIs
<1>3. /\ t.rows \in [Shard -> Seq(Cell)] /\ t.live \in [Shard -> Nat]
      /\ t.tails \in [Parts -> Seq(Number)] /\ t.tailsDead \in [Parts -> Nat]
      /\ t.dir \in [PKs -> Loc \cup {None}]
      /\ \A v \in Shard : t.rows[v] \in Seq(Cell) /\ Len(t.rows[v]) \in Nat
      /\ \A v \in Parts : shardOf[v] \in Shard
  BY <1>0, TableParts
<1> HIDE DEF u, loc, s, n, q
<1>4. R \in Seq(Cell) /\ Len(R) \in Nat /\ Listing(R, t.tails[q], t.tailsDead[q], q) /\ t.tails[q] \in Seq(Number)
  BY <1>0, <1>1, <1>3 DEF Listed
<1>5. /\ R1 \in Seq(Cell) /\ Len(R1) = Len(R) /\ R1[n] = None
      /\ \A i \in 1..Len(R) : i # n => R1[i] = R[i]
  BY <1>1, <1>4 DEF Cell
<1>6. PICK L, d : /\ L \in Seq(Number) /\ d \in Nat /\ Listing(R1, L, d, q)
                  /\ Buries(t, p, s, R1, q, L, d, u)
  <2>1. Listing(R1, t.tails[q], t.tailsDead[q] + 1, q)
    BY <1>1, <1>4, ListingBuries
  <2>2. t.tailsDead[q] + 1 \in Nat
    BY <1>1, <1>3
  <2> DEFINE K == Picked(t.tails[q], Alive(R1, t.tails[q]))
  <2>3. K \in Seq(Number) /\ Listing(R1, K, 0, q)
    <3> HIDE DEF R1
    <3>1. Alive(R1, t.tails[q]) = {k \in 1..Len(t.tails[q]) : R1[t.tails[q][k]] # None}
      BY DEF Alive
    <3> QED BY <1>4, <1>5, <2>1, <3>1, ListingPrunes
  <2> HIDE DEF K, R1
  <2>4. \/ Buries(t, p, s, R1, q, t.tails[q], t.tailsDead[q] + 1, u)
        \/ Buries(t, p, s, R1, q, K, 0, u)
    BY <1>2 DEF K, R1
  <2> QED BY <1>4, <2>1, <2>2, <2>3, <2>4
<1> HIDE DEF R1
<1>7. /\ u.rows = [t.rows EXCEPT ![s] = R1]
      /\ u.live = [t.live EXCEPT ![s] = t.live[s] - 1]
      /\ u.tails = [t.tails EXCEPT ![q] = L]
      /\ u.tailsDead = [t.tailsDead EXCEPT ![q] = d]
      /\ u.dir = [t.dir EXCEPT ![p] = None]
      /\ u = [rows |-> u.rows, live |-> u.live, tails |-> u.tails, tailsDead |-> u.tailsDead, dir |-> u.dir]
  BY <1>6 DEF Buries
<1>8. /\ \A v \in Shard : u.rows[v] = IF v = s THEN R1 ELSE t.rows[v]
      /\ \A v \in Parts : u.tails[v] = IF v = q THEN L ELSE t.tails[v]
      /\ \A v \in Parts : u.tailsDead[v] = IF v = q THEN d ELSE t.tailsDead[v]
      /\ \A v \in PKs : u.dir[v] = IF v = p THEN None ELSE t.dir[v]
      /\ \A v \in Shard : u.live[v] = IF v = s THEN t.live[v] - 1 ELSE t.live[v]
  BY <1>3, <1>7
<1>9. LiveFits(u) /\ u.live \in [Shard -> Nat]
  <2>1. Cardinality(Places(R1)) = Cardinality(Places(R)) - 1 /\ Cardinality(Places(R1)) \in Nat
    BY <1>1, <1>4, <1>5, PlacesBury, PlacesFinite DEF R1
  <2>2. ASSUME NEW v \in Shard PROVE u.live[v] = Cardinality(Places(u.rows[v])) /\ u.live[v] \in Nat
    <3>1. t.live[v] = Cardinality(Places(t.rows[v])) /\ t.live[v] \in Nat
      BY <1>0, <1>3 DEF LiveFits
    <3> QED BY <1>8, <2>1, <3>1
  <2>3. u.live \in [Shard -> Nat]
    <3>1. DOMAIN u.live = Shard /\ u.live = [v \in Shard |-> u.live[v]]
      BY <1>3, <1>7
    <3> QED BY <2>2, <3>1
  <2> QED BY <2>2, <2>3 DEF LiveFits
<1>10. u \in TableT
  <2>1. u.rows \in [Shard -> Seq(Cell)]
    BY <1>1, <1>3, <1>5, <1>7
  <2>2. u.tails \in [Parts -> Seq(Number)] /\ u.tailsDead \in [Parts -> Nat]
    BY <1>1, <1>3, <1>6, <1>7
  <2>3. u.dir \in [PKs -> Loc \cup {None}]
    BY <1>3, <1>7
  <2> QED BY <1>7, <1>9, <2>1, <2>2, <2>3 DEF TableT
<1>11. Placed(u)
  <2>1. ASSUME NEW k \in PKs, u.dir[k] # None PROVE At(u, u.dir[k]) # None /\ At(u, u.dir[k]).pk = k
    <3> DEFINE e == t.dir[k]
    <3>1. k # p /\ u.dir[k] = e /\ e # None
      BY <1>8, <2>1
    <3>2. /\ e.shard \in Shard /\ e.rowID \in 1..Len(t.rows[e.shard])
          /\ At(t, e) = t.rows[e.shard][e.rowID] /\ At(t, e) # None /\ At(t, e).pk = k
      BY <1>0, <3>1, LocParts
    <3> HIDE DEF e
    <3>3. u.rows[e.shard][e.rowID] = t.rows[e.shard][e.rowID] /\ e.rowID <= Len(u.rows[e.shard])
      <4>1. CASE e.shard = s
        <5>1. e.rowID # n
          BY <1>1, <3>1, <3>2, <4>1
        <5> QED BY <1>4, <1>5, <1>8, <3>2, <4>1, <5>1
      <4>2. CASE e.shard # s
        <5>1. u.rows[e.shard] = t.rows[e.shard] /\ Len(t.rows[e.shard]) \in Nat
          BY <1>3, <1>8, <3>2, <4>2
        <5> QED BY <3>2, <5>1
      <4> QED BY <4>1, <4>2
    <3>4. At(u, e) = At(t, e)
      BY <3>2, <3>3 DEF At
    <3> QED BY <3>1, <3>2, <3>4
  <2>2. ASSUME NEW v \in Shard, NEW i \in 1..Len(u.rows[v]), u.rows[v][i] # None
        PROVE  u.dir[u.rows[v][i].pk] = [shard |-> v, rowID |-> i] /\ shardOf[u.rows[v][i].part] = v
    <3>1. i \in 1..Len(t.rows[v]) /\ u.rows[v][i] = t.rows[v][i] /\ ~(v = s /\ i = n)
      <4>1. CASE v = s
        BY <1>5, <1>8, <2>2, <4>1
      <4>2. CASE v # s
        BY <1>8, <4>2
      <4> QED BY <4>1, <4>2
    <3>2. /\ t.rows[v][i].pk \in PKs /\ t.dir[t.rows[v][i].pk] = [shard |-> v, rowID |-> i]
          /\ shardOf[t.rows[v][i].part] = v
      BY <1>0, <2>2, <3>1, RowParts
    <3>3. t.rows[v][i].pk # p
      <4> SUFFICES ASSUME t.rows[v][i].pk = p PROVE FALSE
        OBVIOUS
      <4>1. [shard |-> v, rowID |-> i] = [shard |-> s, rowID |-> n]
        BY <1>1, <3>2 DEF loc
      <4>2. [shard |-> v, rowID |-> i].shard = s /\ [shard |-> v, rowID |-> i].rowID = n
        BY <4>1
      <4> QED BY <3>1, <4>2
    <3> QED BY <1>8, <3>1, <3>2, <3>3
  <2> QED BY <2>1, <2>2 DEF Placed
<1>12. Listed(u)
  <2> SUFFICES ASSUME NEW v \in Parts
               PROVE  Listing(u.rows[shardOf[v]], u.tails[v], u.tailsDead[v], v)
    BY DEF Listed
  <2>1. /\ Listing(t.rows[shardOf[v]], t.tails[v], t.tailsDead[v], v) /\ shardOf[v] \in Shard
        /\ t.tails[v] \in Seq(Number) /\ t.rows[shardOf[v]] \in Seq(Cell)
    BY <1>0, <1>3 DEF Listed
  <2>2. CASE v = q
    BY <1>1, <1>6, <1>8, <2>2
  <2>3. CASE v # q /\ shardOf[v] = s
    <3>1. /\ t.rows[shardOf[v]] = R /\ u.rows[shardOf[v]] = R1
          /\ u.tails[v] = t.tails[v] /\ u.tailsDead[v] = t.tailsDead[v]
      BY <1>1, <1>8, <2>3
    <3>2. Listing(R1, t.tails[v], t.tailsDead[v], v)
      BY <1>1, <1>4, <2>1, <2>3, <3>1, ListingIgnores DEF R1
    <3> QED BY <3>1, <3>2
  <2>4. CASE v # q /\ shardOf[v] # s
    BY <1>8, <2>1, <2>4
  <2> QED BY <2>2, <2>3, <2>4
<1> QED BY <1>9, <1>10, <1>11, <1>12 DEF Sound, u

\* DELETE of any key.
LEMMA DeleteRowIsSound ==
    ASSUME NEW t, Sound(t), NEW p \in PKs
    PROVE  Sound(deleteRow(t, p))
BY RemoveRowIsSound DEF deleteRow

\* The arena a compaction leaves, and the places of a partition and of a key in it.
Packed(R) == Picked(R, Places(R))
OfPart(N, q) == {i \in 1..Len(N) : N[i].part = q}
OfKey(N, p) == {i \in 1..Len(N) : N[i].pk = p}

\* u is t with arena N for shard s and every number of s rewritten.
Compacts(t, s, N, u) ==
    u = [rows |-> [t.rows EXCEPT ![s] = N], live |-> t.live,
         tails |-> [q \in Parts |-> IF shardOf[q] = s THEN Picked(Numbers(N), OfPart(N, q)) ELSE t.tails[q]],
         tailsDead |-> [q \in Parts |-> IF shardOf[q] = s THEN 0 ELSE t.tailsDead[q]],
         dir |-> [p \in PKs |-> IF OfKey(N, p) = {} THEN t.dir[p]
                                ELSE [shard |-> s, rowID |-> CHOOSE i \in OfKey(N, p) : TRUE]]]

\* What a compaction does to each piece.
LEMMA CompactIs ==
    ASSUME NEW t \in TableT, NEW s \in Shard, NEW u, u = compactShardLocked(t, s)
    PROVE  Compacts(t, s, Packed(t.rows[s]), u)
<1> DEFINE N == Kept(t.rows[s], IsRow)
           of(q) == Kept(Numbers(N), LAMBDA i : N[i].part = q)
           at(p) == {i \in 1..Len(N) : N[i].pk = p}
           T == [q \in Parts |-> IF shardOf[q] = s THEN of(q) ELSE t.tails[q]]
           D == [q \in Parts |-> IF shardOf[q] = s THEN 0 ELSE t.tailsDead[q]]
           I == [p \in PKs |-> IF at(p) = {} THEN t.dir[p]
                               ELSE [shard |-> s, rowID |-> CHOOSE i \in at(p) : TRUE]]
<1>1. u = [t EXCEPT !.rows[s] = N, !.tails = T, !.tailsDead = D, !.dir = I]
  BY DEF compactShardLocked
<1> HIDE DEF T, D, I
<1>2. N = Packed(t.rows[s])
  BY DEF Kept, Packed, Picked, Places, IsRow
<1>3. Len(N) \in Nat
  <2>1. Packed(t.rows[s]) \in Seq(Cell)
    BY TableParts, PlacesFinite, PickedFacts DEF Packed
  <2> HIDE DEF N
  <2> QED BY <1>2, <2>1
<1>4. ASSUME NEW q PROVE of(q) = Picked(Numbers(N), OfPart(N, q))
  <2> HIDE DEF N
  <2>1. Len(Numbers(N)) = Len(N) /\ \A i \in 1..Len(N) : Numbers(N)[i] = i
    BY <1>3 DEF Numbers
  <2>2. {i \in 1..Len(Numbers(N)) : N[Numbers(N)[i]].part = q} = OfPart(N, q)
    BY <2>1 DEF OfPart
  <2> QED BY <2>2 DEF Kept, Picked
<1>5. ASSUME NEW p PROVE at(p) = OfKey(N, p)
  BY DEF OfKey
<1> HIDE DEF N, of, at
<1>6. T = [q \in Parts |-> IF shardOf[q] = s THEN Picked(Numbers(N), OfPart(N, q)) ELSE t.tails[q]]
  BY <1>4 DEF T
<1>7. I = [p \in PKs |-> IF OfKey(N, p) = {} THEN t.dir[p]
                         ELSE [shard |-> s, rowID |-> CHOOSE i \in OfKey(N, p) : TRUE]]
  BY <1>5 DEF I
<1>8. u = [rows |-> [t.rows EXCEPT ![s] = N], live |-> t.live, tails |-> T, tailsDead |-> D, dir |-> I]
  <2>1. PICK r, v, l, e, i : t = [rows |-> r, live |-> v, tails |-> l, tailsDead |-> e, dir |-> i]
    BY DEF TableT
  <2> QED BY <1>1, <2>1
<1>9. Compacts(t, s, N, u)
  BY <1>6, <1>7, <1>8, Zenon DEF Compacts, D
<1> QED BY <1>2, <1>9

\* N has the rows of R, in order, from the places A.
Packs(N, A, R) ==
    /\ N \in Seq(Live) /\ Len(N) \in Nat
    /\ Len(N) = Cardinality(Places(R))
    /\ \A k \in 1..Len(N) : /\ A[k] \in Places(R) /\ A[k] \in 1..Len(R)
                            /\ N[k] = R[A[k]] /\ N[k] \in Live /\ R[A[k]] # None
    /\ \A i, j \in 1..Len(N) : A[i] = A[j] => i = j
    /\ \A i, j \in 1..Len(N) : i < j => A[i] < A[j]
    /\ \A x \in Places(R) : \E k \in 1..Len(N) : A[k] = x

\* Packed keeps the rows and their order.
LEMMA PackedFacts ==
    ASSUME NEW R \in Seq(Cell)
    PROVE  \E A : Packs(Packed(R), A, R)
<1> DEFINE N == Packed(R)
           A == Ascending(Places(R))
           c == Cardinality(Places(R))
<1>1. IsPicked(N, A, c, R, Places(R)) /\ N \in Seq(Cell)
  BY PlacesFinite, PickedFacts DEF Packed
<1> HIDE DEF N, A
<1>2. /\ Len(N) = c /\ c \in Nat
      /\ \A k \in 1..c : A[k] \in Places(R) /\ N[k] = R[A[k]]
      /\ \A i, j \in 1..c : i < j => A[i] < A[j]
      /\ \A i, j \in 1..c : A[i] = A[j] => i = j
      /\ \A x \in Places(R) : \E k \in 1..c : A[k] = x
  BY <1>1 DEF IsPicked
<1> HIDE DEF c
<1>3. \A k \in 1..c : A[k] \in 1..Len(R) /\ R[A[k]] # None /\ N[k] \in Live
  <2> SUFFICES ASSUME NEW k \in 1..c PROVE A[k] \in 1..Len(R) /\ R[A[k]] # None /\ N[k] \in Live
    OBVIOUS
  <2>1. A[k] \in Places(R) /\ N[k] = R[A[k]]
    BY <1>2
  <2>2. A[k] \in 1..Len(R) /\ R[A[k]] # None
    BY <2>1 DEF Places
  <2>3. R[A[k]] \in Cell
    BY <2>2
  <2> QED BY <2>1, <2>2, <2>3 DEF Cell
<1>4. N \in Seq(Live)
  BY <1>1, <1>2, <1>3
<1>5. Packs(N, A, R)
  BY <1>2, <1>3, <1>4 DEF Packs, c
<1> QED BY <1>5 DEF N

\* Compaction of any shard.
LEMMA CompactIsSound ==
    ASSUME NEW t, Sound(t), NEW s \in Shard
    PROVE  Sound(compactShardLocked(t, s))
<1> DEFINE R == t.rows[s]
           N == Packed(R)
           u == compactShardLocked(t, s)
<1>0. t \in TableT /\ Placed(t) /\ Listed(t) /\ LiveFits(t)
  BY DEF Sound
<1>1. /\ t.rows \in [Shard -> Seq(Cell)] /\ t.live \in [Shard -> Nat]
      /\ t.tails \in [Parts -> Seq(Number)] /\ t.tailsDead \in [Parts -> Nat]
      /\ t.dir \in [PKs -> Loc \cup {None}]
      /\ \A v \in Shard : t.rows[v] \in Seq(Cell) /\ Len(t.rows[v]) \in Nat
      /\ \A v \in Parts : shardOf[v] \in Shard
  BY <1>0, TableParts
<1>2. Compacts(t, s, N, u)
  BY <1>0, CompactIs
<1>3. PICK A : Packs(N, A, R)
  BY <1>1, PackedFacts
<1> HIDE DEF u, N
<1>4. /\ N \in Seq(Live) /\ Len(N) \in Nat /\ N \in Seq(Cell)
      /\ Cardinality(Places(N)) = Cardinality(Places(R))
      /\ \A k \in 1..Len(N) : /\ A[k] \in 1..Len(R) /\ N[k] = R[A[k]]
                              /\ N[k] \in Live /\ R[A[k]] # None /\ N[k] # None
      /\ \A i, j \in 1..Len(N) : A[i] = A[j] => i = j
      /\ \A x \in Places(R) : \E k \in 1..Len(N) : A[k] = x
  BY <1>3, PlacesAll DEF Packs
<1>5. \A k \in 1..Len(N) : /\ N[k].pk \in PKs /\ t.dir[N[k].pk] = [shard |-> s, rowID |-> A[k]]
                           /\ shardOf[N[k].part] = s
  BY SMTT(40), <1>0, <1>4, RowParts
<1>6. ASSUME NEW i \in 1..Len(N), NEW j \in 1..Len(N), N[i].pk = N[j].pk PROVE i = j
  <2>1. [shard |-> s, rowID |-> A[i]] = [shard |-> s, rowID |-> A[j]]
    BY <1>5, <1>6
  <2>2. [shard |-> s, rowID |-> A[i]].rowID = [shard |-> s, rowID |-> A[j]].rowID
    BY <2>1
  <2>3. A[i] = A[j]
    BY <2>2
  <2> QED BY <1>4, <2>3
<1>7. /\ u.rows = [t.rows EXCEPT ![s] = N]
      /\ u.live = t.live
      /\ u = [rows |-> u.rows, live |-> u.live, tails |-> u.tails, tailsDead |-> u.tailsDead, dir |-> u.dir]
      /\ u.tails = [q \in Parts |-> IF shardOf[q] = s THEN Picked(Numbers(N), OfPart(N, q)) ELSE t.tails[q]]
      /\ u.tailsDead = [q \in Parts |-> IF shardOf[q] = s THEN 0 ELSE t.tailsDead[q]]
      /\ u.dir = [p \in PKs |-> IF OfKey(N, p) = {} THEN t.dir[p]
                                ELSE [shard |-> s, rowID |-> CHOOSE i \in OfKey(N, p) : TRUE]]
  BY <1>2 DEF Compacts
<1>8. /\ \A v \in Shard : u.rows[v] = IF v = s THEN N ELSE t.rows[v]
      /\ \A v \in Shard : u.live[v] = t.live[v]
  BY <1>1, <1>7
<1>9. ASSUME NEW k \in 1..Len(N) PROVE u.dir[N[k].pk] = [shard |-> s, rowID |-> k]
  <2> DEFINE p == N[k].pk
  <2>1. k \in OfKey(N, p) /\ \A i \in OfKey(N, p) : i = k
    BY <1>6 DEF OfKey
  <2>2. OfKey(N, p) # {} /\ (CHOOSE i \in OfKey(N, p) : TRUE) = k
    BY <2>1
  <2>3. p \in PKs
    BY <1>5
  <2> HIDE DEF p
  <2>4. u.dir[p] = [shard |-> s, rowID |-> k]
    BY <1>7, <2>2, <2>3
  <2> QED BY <2>4 DEF p
<1>10. ASSUME NEW p \in PKs, \A k \in 1..Len(N) : N[k].pk # p
       PROVE  /\ u.dir[p] = t.dir[p] /\ (t.dir[p] # None => t.dir[p].shard # s)
  <2>1. OfKey(N, p) = {}
    BY <1>10 DEF OfKey
  <2>2. ASSUME t.dir[p] # None, t.dir[p].shard = s PROVE FALSE
    <3> DEFINE n == t.dir[p].rowID
    <3>1. n \in 1..Len(R) /\ R[n] # None /\ R[n].pk = p
      <4>1. /\ t.dir[p].rowID \in 1..Len(t.rows[t.dir[p].shard])
            /\ At(t, t.dir[p]) = t.rows[t.dir[p].shard][t.dir[p].rowID]
            /\ At(t, t.dir[p]).pk = p /\ At(t, t.dir[p]) # None
        BY <1>0, <2>2, LocParts
      <4> QED BY <2>2, <4>1
    <3>2. n \in Places(R)
      BY <3>1 DEF Places
    <3>3. PICK k \in 1..Len(N) : A[k] = n
      BY <1>4, <3>2
    <3>4. N[k] = R[n]
      BY <1>4, <3>3
    <3> QED BY <1>10, <3>1, <3>4
  <2> QED BY <1>7, <2>1, <2>2
<1>11. ASSUME NEW q \in Parts, shardOf[q] = s
       PROVE  u.tails[q] \in Seq(Number) /\ u.tailsDead[q] = 0 /\ Listing(N, u.tails[q], 0, q)
  <2>1. u.tails[q] = Picked(Numbers(N), OfPart(N, q)) /\ u.tailsDead[q] = 0
    BY <1>7, <1>11
  <2>2. OfPart(N, q) = {i \in 1..Len(N) : N[i].part = q}
    BY DEF OfPart
  <2> QED BY <1>4, <2>1, <2>2, ListingRebuilds
<1>12. ASSUME NEW q \in Parts, shardOf[q] # s
       PROVE  u.tails[q] = t.tails[q] /\ u.tailsDead[q] = t.tailsDead[q]
  BY <1>7, <1>12
<1>13. u \in TableT
  <2>1. u.rows \in [Shard -> Seq(Cell)]
    BY <1>1, <1>4, <1>7
  <2>2. ASSUME NEW q \in Parts PROVE u.tails[q] \in Seq(Number) /\ u.tailsDead[q] \in Nat
    <3>1. CASE shardOf[q] = s
      BY <1>11, <3>1
    <3>2. CASE shardOf[q] # s
      <4>1. u.tails[q] = t.tails[q] /\ u.tailsDead[q] = t.tailsDead[q]
        BY <1>12, <3>2
      <4> QED BY <1>1, <4>1
    <3> QED BY <3>1, <3>2
  <2>3. u.tails \in [Parts -> Seq(Number)]
    <3>1. u.tails = [q \in Parts |-> u.tails[q]]
      BY <1>7
    <3> QED BY <2>2, <3>1
  <2>4. u.tailsDead \in [Parts -> Nat]
    <3>1. u.tailsDead = [q \in Parts |-> u.tailsDead[q]]
      BY <1>7
    <3> QED BY <2>2, <3>1
  <2>5. ASSUME NEW p \in PKs PROVE u.dir[p] \in Loc \cup {None}
    <3>1. CASE \E k \in 1..Len(N) : N[k].pk = p
      <4>1. PICK k \in 1..Len(N) : N[k].pk = p
        BY <3>1
      <4>2. u.dir[p] = [shard |-> s, rowID |-> k] /\ k \in Nat \ {0}
        BY <1>4, <1>9, <4>1
      <4> QED BY <4>2 DEF Loc
    <3>2. CASE ~ \E k \in 1..Len(N) : N[k].pk = p
      BY <1>1, <1>10, <3>2
    <3> QED BY <3>1, <3>2
  <2>6. u.dir \in [PKs -> Loc \cup {None}]
    <3>1. u.dir = [p \in PKs |-> u.dir[p]]
      BY <1>7
    <3> QED BY <2>5, <3>1
  <2> QED BY <1>1, <1>7, <2>1, <2>3, <2>4, <2>6 DEF TableT
<1>14. Placed(u)
  <2>1. ASSUME NEW p \in PKs, u.dir[p] # None PROVE At(u, u.dir[p]) # None /\ At(u, u.dir[p]).pk = p
    <3>1. CASE \E k \in 1..Len(N) : N[k].pk = p
      <4>1. PICK k \in 1..Len(N) : N[k].pk = p
        BY <3>1
      <4>2. u.dir[p] = [shard |-> s, rowID |-> k]
        BY <1>9, <4>1
      <4>3. At(u, [shard |-> s, rowID |-> k]) = N[k]
        BY <1>4, <1>8 DEF At
      <4> QED BY <1>4, <4>1, <4>2, <4>3
    <3>2. CASE ~ \E k \in 1..Len(N) : N[k].pk = p
      <4> DEFINE e == t.dir[p]
      <4>1. u.dir[p] = e /\ e # None /\ e.shard # s
        BY <1>10, <2>1, <3>2
      <4>2. e.shard \in Shard /\ At(t, e) # None /\ At(t, e).pk = p
        BY <1>0, <4>1, LocParts
      <4> HIDE DEF e
      <4>3. At(u, e) = At(t, e)
        BY <1>8, <4>1, <4>2 DEF At
      <4> QED BY <4>1, <4>2, <4>3
    <3> QED BY <3>1, <3>2
  <2>2. ASSUME NEW v \in Shard, NEW i \in 1..Len(u.rows[v]), u.rows[v][i] # None
        PROVE  u.dir[u.rows[v][i].pk] = [shard |-> v, rowID |-> i] /\ shardOf[u.rows[v][i].part] = v
    <3>1. CASE v = s
      BY <1>5, <1>8, <1>9, <3>1
    <3>2. CASE v # s
      <4> DEFINE x == t.rows[v][i]
      <4>1. u.rows[v] = t.rows[v] /\ i \in 1..Len(t.rows[v]) /\ x # None
        BY <1>8, <2>2, <3>2
      <4>2. x.pk \in PKs /\ t.dir[x.pk] = [shard |-> v, rowID |-> i] /\ shardOf[x.part] = v
        BY <1>0, <4>1, RowParts
      <4> HIDE DEF x
      <4>3. \A k \in 1..Len(N) : N[k].pk # x.pk
        <5> SUFFICES ASSUME NEW k \in 1..Len(N), N[k].pk = x.pk PROVE FALSE
          OBVIOUS
        <5>1. [shard |-> v, rowID |-> i] = [shard |-> s, rowID |-> A[k]]
          BY <1>5, <4>2
        <5>2. [shard |-> v, rowID |-> i].shard = [shard |-> s, rowID |-> A[k]].shard
          BY <5>1
        <5> QED BY <3>2, <5>2
      <4>4. u.dir[x.pk] = t.dir[x.pk]
        BY <1>10, <4>2, <4>3
      <4> QED BY <4>1, <4>2, <4>4 DEF x
    <3> QED BY <3>1, <3>2
  <2> QED BY <2>1, <2>2 DEF Placed
<1>15. Listed(u)
  <2> SUFFICES ASSUME NEW v \in Parts
               PROVE  Listing(u.rows[shardOf[v]], u.tails[v], u.tailsDead[v], v)
    BY DEF Listed
  <2>1. CASE shardOf[v] = s
    BY <1>8, <1>11, <2>1
  <2>2. CASE shardOf[v] # s
    <3>1. Listing(t.rows[shardOf[v]], t.tails[v], t.tailsDead[v], v) /\ shardOf[v] \in Shard
      BY <1>0, <1>1 DEF Listed
    <3> QED BY <1>8, <1>12, <2>2, <3>1
  <2> QED BY <2>1, <2>2
<1>16. LiveFits(u)
  <2> SUFFICES ASSUME NEW v \in Shard PROVE u.live[v] = Cardinality(Places(u.rows[v]))
    BY DEF LiveFits
  <2>1. t.live[v] = Cardinality(Places(t.rows[v]))
    BY <1>0 DEF LiveFits
  <2> QED BY <1>4, <1>8, <2>1
<1> QED BY <1>13, <1>14, <1>15, <1>16 DEF Sound, u

----------------------------------------------------------------------------
(* The statements that change several rows.                                *)

Tables == {t \in TableT : Sound(t)}
Purge == INSTANCE LeftFold WITH op <- deleteRow, V <- Tables, E <- PKs

\* The keys of a set in some order.
LEMMA SetListed ==
    ASSUME NEW S \in SUBSET PKs
    PROVE  SetToSeq(S) \in Seq(PKs)
<1>1. IsFiniteSet(S) /\ Cardinality(S) \in Nat
  BY FiniteKeys, FS_Subset, FS_CardinalityType DEF FiniteKeys
<1>2. \E f \in [1..Cardinality(S) -> S] : IsInjective(f)
  <2>1. ExistsBijection(1..Cardinality(S), S)
    BY <1>1, FS_CardinalityType
  <2>2. PICK f \in Bijection(1..Cardinality(S), S) : TRUE
    BY <2>1 DEF ExistsBijection
  <2>3. f \in [1..Cardinality(S) -> S] /\ IsInjective(f)
    BY <2>2 DEF Bijection, Injection, IsInjective
  <2> QED BY <2>3
<1>3. SetToSeq(S) \in [1..Cardinality(S) -> S]
  BY <1>2 DEF SetToSeq
<1> QED BY <1>1, <1>3

\* DELETE WHERE: the matching keys, one after the other.
LEMMA PurgeIsSound ==
    ASSUME NEW t, Sound(t), NEW S \in SUBSET PKs
    PROVE  Sound(FoldLeft(deleteRow, t, SetToSeq(S)))
<1>1. SetToSeq(S) \in Seq(PKs)
  BY SetListed
<1>2. Purge!Closed
  BY DeleteRowIsSound DEF Purge!Closed, Tables, Sound
<1>3. t \in Tables
  BY DEF Tables, Sound
<1>4. Purge!Run(t, SetToSeq(S)) \in Tables
  BY <1>1, <1>2, <1>3, Purge!RunType
<1>5. FoldLeft(deleteRow, t, SetToSeq(S)) = Purge!Run(t, SetToSeq(S))
  BY DEF Purge!Run, FoldLeft, Purge!FoldLeft, MapThenFoldSet, Purge!MapThenFoldSet,
         Max, Purge!Max
<1> QED BY <1>4, <1>5 DEF Tables

\* A staged statement that the walk accepts.
LEMMA ApplyIsSound ==
    ASSUME NEW t, Sound(t), NEW m \in Staged, Accepts(t, m)
    PROVE  Sound(Apply(t, m))
<1>1. CASE m.kind = "ins"
  <2>1. m.pk \in PKs /\ m.part \in Parts
    BY <1>1 DEF Staged
  <2> QED BY <1>1, <2>1, AddRowIsSound DEF Apply, Accepts
<1>2. CASE m.kind # "ins"
  <2>1. m.pk \in PKs
    BY DEF Staged
  <2> QED BY <1>2, <2>1, DeleteRowIsSound DEF Apply
<1> QED BY <1>1, <1>2

----------------------------------------------------------------------------
(* The state.                                                              *)

LockTypes ==
    /\ dirLock \in [w : Holders \cup {None}, r : SUBSET Holders]
    /\ shardLock \in [Shard -> Holders \cup {None}]
    /\ wr \in [Writers -> [kind : {"idle", "insert", "delete", "deleteWhere", "updateWhere", "update", "txn"},
                           pk : PKs \cup {None}, loc : Loc \cup {None}]]
    /\ sw \in [pc : {"check", "dense", "queued", "locked"}, shard : Shard]

\* PartitionInv says that the table is sound.
LEMMA TableIsSound ==
    PartitionInv <=> Sound(Table) /\ LockTypes /\ LocksAgree
<1>1. /\ Table.rows = rows /\ Table.live = live /\ Table.tails = tails
      /\ Table.tailsDead = tailsDead /\ Table.dir = dir
      /\ Table = [rows |-> rows, live |-> live, tails |-> tails, tailsDead |-> tailsDead, dir |-> dir]
  BY DEF Table
<1>2. TypeOK <=> Table \in TableT /\ LockTypes
  BY <1>1 DEF TypeOK, LockTypes, TableT, Cell, Number
<1>3. DirectoryAgrees <=> Placed(Table)
  BY <1>1 DEF DirectoryAgrees, Placed
<1>4. TailsAreExact <=> Listed(Table)
  BY <1>1 DEF TailsAreExact, Listed, Listing
<1>5. LiveIsExact <=> LiveFits(Table)
  BY <1>1 DEF LiveIsExact, LiveFits, Places
<1> QED BY <1>2, <1>3, <1>4, <1>5 DEF PartitionInv, Sound

\* The table after a store.
LEMMA StoreIs ==
    ASSUME NEW t, Sound(t), Store(t)
    PROVE  Sound(Table)' /\ Table' = t
<1>1. t = [rows |-> t.rows, live |-> t.live, tails |-> t.tails, tailsDead |-> t.tailsDead, dir |-> t.dir]
  BY TableParts DEF Sound
<1>2. Table' = t
  BY <1>1 DEF Store, Table
<1> QED BY <1>2

\* The table after a step that stores nothing.
LEMMA NoStoreIs ==
    ASSUME UNCHANGED dataVars
    PROVE  Table' = Table /\ dir' = dir /\ (Sound(Table) => Sound(Table)')
<1>1. Table' = Table /\ dir' = dir
  BY DEF dataVars, Table
<1> QED BY <1>1

\* The empty table, before any statement.
LEMMA PartitionInit == Init => PartitionInv
<1> SUFFICES ASSUME Init PROVE PartitionInv
  OBVIOUS
<1> USE DEF Init
<1>1. LockTypes
  <2>1. 1 \in Shard
    BY PartitionBounds DEF PartitionBounds, Shard
  <2> QED BY <2>1 DEF LockTypes, Idle
<1>2. LocksAgree
  BY DEF LocksAgree, Idle
<1>3. Table \in TableT
  BY DEF Table, TableT
<1>4. /\ \A s \in Shard : Table.rows[s] = <<>> /\ Table.live[s] = 0
      /\ \A q \in Parts : Table.tails[q] = <<>> /\ Table.tailsDead[q] = 0
      /\ \A p \in PKs : Table.dir[p] = None
  BY DEF Table
<1>5. Placed(Table)
  BY <1>4 DEF Placed
<1>6. Listed(Table)
  <2> SUFFICES ASSUME NEW q \in Parts PROVE Listing(Table.rows[shardOf[q]], Table.tails[q], Table.tailsDead[q], q)
    BY DEF Listed
  <2>1. Table.rows[shardOf[q]] = <<>> /\ Table.tails[q] = <<>> /\ Table.tailsDead[q] = 0
    BY <1>4, PartitionRouting DEF PartitionRouting
  <2>2. ToSet(<<>>) = {}
    BY DEF ToSet
  <2>3. Cardinality({}) = 0
    BY FS_EmptySet
  <2>5. Listing(<<>>, <<>>, 0, q)
    <3> DEFINE e == <<>>
    <3>1. Len(e) = 0 /\ ToSet(e) = {} /\ {i \in ToSet(e) : e[i] = None} = {}
      BY <2>2
    <3> HIDE DEF e
    <3>2. Listing(e, e, 0, q)
      BY <2>3, <3>1 DEF Listing
    <3> QED BY <3>2 DEF e
  <2> QED BY <2>1, <2>5
<1>7. LiveFits(Table)
  <2>1. Places(<<>>) = {}
    BY DEF Places
  <2>2. Cardinality(Places(<<>>)) = 0
    BY <2>1, FS_EmptySet
  <2> QED BY <1>4, <2>2 DEF LiveFits
<1> QED BY <1>1, <1>2, <1>3, <1>5, <1>6, <1>7, TableIsSound DEF Sound

----------------------------------------------------------------------------
(* The steps.                                                              *)

\* A writer ends: what it held is free again, and nobody else notices.
LEMMA DoneLocks ==
    ASSUME LockTypes, LocksAgree, NEW w \in Writers, Done(w), dir' = dir \/ dirLock.w = w
    PROVE  LockTypes' /\ LocksAgree'
<1> USE DEF Holders
<1>1. /\ wr' = [wr EXCEPT ![w] = Idle] /\ sw' = sw
      /\ dirLock' = [w |-> IF dirLock.w = w THEN None ELSE dirLock.w, r |-> dirLock.r \ {w}]
      /\ shardLock' = [s \in Shard |-> IF shardLock[s] = w THEN None ELSE shardLock[s]]
  BY DEF Done, Release
<1>2. w # None /\ w # Sweeper /\ w \in Holders
  BY NoneIsApart, SweeperIsApart DEF NoneIsApart, SweeperIsApart
<1>3. LockTypes'
  <2>1. dirLock' \in [w : Holders \cup {None}, r : SUBSET Holders]
    BY <1>1 DEF LockTypes
  <2>2. shardLock' \in [Shard -> Holders \cup {None}]
    BY <1>1 DEF LockTypes
  <2>3. wr' \in [Writers -> [kind : {"idle", "insert", "delete", "deleteWhere", "updateWhere", "update", "txn"},
                             pk : PKs \cup {None}, loc : Loc \cup {None}]]
    BY <1>1 DEF LockTypes, Idle
  <2> QED BY <1>1, <2>1, <2>2, <2>3 DEF LockTypes
<1>4. dirLock'.w = (IF dirLock.w = w THEN None ELSE dirLock.w) /\ dirLock'.r = dirLock.r \ {w}
  BY <1>1
<1>5. wr'[w].kind = "idle" /\ \A v \in Writers : v # w => wr'[v] = wr[v]
  BY <1>1 DEF LockTypes, Idle
<1>6. dirLock'.w # None => dirLock'.r = {}
  BY <1>4 DEF LocksAgree
<1>7. sw'.pc = "locked" => dirLock'.w = Sweeper
  BY <1>1, <1>2, <1>4 DEF LocksAgree
<1>8. ASSUME NEW v \in Writers
      PROVE  /\ wr'[v].kind \in {"insert", "delete", "deleteWhere", "txn"} => dirLock'.w = v
             /\ wr'[v].kind = "update" => /\ v \in dirLock'.r
                                          /\ wr'[v].pk # None /\ wr'[v].loc # None
                                          /\ wr'[v].loc = dir'[wr'[v].pk]
  <2>1. CASE v = w
    BY <1>5, <2>1
  <2>2. CASE v # w
    <3>1. wr'[v] = wr[v]
      BY <1>5, <2>2
    <3>2. wr[v].kind \in {"insert", "delete", "deleteWhere", "txn"} => dirLock'.w = v
      BY <1>4, <2>2 DEF LocksAgree
    <3>3. wr[v].kind = "update" => /\ v \in dirLock'.r /\ dir' = dir
                                   /\ wr[v].pk # None /\ wr[v].loc # None
                                   /\ wr[v].loc = dir[wr[v].pk]
      <4> SUFFICES ASSUME wr[v].kind = "update"
                   PROVE  /\ v \in dirLock'.r /\ dir' = dir
                          /\ wr[v].pk # None /\ wr[v].loc # None
                          /\ wr[v].loc = dir[wr[v].pk]
        OBVIOUS
      <4>1. v \in dirLock.r /\ wr[v].pk # None /\ wr[v].loc # None /\ wr[v].loc = dir[wr[v].pk]
        BY DEF LocksAgree
      <4>2. dirLock.w # w
        BY <1>2, <4>1 DEF LocksAgree
      <4> QED BY <1>4, <2>2, <4>1, <4>2
    <3> QED BY <3>1, <3>2, <3>3
  <2> QED BY <2>1, <2>2
<1> QED BY <1>3, <1>6, <1>7, <1>8 DEF LocksAgree

\* What a finished statement stores, and with which lock.
Changes(w) == NoStore \/ (dirLock.w = w /\ \E t : Sound(t) /\ Store(t))

\* INSERT.
LEMMA InsertChanges ==
    ASSUME Sound(Table), LocksAgree, NEW w \in Writers, NEW p \in PKs, NEW q \in Parts, insertPartitioned(w, p, q)
    PROVE  Changes(w)
<1>1. dirLock.w = w
  BY DEF insertPartitioned, LocksAgree
<1>2. CASE NoStore
  BY <1>2 DEF NoStore, Changes
<1>3. CASE dir[p] = None /\ Store(addRow(Table, p, q))
  <2>1. Table.dir[p] = None
    BY <1>3 DEF Table
  <2>2. Sound(addRow(Table, p, q))
    BY <2>1, AddRowIsSound
  <2> QED BY <1>1, <1>3, <2>2 DEF Changes
<1> QED BY <1>2, <1>3 DEF insertPartitioned, Journaled

\* DELETE by primary key.
LEMMA DeleteChanges ==
    ASSUME Sound(Table), LocksAgree, NEW w \in Writers, NEW p \in PKs, deleteByPKJournaledPartitioned(w, p)
    PROVE  Changes(w)
<1>1. dirLock.w = w
  BY DEF deleteByPKJournaledPartitioned, LocksAgree
<1>2. CASE NoStore
  BY <1>2 DEF NoStore, Changes
<1>3. CASE dir[p] # None /\ Store(removeRow(Table, p))
  <2>1. Table.dir[p] # None
    BY <1>3 DEF Table
  <2>2. Sound(removeRow(Table, p))
    BY <2>1, RemoveRowIsSound
  <2> QED BY <1>1, <1>3, <2>2 DEF Changes
<1> QED BY <1>2, <1>3 DEF deleteByPKJournaledPartitioned, Journaled

\* DELETE WHERE.
LEMMA PurgeChanges ==
    ASSUME Sound(Table), LocksAgree, NEW w \in Writers, NEW match \in SUBSET PKs, deleteWhereAllPartitioned(w, match)
    PROVE  Changes(w)
<1> DEFINE S == {p \in match : dir[p] # None}
           t == FoldLeft(deleteRow, Table, SetToSeq(S))
<1>1. dirLock.w = w
  BY DEF deleteWhereAllPartitioned, LocksAgree
<1>2. Sound(t)
  BY PurgeIsSound
<1>3. NoStore \/ Store(t)
  BY DEF deleteWhereAllPartitioned, Journaled
<1> HIDE DEF t
<1> QED BY <1>1, <1>2, <1>3 DEF NoStore, Changes

\* COMMIT.
LEMMA CommitChanges ==
    ASSUME Sound(Table), LocksAgree, NEW w \in Writers, NEW m1 \in Staged, NEW m2 \in Staged, commit(w, m1, m2)
    PROVE  Changes(w)
<1> DEFINE t1 == Apply(Table, m1)
           t2 == Apply(t1, m2)
<1>1. dirLock.w = w
  BY DEF commit, LocksAgree
<1>2. NoStore \/ (Accepts(Table, m1) /\ Accepts(t1, m2) /\ Store(t2))
  BY DEF commit, Journaled
<1>3. CASE Accepts(Table, m1) /\ Accepts(t1, m2) /\ Store(t2)
  <2>1. Sound(t1)
    BY <1>3, ApplyIsSound
  <2>2. Accepts(t1, m2) /\ Store(t2)
    BY <1>3
  <2> HIDE DEF t1
  <2>3. Sound(t2)
    BY <2>1, <2>2, ApplyIsSound
  <2> HIDE DEF t2
  <2> QED BY <1>1, <2>2, <2>3 DEF Changes
<1> QED BY <1>2, <1>3 DEF NoStore, Changes

\* Any statement.
LEMMA FinishChanges ==
    ASSUME Sound(Table), LocksAgree, NEW w \in Writers, Finish(w)
    PROVE  Changes(w)
<1>1. ASSUME NEW p \in PKs, NEW q \in Parts, insertPartitioned(w, p, q) PROVE Changes(w)
  BY <1>1, InsertChanges
<1>2. ASSUME NEW p \in PKs, deleteByPKJournaledPartitioned(w, p) PROVE Changes(w)
  BY <1>2, DeleteChanges
<1>3. ASSUME NEW match \in SUBSET PKs, deleteWhereAllPartitioned(w, match) PROVE Changes(w)
  BY <1>3, PurgeChanges
<1>4. ASSUME NEW m1 \in Staged, NEW m2 \in Staged, commit(w, m1, m2) PROVE Changes(w)
  BY <1>4, CommitChanges
<1>5. ASSUME updateWhereAll(w) \/ updateByPKJournaledPartitioned(w) PROVE Changes(w)
  BY <1>5 DEF updateWhereAll, updateByPKJournaledPartitioned, NoStore, Changes
<1> QED BY <1>1, <1>2, <1>3, <1>4, <1>5 DEF Finish

\* The last step of any statement.
LEMMA FinishStep ==
    ASSUME PartitionInv, NEW w \in Writers, Finish(w)
    PROVE  PartitionInv'
<1>1. Sound(Table) /\ LockTypes /\ LocksAgree
  BY TableIsSound
<1>2. Done(w)
  BY DEF Finish, insertPartitioned, deleteByPKJournaledPartitioned, deleteWhereAllPartitioned,
         updateWhereAll, updateByPKJournaledPartitioned, commit
<1>3. Changes(w)
  BY <1>1, FinishChanges
<1>4. Sound(Table)' /\ (dir' = dir \/ dirLock.w = w)
  BY <1>1, <1>3, StoreIs, NoStoreIs DEF Changes, NoStore
<1>5. LockTypes' /\ LocksAgree'
  BY <1>1, <1>2, <1>4, DoneLocks
<1>6. (Sound(Table) /\ LockTypes /\ LocksAgree => PartitionInv)'
  BY TableIsSound, PTL
<1> QED BY <1>4, <1>5, <1>6

\* A writer starts or takes a shard's lock: the table is not touched.
LEMMA WaitLocks ==
    ASSUME LockTypes, LocksAgree, NEW w \in Writers, dir' = dir,
           \/ \E kind \in {"insert", "delete", "deleteWhere", "txn"} : LockDir(w, kind)
           \/ StartUpdateWhere(w) \/ LockShard(w)
           \/ Sound(Table) /\ \E p \in PKs : UpdateLookup(w, p)
    PROVE  LockTypes' /\ LocksAgree'
<1> USE DEF Holders
<1>1. w # None /\ w # Sweeper /\ w \in Holders
  BY NoneIsApart, SweeperIsApart DEF NoneIsApart, SweeperIsApart
<1>2. ASSUME NEW kind \in {"insert", "delete", "deleteWhere", "txn"}, LockDir(w, kind)
      PROVE  LockTypes' /\ LocksAgree'
  <2>1. /\ dirLock.w = None /\ dirLock.r = {}
        /\ dirLock' = [dirLock EXCEPT !.w = w]
        /\ wr' = [wr EXCEPT ![w] = [Idle EXCEPT !.kind = kind]]
        /\ shardLock' = shardLock /\ sw' = sw
    BY <1>2 DEF LockDir, FreeDir
  <2>2. LockTypes'
    BY <1>1, <2>1 DEF LockTypes, Idle
  <2>3. dirLock'.w = w /\ dirLock'.r = {}
    BY <2>1 DEF LockTypes
  <2>4. wr'[w].kind = kind /\ \A v \in Writers : v # w => wr'[v] = wr[v]
    BY <2>1 DEF LockTypes, Idle
  <2>5. sw.pc # "locked"
    BY <2>1, NoneIsApart DEF LocksAgree, NoneIsApart
  <2>6. \A v \in Writers : v # w => wr[v].kind \notin {"insert", "delete", "deleteWhere", "txn", "update"}
    BY <2>1, NoneIsApart DEF LocksAgree, NoneIsApart
  <2>7. \A v \in Writers : wr'[v].kind = "update" => v # w /\ wr[v].kind = "update"
    BY <2>4
  <2> QED BY <1>1, <2>1, <2>2, <2>3, <2>4, <2>5, <2>6, <2>7 DEF LocksAgree
<1>3. ASSUME StartUpdateWhere(w) PROVE LockTypes' /\ LocksAgree'
  <2>1. /\ wr' = [wr EXCEPT ![w] = [Idle EXCEPT !.kind = "updateWhere"]]
        /\ shardLock' = shardLock /\ sw' = sw /\ dirLock' = dirLock
    BY <1>3 DEF StartUpdateWhere, lockVars
  <2>2. LockTypes'
    BY <1>1, <2>1 DEF LockTypes, Idle
  <2>3. wr'[w].kind = "updateWhere" /\ \A v \in Writers : v # w => wr'[v] = wr[v]
    BY <2>1 DEF LockTypes, Idle
  <2> QED BY <2>1, <2>2, <2>3 DEF LocksAgree
<1>4. ASSUME LockShard(w) PROVE LockTypes' /\ LocksAgree'
  <2>1. /\ \E s \in Shard : shardLock' = [shardLock EXCEPT ![s] = w]
        /\ wr' = wr /\ sw' = sw /\ dirLock' = dirLock
    BY <1>4 DEF LockShard
  <2>2. LockTypes'
    BY <1>1, <2>1 DEF LockTypes
  <2> QED BY <2>1, <2>2 DEF LocksAgree
<1>5. ASSUME Sound(Table), NEW p \in PKs, UpdateLookup(w, p) PROVE LockTypes' /\ LocksAgree'
  <2>1. /\ dirLock.w = None /\ dir[p] # None
        /\ dirLock' = [dirLock EXCEPT !.r = @ \cup {w}]
        /\ wr' = [wr EXCEPT ![w] = [kind |-> "update", pk |-> p, loc |-> dir[p]]]
        /\ shardLock' = shardLock /\ sw' = sw
    BY <1>5 DEF UpdateLookup, ReadableDir
  <2>2. dir[p] \in Loc /\ p # None
    <3>1. Table \in TableT /\ Table.dir = dir
      BY <1>5 DEF Sound, Table
    <3> QED BY <2>1, <3>1, TableParts, NoneIsApart DEF NoneIsApart
  <2>3. LockTypes'
    <3>1. wr' \in [Writers -> [kind : {"idle", "insert", "delete", "deleteWhere", "updateWhere", "update", "txn"},
                             pk : PKs \cup {None}, loc : Loc \cup {None}]]
      BY <2>1, <2>2 DEF LockTypes
    <3>2. dirLock' \in [w : Holders \cup {None}, r : SUBSET Holders]
      BY <1>1, <2>1 DEF LockTypes
    <3> QED BY <2>1, <3>1, <3>2 DEF LockTypes
  <2>4. dirLock'.w = None /\ dirLock'.r = dirLock.r \cup {w}
    BY <2>1 DEF LockTypes
  <2>5. /\ wr'[w].kind = "update" /\ wr'[w].pk = p /\ wr'[w].loc = dir[p]
        /\ \A v \in Writers : v # w => wr'[v] = wr[v]
    BY <2>1 DEF LockTypes
  <2>6. sw'.pc = "locked" => dirLock'.w = Sweeper
    BY <2>1, <2>4 DEF LocksAgree
  <2>7. ASSUME NEW v \in Writers
        PROVE  /\ wr'[v].kind \in {"insert", "delete", "deleteWhere", "txn"} => dirLock'.w = v
               /\ wr'[v].kind = "update" => /\ v \in dirLock'.r
                                            /\ wr'[v].pk # None /\ wr'[v].loc # None
                                            /\ wr'[v].loc = dir'[wr'[v].pk]
    <3>1. CASE v = w
      BY <2>1, <2>2, <2>4, <2>5, <3>1
    <3>2. CASE v # w
      <4>1. wr'[v] = wr[v]
        BY <2>5, <3>2
      <4> QED BY <2>1, <2>4, <4>1 DEF LocksAgree
    <3> QED BY <3>1, <3>2
  <2> QED BY <2>3, <2>4, <2>6, <2>7 DEF LocksAgree
<1> QED BY <1>2, <1>3, <1>4, <1>5

\* A writer's steps before the last, and all steps of the readers.
LEMMA QuietStep ==
    ASSUME PartitionInv,
           \/ \E w \in Writers : \/ \E kind \in {"insert", "delete", "deleteWhere", "txn"} : LockDir(w, kind)
                                 \/ StartUpdateWhere(w) \/ LockShard(w)
                                 \/ \E p \in PKs : UpdateLookup(w, p)
           \/ \E r \in Readers : Reader(r)
           \/ UNCHANGED vars
    PROVE  PartitionInv'
<1>1. Sound(Table) /\ LockTypes /\ LocksAgree
  BY TableIsSound
<1>2. ASSUME (\E r \in Readers : Reader(r)) \/ UNCHANGED vars
      PROVE  UNCHANGED <<dataVars, lockVars, wr, sw>>
  <2>1. ASSUME NEW r \in Readers, Reader(r) PROVE UNCHANGED <<dataVars, lockVars, wr, sw>>
    BY <2>1, Zenon DEF Reader, getByPKPartitioned, scanShardsBatched, scanAll, Begin, Pass, Snap, Lookup, ReadRow,
          Return, ReaderStep
  <2>2. UNCHANGED vars => UNCHANGED <<dataVars, lockVars, wr, sw>>
    BY DEF vars
  <2> QED BY <1>2, <2>1, <2>2
<1>3. UNCHANGED dataVars
  <2>1. ASSUME NEW w \in Writers, \/ \E kind \in {"insert", "delete", "deleteWhere", "txn"} : LockDir(w, kind)
                                  \/ StartUpdateWhere(w) \/ LockShard(w)
                                  \/ \E p \in PKs : UpdateLookup(w, p)
        PROVE  UNCHANGED dataVars
    BY <2>1, Zenon DEF LockDir, StartUpdateWhere, LockShard, UpdateLookup, NoStore
  <2> QED BY <1>2, <2>1
<1>4. Sound(Table)' /\ dir' = dir
  BY <1>1, <1>3, NoStoreIs
<1>5. LockTypes' /\ LocksAgree'
  <2>1. CASE UNCHANGED <<dataVars, lockVars, wr, sw>>
    BY <1>1, <1>4, <2>1 DEF LockTypes, LocksAgree, lockVars
  <2>2. ASSUME NEW w \in Writers, \/ \E kind \in {"insert", "delete", "deleteWhere", "txn"} : LockDir(w, kind)
                                  \/ StartUpdateWhere(w) \/ LockShard(w)
                                  \/ \E p \in PKs : UpdateLookup(w, p)
        PROVE  LockTypes' /\ LocksAgree'
    BY <1>1, <1>4, <2>2, WaitLocks
  <2> QED BY <1>2, <2>1, <2>2
<1>6. (Sound(Table) /\ LockTypes /\ LocksAgree => PartitionInv)'
  BY TableIsSound, PTL
<1> QED BY <1>4, <1>5, <1>6

\* The sweeper.
LEMMA SweepStep ==
    ASSUME PartitionInv, Sweep
    PROVE  PartitionInv'
<1> USE DEF Holders
<1>1. Sound(Table) /\ LockTypes /\ LocksAgree
  BY TableIsSound
<1>2. Sweeper # None /\ Sweeper \in Holders /\ Sweeper \notin Writers
  BY NoneIsApart, SweeperIsApart DEF NoneIsApart, SweeperIsApart
<1>3. sw \in [pc : {"check", "dense", "queued", "locked"}, shard : Shard] /\ sw.shard \in Shard /\ NextShard(sw.shard) \in Shard
  <2>1. sw.shard \in Shard
    BY <1>1 DEF LockTypes
  <2> QED BY <1>1, <2>1, PartitionBounds DEF LockTypes, NextShard, Shard, PartitionBounds
<1>6. (Sound(Table) /\ LockTypes /\ LocksAgree => PartitionInv)'
  BY TableIsSound, PTL
<1>4. CASE PreCheck \/ QueueForDir
  <2>1. /\ sw' \in [pc : {"check", "dense", "queued", "locked"}, shard : Shard] /\ sw'.pc # "locked"
        /\ dirLock' = dirLock /\ shardLock' = shardLock /\ wr' = wr /\ UNCHANGED dataVars
    <3>1. CASE PreCheck
      BY <1>3, <3>1 DEF PreCheck, lockVars, NoStore
    <3>2. CASE QueueForDir
      BY <1>3, <3>2 DEF QueueForDir, lockVars, NoStore
    <3> QED BY <1>4, <3>1, <3>2
  <2>2. Sound(Table)' /\ dir' = dir
    BY <1>1, <2>1, NoStoreIs
  <2>3. LockTypes' /\ LocksAgree'
    BY <1>1, <2>1, <2>2 DEF LockTypes, LocksAgree
  <2> QED BY <1>6, <2>2, <2>3
<1>5. CASE SweepLockDir
  <2>1. /\ sw' = [sw EXCEPT !.pc = "locked"] /\ dirLock.w = None /\ dirLock.r = {}
        /\ dirLock' = [dirLock EXCEPT !.w = Sweeper]
        /\ shardLock' = shardLock /\ wr' = wr /\ UNCHANGED dataVars
    BY <1>5 DEF SweepLockDir, NoStore, FreeDir
  <2>2. Sound(Table)' /\ dir' = dir
    BY <1>1, <2>1, NoStoreIs
  <2>3. dirLock'.w = Sweeper /\ dirLock'.r = {}
    BY <1>1, <2>1 DEF LockTypes
  <2>4. \A v \in Writers : wr[v].kind \notin {"insert", "delete", "deleteWhere", "txn", "update"}
    BY <1>1, <2>1, NoneIsApart DEF LocksAgree, NoneIsApart
  <2>5. LockTypes'
    BY <1>1, <1>2, <1>3, <2>1 DEF LockTypes
  <2>6. LocksAgree'
    BY <2>1, <2>3, <2>4 DEF LocksAgree
  <2> QED BY <1>6, <2>2, <2>5, <2>6
<1>7. CASE compactShardIfDense
  <2> DEFINE t == IF shardDense(Table, sw.shard) THEN compactShardLocked(Table, sw.shard) ELSE Table
  <2>1. /\ sw.pc = "locked" /\ Store(t) /\ wr' = wr /\ sw' = [pc |-> "check", shard |-> NextShard(sw.shard)]
        /\ dirLock' = [w |-> IF dirLock.w = Sweeper THEN None ELSE dirLock.w, r |-> dirLock.r \ {Sweeper}]
        /\ shardLock' = [s \in Shard |-> IF shardLock[s] = Sweeper THEN None ELSE shardLock[s]]
    BY <1>7 DEF compactShardIfDense, Release
  <2>2. Sound(t)
    BY <1>1, <1>3, CompactIsSound
  <2> HIDE DEF t
  <2>3. Sound(Table)'
    BY <2>1, <2>2, StoreIs
  <2>4. dirLock.w = Sweeper /\ dirLock.r = {}
    BY <1>1, <1>2, <2>1 DEF LocksAgree
  <2>5. \A v \in Writers : wr[v].kind \notin {"insert", "delete", "deleteWhere", "txn", "update"}
    BY <1>1, <1>2, <2>4 DEF LocksAgree
  <2>6. LockTypes'
    BY <1>1, <1>3, <2>1 DEF LockTypes
  <2>7. LocksAgree'
    BY <2>1, <2>4, <2>5 DEF LocksAgree
  <2> QED BY <1>6, <2>3, <2>6, <2>7
<1> QED BY <1>4, <1>5, <1>7 DEF Sweep

\* The arena, the directory, the partition lists, the dead counts and the live count
\* agree after every insert, delete, move, prune and compaction, and whoever changes
\* them has the directory for itself (partition_store.go, store_compact.go, txn.go).
THEOREM TableStaysSound == Spec => []PartitionInv
<1>1. Init => PartitionInv
  BY PartitionInit
<1>2. PartitionInv /\ [Next]_vars => PartitionInv'
  <2> SUFFICES ASSUME PartitionInv, [Next]_vars PROVE PartitionInv'
    OBVIOUS
  <2>1. ASSUME NEW w \in Writers, Finish(w) PROVE PartitionInv'
    BY <2>1, FinishStep
  <2> QED BY <2>1, QuietStep, SweepStep, Zenon DEF Next, Writer
<1> QED BY <1>1, <1>2, PTL DEF Spec

\* An UPDATE by primary key finds its row where the directory said, although it
\* waited for the shard in between (updateByPKJournaledPartitioned).
THEOREM UpdateNeverMisses == Spec => []UpdateFindsItsRow
<1>1. PartitionInv => UpdateFindsItsRow
  <2> SUFFICES ASSUME PartitionInv, NEW w \in Writers, wr[w].kind = "update"
               PROVE  At(Table, wr[w].loc) # None /\ At(Table, wr[w].loc).pk = wr[w].pk
    BY DEF UpdateFindsItsRow
  <2>1. wr[w].pk # None /\ wr[w].loc # None /\ wr[w].loc = dir[wr[w].pk] /\ wr[w].pk \in PKs
    BY DEF PartitionInv, LocksAgree, TypeOK
  <2> QED BY <2>1 DEF PartitionInv, DirectoryAgrees
<1> QED BY <1>1, TableStaysSound, PTL

----------------------------------------------------------------------------
(* The table implements PartitionMap.                                      *)

\* S are positions up to n.
Within(S, n) == n \in Nat /\ S \in SUBSET (1..n)

\* h leads from the positions S to the positions Z, upwards.
Leads(h, S, Z) ==
    /\ \A x \in S : h[x] \in Z
    /\ \A x, y \in S : x < y => h[x] < h[y]
    /\ \A z \in Z : \E x \in S : h[x] = z

\* And to the same elements.
Follows(l, S, h, k, Z) == Leads(h, S, Z) /\ \A x \in S : l[x] = k[h[x]]

\* Two lists show the same where one's positions lead to the other's.
LEMMA PickedSame ==
    ASSUME NEW S, NEW n, Within(S, n), NEW Z, NEW m, Within(Z, m), NEW h, NEW l, NEW k, Follows(l, S, h, k, Z)
    PROVE  Picked(l, S) = Picked(k, Z)
<1>0. n \in Nat /\ S \in SUBSET (1..n) /\ m \in Nat /\ Z \in SUBSET (1..m)
  BY DEF Within
<1> DEFINE A == Ascending(S)
           c == Cardinality(S)
           g == [i \in 1..c |-> h[A[i]]]
<1>1. /\ c \in Nat /\ A \in [1..c -> S] /\ IsFiniteSet(S)
      /\ \A i, j \in 1..c : i < j => A[i] < A[j]
      /\ \A i, j \in 1..c : A[i] = A[j] => i = j
      /\ \A x \in S : \E i \in 1..c : A[i] = x
  BY <1>0, AscendingFacts
<1>2. IsFiniteSet(Z) /\ Z \in SUBSET Nat
  <2>1. IsFiniteSet(Z)
    BY <1>0, AscendingFacts
  <2> QED BY <1>0, <2>1
<1>3. \A i \in 1..c : A[i] = Nth(S, i)
  BY DEF Ascending
<1> HIDE DEF A, c
<1>4. \A i \in 1..c : A[i] \in S
  BY <1>1
<1>5. g \in [1..c -> Z] /\ \A i, j \in 1..c : i < j => g[i] < g[j]
  BY <1>1, <1>4 DEF Follows, Leads
<1>6. \A z \in Z : \E i \in 1..c : g[i] = z
  <2> SUFFICES ASSUME NEW z \in Z PROVE \E i \in 1..c : g[i] = z
    OBVIOUS
  <2>1. PICK x \in S : h[x] = z
    BY DEF Follows, Leads
  <2>2. PICK i \in 1..c : A[i] = x
    BY <1>1
  <2> QED BY <2>1, <2>2
<1>7. \A i \in 1..c : g[i] = h[A[i]]
  OBVIOUS
<1> HIDE DEF g
<1>8. \A i, j \in 1..c : g[i] = g[j] => i = j
  <2> SUFFICES ASSUME NEW i \in 1..c, NEW j \in 1..c, g[i] = g[j], i # j PROVE FALSE
    OBVIOUS
  <2>1. i < j \/ j < i
    BY <1>1
  <2>2. g[i] \in Nat /\ g[j] \in Nat
    BY <1>2, <1>5
  <2> QED BY <1>5, <2>1, <2>2
<1>9. Cardinality(Z) = c
  <2>1. g \in Bijection(1..c, Z)
    BY <1>5, <1>6, <1>8 DEF Bijection, Injection, Surjection, IsInjective
  <2>2. IsFiniteSet(1..c) /\ Cardinality(1..c) = c
    BY <1>1, FS_Interval
  <2> QED BY <2>1, <2>2, FS_Bijection DEF ExistsBijection
<1>10. Climbs(g, Z)
  BY <1>5, <1>9 DEF Climbs
<1>11. \A i \in 1..c : Nth(Z, i) = g[i]
  BY <1>1, <1>2, <1>9, <1>10, ClimbRanks
<1>12. \A i \in 1..c : l[Nth(S, i)] = k[Nth(Z, i)]
  <2> SUFFICES ASSUME NEW i \in 1..c PROVE l[Nth(S, i)] = k[Nth(Z, i)]
    OBVIOUS
  <2>1. A[i] \in S /\ Nth(S, i) = A[i] /\ Nth(Z, i) = h[A[i]]
    BY <1>3, <1>4, <1>7, <1>11
  <2> QED BY <2>1 DEF Follows
<1> QED BY <1>9, <1>12 DEF Picked, c

\* k has what l has at the positions S, and e after the first n.
Extends(k, l, S, n, e) == (\A x \in S : k[x] = l[x]) /\ k[n + 1] = e
AddsLast(a, e, b) == b = Append(a, e)

\* A position past the others is picked last.
LEMMA PickedLast ==
    ASSUME NEW S, NEW n, Within(S, n), NEW l, NEW k, NEW e, Extends(k, l, S, n, e)
    PROVE  AddsLast(Picked(l, S), e, Picked(k, S \cup {n + 1}))
<1>0. n \in Nat /\ S \in SUBSET (1..n)
  BY DEF Within
<1> DEFINE A == Ascending(S)
           c == Cardinality(S)
           Z == S \cup {n + 1}
           g == [i \in 1..(c + 1) |-> IF i = c + 1 THEN n + 1 ELSE A[i]]
<1>1. /\ c \in Nat /\ A \in [1..c -> S] /\ IsFiniteSet(S)
      /\ \A i, j \in 1..c : i < j => A[i] < A[j]
  BY <1>0, AscendingFacts
<1>2. Z \in SUBSET Nat /\ IsFiniteSet(Z) /\ Cardinality(Z) = c + 1
  <2>1. n + 1 \notin S /\ n + 1 \in Nat
    BY <1>0
  <2> QED BY <1>0, <1>1, <2>1, FS_AddElement
<1>3. \A i \in 1..c : A[i] = Nth(S, i) /\ A[i] \in S
  BY <1>1 DEF Ascending
<1> HIDE DEF A, c
<1>4. g \in [1..(c + 1) -> Z]
  BY <1>1, <1>3
<1>5. \A i, j \in 1..(c + 1) : i < j => g[i] < g[j]
  <2> SUFFICES ASSUME NEW i \in 1..(c + 1), NEW j \in 1..(c + 1), i < j PROVE g[i] < g[j]
    OBVIOUS
  <2>1. i \in 1..c /\ g[i] = A[i]
    BY <1>1
  <2>4. A[i] \in 1..n
    BY <1>0, <1>3, <2>1
  <2>2. CASE j = c + 1
    BY <1>0, <1>1, <2>1, <2>2, <2>4
  <2>3. CASE j # c + 1
    BY <1>1, <2>1, <2>3
  <2> QED BY <2>2, <2>3
<1>6. g[c + 1] = n + 1 /\ \A i \in 1..c : g[i] = A[i]
  BY <1>1
<1> HIDE DEF g, Z
<1>7. Climbs(g, Z)
  BY <1>2, <1>4, <1>5 DEF Climbs
<1>8. \A i \in 1..(c + 1) : Nth(Z, i) = g[i]
  BY <1>1, <1>2, <1>7, ClimbRanks
<1>9. Picked(k, Z) = [i \in 1..(c + 1) |-> k[g[i]]]
  BY <1>2, <1>8 DEF Picked
<1>10. Picked(l, S) = [i \in 1..c |-> l[A[i]]]
  BY <1>3 DEF Picked, c
<1>11. Append([i \in 1..c |-> l[A[i]]], e) = [i \in 1..(c + 1) |-> k[g[i]]]
  <2> DEFINE f == [i \in 1..c |-> l[A[i]]]
  <2>1. Len(f) = c /\ Append(f, e) = [i \in 1..(c + 1) |-> IF i = c + 1 THEN e ELSE f[i]]
    BY <1>1
  <2>2. ASSUME NEW i \in 1..(c + 1) PROVE k[g[i]] = IF i = c + 1 THEN e ELSE f[i]
    <3>1. CASE i = c + 1
      BY <1>6, <3>1 DEF Extends
    <3>2. CASE i # c + 1
      <4>1. i \in 1..c
        BY <1>1, <3>2
      <4>2. g[i] = A[i] /\ A[i] \in S
        BY <1>3, <1>6, <4>1
      <4> QED BY <3>2, <4>1, <4>2 DEF Extends
    <3> QED BY <3>1, <3>2
  <2> QED BY <2>1, <2>2
<1> QED BY <1>9, <1>10, <1>11 DEF Z, AddsLast

\* What a partition shows: the keys of its rows in the order of the arena.
KeysOf(R) == [i \in 1..Len(R) |-> IF R[i] = None THEN None ELSE R[i].pk]
RowsOf(R, q) == {i \in 1..Len(R) : R[i] # None /\ R[i].part = q}
Shown(R, q) == Picked(KeysOf(R), RowsOf(R, q))

\* A scan through the partition's list returns what the arena has of it, in its order.
LEMMA ScanIs ==
    ASSUME NEW t, Sound(t), NEW q \in Parts
    PROVE  scanPartition(t, q) = Shown(t.rows[shardOf[q]], q)
<1> DEFINE s == shardOf[q]
           R == t.rows[s]
           L == t.tails[q]
           l == listed(t, q)
           S == {k \in 1..Len(l) : l[k] # None}
           Z == RowsOf(R, q)
<1>1. /\ t \in TableT /\ s \in Shard /\ R \in Seq(Cell) /\ Len(R) \in Nat /\ L \in Seq(Number)
      /\ Len(L) \in Nat /\ Listing(R, L, t.tailsDead[q], q)
  BY TableParts DEF Sound, Listed
<1>2. Len(l) = Len(L) /\ \A k \in 1..Len(L) : l[k] = keyAt(t, [shard |-> s, rowID |-> L[k]])
  BY <1>1 DEF listed
<1>3. scanPartition(t, q) = Picked(l, S)
  BY DEF scanPartition, Kept, Picked, IsRow
<1> HIDE DEF l
<1>4. \A k \in 1..Len(L) : L[k] \in 1..Len(R) /\ L[k] \in ToSet(L)
  BY <1>1, ListingPlaces, ToSetIs
<1>5. \A k \in 1..Len(L) : l[k] = KeysOf(R)[L[k]] /\ (l[k] = None <=> R[L[k]] = None)
  <2> SUFFICES ASSUME NEW k \in 1..Len(L)
               PROVE  l[k] = KeysOf(R)[L[k]] /\ (l[k] = None <=> R[L[k]] = None)
    OBVIOUS
  <2>1. At(t, [shard |-> s, rowID |-> L[k]]) = R[L[k]]
    BY <1>4 DEF At
  <2>2. l[k] = IF R[L[k]] = None THEN None ELSE R[L[k]].pk
    BY <1>2, <2>1 DEF keyAt
  <2>3. R[L[k]] # None => R[L[k]].pk # None
    <3>1. R[L[k]] \in Cell
      BY <1>1, <1>4
    <3> QED BY <3>1, NoneIsApart DEF Cell, Live, NoneIsApart
  <2> QED BY <1>4, <2>2, <2>3 DEF KeysOf
<1>6. S = {k \in 1..Len(L) : R[L[k]] # None}
  BY <1>2, <1>5
<1>7. Leads(L, S, Z)
  <2>1. \A k \in S : L[k] \in Z
    BY <1>1, <1>4, <1>6 DEF Listing, RowsOf
  <2>2. \A j, k \in S : j < k => L[j] < L[k]
    BY <1>1, <1>6 DEF Listing
  <2>3. ASSUME NEW i \in Z PROVE \E k \in S : L[k] = i
    <3>1. i \in ToSet(L) /\ R[i] # None
      BY <1>1 DEF Listing, RowsOf
    <3>2. PICK k \in 1..Len(L) : L[k] = i
      BY <1>1, <3>1, ToSetIs
    <3> QED BY <1>6, <3>1, <3>2
  <2> HIDE DEF L, S, Z
  <2> QED BY <2>1, <2>2, <2>3 DEF Leads
<1>8. Within(S, Len(L)) /\ Within(Z, Len(R)) /\ \A k \in S : l[k] = KeysOf(R)[L[k]]
  BY <1>1, <1>5, <1>6 DEF RowsOf, Within
<1>9. Picked(l, S) = Picked(KeysOf(R), Z)
  <2> HIDE DEF L, S, Z, R
  <2>1. Follows(l, S, L, KeysOf(R), Z)
    BY <1>7, <1>8 DEF Follows
  <2> QED BY <1>8, <2>1, PickedSame
<1> QED BY <1>3, <1>9 DEF Shown

\* A row is appended to its arena: its partition shows it last, no other shows it.
LEMMA ShownAdds ==
    ASSUME NEW R \in Seq(Cell), NEW x \in Live, NEW q
    PROVE  Shown(Append(R, x), q) = IF x.part = q THEN Append(Shown(R, q), x.pk) ELSE Shown(R, q)
<1> DEFINE n == Len(R)
           R1 == Append(R, x)
           K == KeysOf(R)
           K1 == KeysOf(R1)
           Z == RowsOf(R, q)
           Z1 == RowsOf(R1, q)
<1>1. n \in Nat /\ Len(R1) = n + 1 /\ R1[n + 1] = x /\ \A i \in 1..n : R1[i] = R[i]
  OBVIOUS
<1>2. x # None /\ 1..(n + 1) = (1..n) \cup {n + 1}
  BY <1>1, NoneIsApart DEF NoneIsApart
<1> HIDE DEF R1, n
<1>3. Len(R) = n
  BY DEF n
<1>4. Within(Z, n) /\ Z \subseteq 1..n /\ (\A i \in Z : K1[i] = K[i]) /\ K1[n + 1] = x.pk
  BY <1>1, <1>2, <1>3 DEF KeysOf, RowsOf, Within
<1>5. Z1 = IF x.part = q THEN Z \cup {n + 1} ELSE Z
  <2>1. \A i \in 1..(n + 1) : i \in Z1 <=> R1[i] # None /\ R1[i].part = q
    BY <1>1 DEF RowsOf
  <2>2. Z1 \subseteq 1..(n + 1)
    BY <1>1 DEF RowsOf
  <2>3. \A i \in 1..n : i \in Z1 <=> i \in Z
    BY <1>1, <1>2, <1>3, <2>1 DEF RowsOf
  <2>4. n + 1 \in Z1 <=> x.part = q
    BY <1>1, <1>2, <2>1
  <2> HIDE DEF Z, Z1
  <2>5. CASE x.part = q
    BY <1>2, <1>4, <2>2, <2>3, <2>4, <2>5
  <2>6. CASE x.part # q
    <3>1. n + 1 \notin Z1
      BY <2>4, <2>6
    <3>2. Z1 \subseteq 1..n
      BY <1>2, <2>2, <3>1
    <3> QED BY <1>4, <2>3, <2>6, <3>2
  <2> QED BY <2>5, <2>6
<1> HIDE DEF K, K1, Z, Z1
<1>6. CASE x.part = q
  <2>1. Picked(K1, Z \cup {n + 1}) = Append(Picked(K, Z), x.pk)
    <3> DEFINE e == x.pk
    <3>1. Extends(K1, K, Z, n, e)
      BY <1>4 DEF Extends
    <3> HIDE DEF e
    <3>2. AddsLast(Picked(K, Z), e, Picked(K1, Z \cup {n + 1}))
      BY <1>4, <3>1, PickedLast
    <3> QED BY <3>2 DEF e, AddsLast
  <2> QED BY <1>5, <1>6, <2>1 DEF Shown, K, K1, Z, Z1, R1
<1>7. CASE x.part # q
  <2>1. Picked(K1, Z) = Picked(K, Z)
    <3> DEFINE h == [i \in Z |-> i]
    <3>1. Follows(K1, Z, h, K, Z)
      BY <1>4 DEF Follows, Leads
    <3> HIDE DEF h
    <3> QED BY <1>4, <3>1, PickedSame
  <2> QED BY <1>5, <1>7, <2>1 DEF Shown, K, K1, Z, Z1, R1
<1> QED BY <1>6, <1>7

\* A list without the members of D.
Without(l, D) == Picked(l, {k \in 1..Len(l) : l[k] \notin D})

\* Dropping from what was picked is picking less.
LEMMA PickedWithout ==
    ASSUME NEW E, NEW l \in Seq(E), NEW S \in SUBSET (1..Len(l)), NEW D
    PROVE  Without(Picked(l, S), D) = Picked(l, {i \in S : l[i] \notin D})
<1> DEFINE K == Picked(l, S)
           A == Ascending(S)
           c == Cardinality(S)
           X == {k \in 1..Len(K) : K[k] \notin D}
           Y == {i \in S : l[i] \notin D}
<1>1. /\ Len(K) = c /\ c \in Nat
      /\ \A k \in 1..c : A[k] \in S /\ K[k] = l[A[k]]
      /\ \A i, j \in 1..c : i < j => A[i] < A[j]
      /\ \A x \in S : \E k \in 1..c : A[k] = x /\ K[k] = l[x]
  <2>1. IsPicked(K, A, c, l, S)
    BY PickedFacts
  <2> QED BY <2>1 DEF IsPicked
<1> HIDE DEF K, A, c
<1>2. X = {k \in 1..c : K[k] \notin D}
  BY <1>1
<1>3. Within(X, c) /\ Within(Y, Len(l))
  <2>1. X \in SUBSET (1..c)
    BY <1>2
  <2>2. Len(l) \in Nat
    OBVIOUS
  <2>3. Y \subseteq S
    OBVIOUS
  <2> HIDE DEF X, Y
  <2>4. Y \in SUBSET (1..Len(l))
    BY <2>3
  <2> QED BY <1>1, <2>1, <2>2, <2>4 DEF Within
<1>4. Leads(A, X, Y)
  <2>1. \A k \in X : A[k] \in Y
    BY <1>1, <1>2
  <2>2. \A i, j \in X : i < j => A[i] < A[j]
    BY <1>1, <1>2
  <2>3. \A y \in Y : \E k \in X : A[k] = y
    BY <1>1, <1>2
  <2> HIDE DEF X, Y
  <2> QED BY <2>1, <2>2, <2>3 DEF Leads
<1>5. Follows(K, X, A, l, Y)
  BY <1>1, <1>2, <1>4 DEF Follows
<1>6. Picked(K, X) = Picked(l, Y)
  <2> HIDE DEF X, Y
  <2> QED BY <1>3, <1>5, PickedSame
<1> QED BY <1>6 DEF Without, K

\* The keys of an arena are a list, and a partition's rows some of its places.
LEMMA KeysAndRows ==
    ASSUME NEW R \in Seq(Cell), NEW q
    PROVE  /\ KeysOf(R) \in Seq(PKs \cup {None}) /\ Len(KeysOf(R)) = Len(R) /\ Len(R) \in Nat
           /\ \A i \in 1..Len(R) : R[i] # None => KeysOf(R)[i] = R[i].pk /\ R[i].pk \in PKs /\ R[i] \in Live
           /\ RowsOf(R, q) \in SUBSET (1..Len(R)) /\ RowsOf(R, q) \in SUBSET (1..Len(KeysOf(R)))
<1>1. Len(R) \in Nat /\ \A i \in 1..Len(R) : R[i] \in Cell
  OBVIOUS
<1>2. \A i \in 1..Len(R) : R[i] # None => R[i] \in Live /\ R[i].pk \in PKs
  BY <1>1 DEF Cell, Live
<1>3. KeysOf(R) \in Seq(PKs \cup {None}) /\ Len(KeysOf(R)) = Len(R)
      /\ \A i \in 1..Len(R) : KeysOf(R)[i] = IF R[i] = None THEN None ELSE R[i].pk
  BY <1>1, <1>2 DEF KeysOf
<1>4. RowsOf(R, q) \in SUBSET (1..Len(R))
  BY DEF RowsOf
<1> QED BY <1>1, <1>2, <1>3, <1>4

\* What a partition shows without the keys of D.
LEMMA ShownWithout ==
    ASSUME NEW R \in Seq(Cell), NEW q, NEW D
    PROVE  Without(Shown(R, q), D) = Picked(KeysOf(R), {i \in RowsOf(R, q) : R[i].pk \notin D})
<1> DEFINE K == KeysOf(R)
           Z == RowsOf(R, q)
<1>1. K \in Seq(PKs \cup {None}) /\ Z \in SUBSET (1..Len(K)) /\ \A i \in Z : K[i] = R[i].pk
  BY KeysAndRows DEF RowsOf
<1> HIDE DEF K, Z
<1>2. Without(Picked(K, Z), D) = Picked(K, {i \in Z : K[i] \notin D})
  BY <1>1, PickedWithout
<1>3. {i \in Z : K[i] \notin D} = {i \in Z : R[i].pk \notin D}
  BY <1>1
<1> QED BY <1>2, <1>3 DEF Shown, K, Z

\* Dropping twice is dropping both.
LEMMA WithoutTwice ==
    ASSUME NEW R \in Seq(Cell), NEW q, NEW C, NEW D
    PROVE  Without(Without(Shown(R, q), C), D) = Without(Shown(R, q), C \cup D)
<1> DEFINE K == KeysOf(R)
           Z == {i \in RowsOf(R, q) : R[i].pk \notin C}
<1>1. K \in Seq(PKs \cup {None}) /\ Z \in SUBSET (1..Len(K)) /\ \A i \in Z : K[i] = R[i].pk
  BY KeysAndRows DEF RowsOf
<1>2. Without(Shown(R, q), C) = Picked(K, Z) /\ Without(Shown(R, q), C \cup D) = Picked(K, {i \in RowsOf(R, q) : R[i].pk \notin C \cup D})
  BY ShownWithout
<1>3. {i \in RowsOf(R, q) : R[i].pk \notin C \cup D} = {i \in Z : K[i] \notin D}
  BY <1>1
<1> HIDE DEF K, Z
<1>4. Without(Picked(K, Z), D) = Picked(K, {i \in Z : K[i] \notin D})
  BY <1>1, PickedWithout
<1> QED BY <1>2, <1>3, <1>4

\* Two arenas show the same of a partition if they have its rows in the same order.
LEMMA ShownSame ==
    ASSUME NEW R \in Seq(Cell), NEW R1 \in Seq(Cell), NEW Z, NEW Z1, NEW h,
           Within(Z, Len(R)), Within(Z1, Len(R1)), Leads(h, Z1, Z), \A i \in Z1 : R1[i] = R[h[i]] /\ R1[i] # None
    PROVE  Picked(KeysOf(R1), Z1) = Picked(KeysOf(R), Z)
<1> DEFINE K == KeysOf(R)
           K1 == KeysOf(R1)
<1>1. ASSUME NEW i \in Z1 PROVE K1[i] = K[h[i]]
  <2>1. i \in 1..Len(R1) /\ h[i] \in 1..Len(R) /\ R1[i] = R[h[i]] /\ R1[i] # None
    BY DEF Within, Leads
  <2> QED BY <2>1 DEF KeysOf
<1>2. Follows(K1, Z1, h, K, Z)
  BY <1>1 DEF Follows
<1> HIDE DEF K, K1
<1> QED BY <1>2, PickedSame DEF K, K1

\* The row of p is at n and nowhere else.
OnlyAt(R, n, p) ==
    /\ n \in 1..Len(R) /\ R[n] # None /\ R[n].pk = p
    /\ \A i \in 1..Len(R) : R[i] # None /\ R[i].pk = p => i = n

Tombstoned(R1, R, n) == R1 = [R EXCEPT ![n] = None]

\* A row is tombstoned: no partition shows its key, and else nothing changes.
LEMMA ShownBuries ==
    ASSUME NEW R \in Seq(Cell), NEW n, NEW p, OnlyAt(R, n, p), NEW R1, Tombstoned(R1, R, n), NEW q
    PROVE  Shown(R1, q) = Without(Shown(R, q), {p})
<1> DEFINE Z1 == RowsOf(R1, q)
           h == [i \in Z1 |-> i]
<1>0. /\ n \in 1..Len(R) /\ R[n] # None /\ R[n].pk = p
      /\ \A i \in 1..Len(R) : R[i] # None /\ R[i].pk = p => i = n
  BY DEF OnlyAt
<1>1. /\ R1 \in Seq(Cell) /\ Len(R1) = Len(R) /\ Len(R) \in Nat /\ R1[n] = None
      /\ \A i \in 1..Len(R) : i # n => R1[i] = R[i]
  BY <1>0 DEF Cell, Tombstoned
<1>2. Z1 = {i \in RowsOf(R, q) : R[i].pk \notin {p}}
  BY <1>0, <1>1 DEF RowsOf
<1>3. Within(Z1, Len(R)) /\ Within(Z1, Len(R1)) /\ \A i \in Z1 : R1[i] = R[i] /\ R1[i] # None
  BY <1>1 DEF RowsOf, Within
<1>4. Leads(h, Z1, Z1) /\ \A i \in Z1 : R1[i] = R[h[i]] /\ R1[i] # None
  BY <1>3 DEF Leads
<1> HIDE DEF h, Z1
<1>5. Picked(KeysOf(R1), Z1) = Picked(KeysOf(R), Z1)
  BY <1>1, <1>3, <1>4, ShownSame
<1>6. Without(Shown(R, q), {p}) = Picked(KeysOf(R), Z1)
  BY <1>2, ShownWithout
<1>7. Shown(R1, q) = Picked(KeysOf(R1), Z1)
  BY DEF Shown, Z1
<1> QED BY <1>5, <1>6, <1>7

\* Dropping a key that the arena lacks changes nothing.
LEMMA ShownLacks ==
    ASSUME NEW R \in Seq(Cell), NEW p, NEW q, \A i \in 1..Len(R) : R[i] # None => R[i].pk # p
    PROVE  Without(Shown(R, q), {p}) = Shown(R, q)
<1>1. {i \in RowsOf(R, q) : R[i].pk \notin {p}} = RowsOf(R, q)
  BY DEF RowsOf
<1> QED BY <1>1, ShownWithout DEF Shown

\* A compaction drops the tombstones only.
LEMMA ShownPacked ==
    ASSUME NEW R \in Seq(Cell), NEW q
    PROVE  Shown(Packed(R), q) = Shown(R, q)
<1> DEFINE N == Packed(R)
           Z == RowsOf(R, q)
           Z1 == RowsOf(N, q)
<1>1. PICK A : Packs(N, A, R)
  BY PackedFacts
<1>2. /\ N \in Seq(Live) /\ Len(N) \in Nat
      /\ \A k \in 1..Len(N) : A[k] \in 1..Len(R) /\ N[k] = R[A[k]] /\ N[k] \in Live /\ R[A[k]] # None
      /\ \A i, j \in 1..Len(N) : i < j => A[i] < A[j]
      /\ \A x \in 1..Len(R) : R[x] # None => \E k \in 1..Len(N) : A[k] = x
  BY <1>1 DEF Packs, Places
<1> HIDE DEF N
<1>3. N \in Seq(Cell)
  BY <1>2 DEF Cell
<1>4. Within(Z, Len(R)) /\ Within(Z1, Len(N))
  BY <1>3, KeysAndRows DEF Within
<1>5. Leads(A, Z1, Z)
  <2>1. \A k \in Z1 : A[k] \in Z
    BY <1>2 DEF RowsOf
  <2>2. \A i, j \in Z1 : i < j => A[i] < A[j]
    BY <1>2 DEF RowsOf
  <2>3. ASSUME NEW x \in Z PROVE \E k \in Z1 : A[k] = x
    <3>1. x \in 1..Len(R) /\ R[x] # None /\ R[x].part = q
      BY DEF RowsOf
    <3>2. PICK k \in 1..Len(N) : A[k] = x
      BY <1>2, <3>1
    <3>3. N[k] = R[x] /\ k \in Z1
      BY <1>2, <3>1, <3>2 DEF RowsOf
    <3> QED BY <3>2, <3>3
  <2> HIDE DEF Z, Z1
  <2> QED BY <2>1, <2>2, <2>3 DEF Leads
<1>6. \A i \in Z1 : N[i] = R[A[i]] /\ N[i] # None
  BY <1>2 DEF RowsOf
<1> HIDE DEF Z, Z1
<1>7. Picked(KeysOf(N), Z1) = Picked(KeysOf(R), Z)
  BY <1>3, <1>4, <1>5, <1>6, ShownSame
<1> QED BY <1>7 DEF Shown, N, Z, Z1

\* What a table shows.
View(t) == [q \in Parts |-> Shown(t.rows[shardOf[q]], q)]
Less(v, D) == [q \in Parts |-> Without(v[q], D)]

\* An insert adds the key to the end of its partition.
LEMMA AddRowShows ==
    ASSUME NEW t \in TableT, NEW p \in PKs, NEW q \in Parts
    PROVE  View(addRow(t, p, q)) = [View(t) EXCEPT ![q] = Append(@, p)]
<1> DEFINE u == addRow(t, p, q)
           x == [pk |-> p, part |-> q]
           s == shardOf[q]
<1>1. x \in Live /\ x.pk = p /\ x.part = q
  BY DEF Live
<1>2. u.rows = [t.rows EXCEPT ![s] = Append(t.rows[s], x)]
  <2> DEFINE r == [t.rows EXCEPT ![s] = Append(t.rows[s], x)]
  <2>1. u = [rows |-> r, live |-> [t.live EXCEPT ![s] = t.live[s] + 1],
             tails |-> [t.tails EXCEPT ![q] = Append(t.tails[q], Len(t.rows[s]) + 1)],
             tailsDead |-> t.tailsDead,
             dir |-> [t.dir EXCEPT ![p] = [shard |-> s, rowID |-> Len(t.rows[s]) + 1]]]
    BY AddRowIs
  <2> HIDE DEF r, u
  <2>2. u.rows = r
    BY <2>1
  <2> QED BY <2>2 DEF r
<1>3. t.rows \in [Shard -> Seq(Cell)] /\ (\A v \in Parts : shardOf[v] \in Shard) /\ s \in Shard
  BY TableParts
<1> HIDE DEF u, x
<1>4. ASSUME NEW v \in Parts
      PROVE  Shown(u.rows[shardOf[v]], v) = IF v = q THEN Append(Shown(t.rows[s], q), p) ELSE Shown(t.rows[shardOf[v]], v)
  <2>1. CASE shardOf[v] = s
    <3>1. u.rows[shardOf[v]] = Append(t.rows[s], x) /\ t.rows[s] \in Seq(Cell)
      BY <1>2, <1>3, <2>1
    <3>2. Shown(Append(t.rows[s], x), v) = IF x.part = v THEN Append(Shown(t.rows[s], v), x.pk) ELSE Shown(t.rows[s], v)
      BY <1>1, <3>1, ShownAdds
    <3> QED BY <1>1, <2>1, <3>1, <3>2
  <2>2. CASE shardOf[v] # s
    <3>1. u.rows[shardOf[v]] = t.rows[shardOf[v]] /\ v # q
      BY <1>2, <1>3, <2>2
    <3> QED BY <3>1
  <2> QED BY <2>1, <2>2
<1>5. View(u) = [v \in Parts |-> IF v = q THEN Append(Shown(t.rows[s], q), p) ELSE Shown(t.rows[shardOf[v]], v)]
  BY <1>4 DEF View
<1> QED BY <1>5 DEF View, u

\* A key with a row is in the directory.
HasRow(t, p) == \E s \in Shard : \E i \in 1..Len(t.rows[s]) : t.rows[s][i] # None /\ t.rows[s][i].pk = p

\* A key with a row in the arena has an entry in the directory.
LEMMA RowKeyed ==
    ASSUME NEW t \in TableT, Placed(t), NEW p, HasRow(t, p)
    PROVE  t.dir[p] # None
<1>1. PICK s \in Shard : \E i \in 1..Len(t.rows[s]) : t.rows[s][i] # None /\ t.rows[s][i].pk = p
  BY DEF HasRow
<1>2. PICK i \in 1..Len(t.rows[s]) : t.rows[s][i] # None /\ t.rows[s][i].pk = p
  BY <1>1
<1> DEFINE loc == [shard |-> s, rowID |-> i]
<1>3. t.dir[p] = loc
  BY <1>2 DEF Placed
<1>4. i \in Nat \ {0}
  BY TableParts
<1>5. loc \in Loc
  BY <1>4 DEF Loc
<1> HIDE DEF loc
<1> QED BY <1>3, <1>5, NoneIsApart DEF NoneIsApart

\* A removal takes the key out of the list it is in.
LEMMA RemoveRowShows ==
    ASSUME NEW t, Sound(t), NEW p \in PKs, t.dir[p] # None
    PROVE  View(removeRow(t, p)) = Less(View(t), {p})
<1> DEFINE u == removeRow(t, p)
           s == t.dir[p].shard
           n == t.dir[p].rowID
           R == t.rows[s]
           R1 == [R EXCEPT ![n] = None]
<1>1. t \in TableT /\ Placed(t) /\ Listed(t)
  BY DEF Sound
<1>2. u.rows = [t.rows EXCEPT ![s] = R1]
  <2> DEFINE q == At(t, t.dir[p]).part
  <2>1. \/ Buries(t, p, s, R1, q, t.tails[q], t.tailsDead[q] + 1, u)
        \/ Buries(t, p, s, R1, q, Picked(t.tails[q], Alive(R1, t.tails[q])), 0, u)
    BY <1>1, RemoveRowIs
  <2> HIDE DEF u, s, n, R1
  <2> QED BY <2>1 DEF Buries
<1>3. /\ s \in Shard /\ n \in 1..Len(R) /\ R[n] # None /\ R[n].pk = p
      /\ t.dir[p] = [shard |-> s, rowID |-> n]
  BY <1>1, LocParts
<1>4. t.rows \in [Shard -> Seq(Cell)] /\ (\A v \in Parts : shardOf[v] \in Shard) /\ R \in Seq(Cell)
  BY <1>1, <1>3, TableParts
<1>5. \A v \in Shard : \A i \in 1..Len(t.rows[v]) : t.rows[v][i] # None /\ t.rows[v][i].pk = p => v = s /\ i = n
  <2> SUFFICES ASSUME NEW v \in Shard, NEW i \in 1..Len(t.rows[v]), t.rows[v][i] # None, t.rows[v][i].pk = p
               PROVE  v = s /\ i = n
    OBVIOUS
  <2>1. t.dir[p] = [shard |-> v, rowID |-> i]
    BY <1>1, RowParts
  <2> QED BY <2>1
<1> HIDE DEF u, s, n
<1>6. ASSUME NEW v \in Parts
      PROVE  Shown(u.rows[shardOf[v]], v) = Without(Shown(t.rows[shardOf[v]], v), {p})
  <2>1. CASE shardOf[v] = s
    <3>1. u.rows[shardOf[v]] = R1 /\ t.rows[shardOf[v]] = R
      BY <1>2, <1>3, <1>4, <2>1
    <3>2. OnlyAt(R, n, p)
      BY <1>3, <1>5 DEF OnlyAt
    <3>4. Tombstoned(R1, R, n)
      BY DEF Tombstoned
    <3> HIDE DEF R1, R
    <3>3. Shown(R1, v) = Without(Shown(R, v), {p})
      BY <1>4, <3>2, <3>4, ShownBuries
    <3> QED BY <3>1, <3>3
  <2>2. CASE shardOf[v] # s
    <3> DEFINE Q == t.rows[shardOf[v]]
    <3>1. u.rows[shardOf[v]] = Q /\ Q \in Seq(Cell) /\ shardOf[v] \in Shard
      BY <1>2, <1>3, <1>4, <2>2
    <3>2. \A i \in 1..Len(Q) : Q[i] # None => Q[i].pk # p
      BY <1>5, <2>2, <3>1
    <3> HIDE DEF Q
    <3>3. Without(Shown(Q, v), {p}) = Shown(Q, v)
      BY <3>1, <3>2, ShownLacks
    <3> QED BY <3>1, <3>3 DEF Q
  <2> QED BY <2>1, <2>2
<1>7. View(u) = [v \in Parts |-> Without(Shown(t.rows[shardOf[v]], v), {p})]
  BY <1>6 DEF View
<1> QED BY <1>7 DEF View, Less, u

\* So does a DELETE, which finds nothing to take if the key is absent.
LEMMA DeleteRowShows ==
    ASSUME NEW t, Sound(t), NEW p \in PKs
    PROVE  View(deleteRow(t, p)) = Less(View(t), {p})
<1>1. CASE t.dir[p] # None
  BY <1>1, RemoveRowShows DEF deleteRow
<1>2. CASE t.dir[p] = None
  <2>1. t \in TableT /\ Placed(t)
    BY DEF Sound
  <2>2. \A z \in Shard : \A i \in 1..Len(t.rows[z]) : t.rows[z][i] # None => t.rows[z][i].pk # p
    <3> SUFFICES ASSUME NEW z \in Shard, NEW i \in 1..Len(t.rows[z]), t.rows[z][i] # None
                 PROVE  t.rows[z][i].pk # p
      OBVIOUS
    <3>1. ~HasRow(t, p)
      BY <1>2, <2>1, RowKeyed
    <3> QED BY <3>1 DEF HasRow
  <2>3. ASSUME NEW v \in Parts PROVE Without(Shown(t.rows[shardOf[v]], v), {p}) = Shown(t.rows[shardOf[v]], v)
    <3> DEFINE Q == t.rows[shardOf[v]]
    <3>1. shardOf[v] \in Shard /\ Q \in Seq(Cell)
      BY <2>1, TableParts
    <3>2. \A i \in 1..Len(Q) : Q[i] # None => Q[i].pk # p
      BY <1>2, <2>2, <3>1
    <3> HIDE DEF Q
    <3>3. Without(Shown(Q, v), {p}) = Shown(Q, v)
      BY <3>1, <3>2, ShownLacks
    <3> QED BY <3>3 DEF Q
  <2>4. Less(View(t), {p}) = View(t)
    BY <2>3 DEF Less, View
  <2> QED BY <1>2, <2>4 DEF deleteRow
<1> QED BY <1>1, <1>2

\* A compaction is invisible.
LEMMA CompactShows ==
    ASSUME NEW t, Sound(t), NEW s \in Shard
    PROVE  View(compactShardLocked(t, s)) = View(t)
<1> DEFINE u == compactShardLocked(t, s)
           N == Packed(t.rows[s])
<1>1. t \in TableT /\ t.rows \in [Shard -> Seq(Cell)] /\ (\A v \in Parts : shardOf[v] \in Shard) /\ t.rows[s] \in Seq(Cell)
  BY TableParts DEF Sound
<1>2. u.rows = [t.rows EXCEPT ![s] = N]
  <2>1. Compacts(t, s, N, u)
    BY <1>1, CompactIs
  <2> QED BY <2>1 DEF Compacts
<1> HIDE DEF u
<1>3. ASSUME NEW v \in Parts PROVE Shown(u.rows[shardOf[v]], v) = Shown(t.rows[shardOf[v]], v)
  <2>1. Shown(N, v) = Shown(t.rows[s], v)
    BY <1>1, ShownPacked
  <2>2. u.rows[shardOf[v]] = IF shardOf[v] = s THEN N ELSE t.rows[shardOf[v]]
    BY <1>1, <1>2
  <2> QED BY <2>1, <2>2
<1> QED BY <1>3 DEF View, u

\* What a table shows are the keys of its directory.
ShownIn(v, p) == \E q \in Parts : \E i \in 1..Len(v[q]) : v[q][i] = p

\* The keys a partition shows are those of the directory.
LEMMA ShownKeys ==
    ASSUME NEW t, Sound(t), NEW p \in PKs
    PROVE  ShownIn(View(t), p) <=> t.dir[p] # None
<1>1. t \in TableT /\ Placed(t)
  BY DEF Sound
<1>2. ASSUME NEW q \in Parts
      PROVE  LET R == t.rows[shardOf[q]] IN
             (\E i \in 1..Len(View(t)[q]) : View(t)[q][i] = p) <=> \E x \in RowsOf(R, q) : R[x].pk = p
  <2> DEFINE R == t.rows[shardOf[q]]
             K == KeysOf(R)
             Z == RowsOf(R, q)
             A == Ascending(Z)
             c == Cardinality(Z)
             V == Picked(K, Z)
  <2>1. shardOf[q] \in Shard /\ R \in Seq(Cell)
    BY <1>1, TableParts
  <2> HIDE DEF R
  <2>2. K \in Seq(PKs \cup {None}) /\ Z \in SUBSET (1..Len(K)) /\ \A i \in Z : K[i] = R[i].pk
    BY <2>1, KeysAndRows DEF RowsOf
  <2> HIDE DEF K, Z
  <2>3. IsPicked(V, A, c, K, Z)
    BY <2>2, PickedFacts
  <2> HIDE DEF V
  <2>4. /\ Len(V) = c /\ \A k \in 1..c : A[k] \in Z /\ V[k] = K[A[k]]
        /\ \A x \in Z : \E k \in 1..c : A[k] = x /\ V[k] = K[x]
    BY <2>3 DEF IsPicked
  <2>5. (\E i \in 1..Len(V) : V[i] = p) <=> \E x \in Z : R[x].pk = p
    <3> HIDE DEF A, c
    <3>1. ASSUME NEW i \in 1..Len(V), V[i] = p PROVE \E x \in Z : R[x].pk = p
      <4>1. i \in 1..c
        BY <2>4
      <4>2. A[i] \in Z /\ V[i] = K[A[i]]
        BY <2>4, <4>1
      <4> QED BY <2>2, <3>1, <4>2
    <3>2. ASSUME NEW x \in Z, R[x].pk = p PROVE \E i \in 1..Len(V) : V[i] = p
      <4>1. PICK i \in 1..c : A[i] = x /\ V[i] = K[x]
        BY <2>4, <3>2
      <4> QED BY <2>2, <2>4, <3>2, <4>1
    <3> QED BY <3>1, <3>2
  <2>6. View(t)[q] = V
    BY DEF View, Shown, V, K, Z, R
  <2> QED BY <2>5, <2>6 DEF R, Z
<1>3. ASSUME NEW q \in Parts, NEW x \in RowsOf(t.rows[shardOf[q]], q), t.rows[shardOf[q]][x].pk = p
      PROVE  t.dir[p] # None
  <2>1. shardOf[q] \in Shard /\ x \in 1..Len(t.rows[shardOf[q]]) /\ t.rows[shardOf[q]][x] # None
    BY <1>1, TableParts DEF RowsOf
  <2>2. HasRow(t, p)
    BY <1>3, <2>1 DEF HasRow
  <2> QED BY <1>1, <2>2, RowKeyed
<1>4. ASSUME t.dir[p] # None
      PROVE  \E q \in Parts : \E x \in RowsOf(t.rows[shardOf[q]], q) : t.rows[shardOf[q]][x].pk = p
  <2> DEFINE q == At(t, t.dir[p]).part
             s == t.dir[p].shard
             n == t.dir[p].rowID
  <2>1. /\ n \in 1..Len(t.rows[s]) /\ At(t, t.dir[p]) = t.rows[s][n]
        /\ t.rows[s][n] # None /\ t.rows[s][n].pk = p /\ q \in Parts /\ shardOf[q] = s
        /\ t.rows[s][n].part = q
    <3>1. /\ t.dir[p].rowID \in 1..Len(t.rows[t.dir[p].shard])
          /\ At(t, t.dir[p]) = t.rows[t.dir[p].shard][t.dir[p].rowID]
          /\ At(t, t.dir[p]).pk = p /\ At(t, t.dir[p]) # None
          /\ At(t, t.dir[p]).part \in Parts /\ shardOf[At(t, t.dir[p]).part] = t.dir[p].shard
      BY <1>1, <1>4, LocParts
    <3> QED BY <3>1
  <2>2. n \in RowsOf(t.rows[s], q)
    BY <2>1 DEF RowsOf
  <2> HIDE DEF q, s, n
  <2> QED BY <2>1, <2>2
<1> QED BY <1>2, <1>3, <1>4 DEF ShownIn

\* So is taking keys out of what a table shows.
LEMMA LessTwice ==
    ASSUME NEW t, Sound(t), NEW C, NEW D
    PROVE  Less(Less(View(t), C), D) = Less(View(t), C \cup D)
<1>1. ASSUME NEW v \in Parts
      PROVE  Without(Without(Shown(t.rows[shardOf[v]], v), C), D) = Without(Shown(t.rows[shardOf[v]], v), C \cup D)
  <2> DEFINE R == t.rows[shardOf[v]]
  <2>1. R \in Seq(Cell)
    BY TableParts DEF Sound
  <2> HIDE DEF R
  <2>2. Without(Without(Shown(R, v), C), D) = Without(Shown(R, v), C \cup D)
    BY <2>1, WithoutTwice
  <2> QED BY <2>2 DEF R
<1> QED BY <1>1 DEF Less, View

\* DELETE WHERE takes out the keys one after the other.
LEMMA PurgeShows ==
    ASSUME NEW t, Sound(t), NEW l \in Seq(PKs)
    PROVE  View(FoldLeft(deleteRow, t, l)) = Less(View(t), ToSet(l))
<1> DEFINE X == {m \in Seq(PKs) : View(Purge!Run(t, m)) = Less(View(t), ToSet(m))}
<1>1. Purge!Closed /\ t \in Tables
  BY DeleteRowIsSound DEF Purge!Closed, Tables, Sound
<1>2. (\A v \in Parts : shardOf[v] \in Shard /\ t.rows[shardOf[v]] \in Seq(Cell))
  BY TableParts DEF Sound
<1>3. <<>> \in X
  <2>1. Purge!Run(t, <<>>) = t /\ <<>> \in Seq(PKs)
    BY <1>1, Purge!RunEmpty
  <2>2. ToSet(<<>>) = {}
    BY DEF ToSet
  <2>3. ASSUME NEW v \in Parts PROVE Without(Shown(t.rows[shardOf[v]], v), {}) = Shown(t.rows[shardOf[v]], v)
    <3> DEFINE R == t.rows[shardOf[v]]
    <3>1. R \in Seq(Cell)
      BY <1>2
    <3> HIDE DEF R
    <3>2. {i \in RowsOf(R, v) : R[i].pk \notin {}} = RowsOf(R, v)
      OBVIOUS
    <3> QED BY <3>1, <3>2, ShownWithout DEF Shown, R
  <2>4. Less(View(t), {}) = View(t)
    BY <2>3 DEF Less, View
  <2> QED BY <2>1, <2>2, <2>4
<1>4. ASSUME NEW m \in Seq(PKs), NEW p \in PKs, m \in X PROVE Append(m, p) \in X
  <2> DEFINE u == Purge!Run(t, m)
             C == ToSet(m)
  <2>1. u \in Tables /\ Purge!Run(t, Append(m, p)) = deleteRow(u, p)
    BY <1>1, Purge!RunAppend
  <2>2. Sound(u) /\ View(u) = Less(View(t), C)
    BY <1>4, <2>1 DEF Tables
  <2>3. ToSet(Append(m, p)) = C \cup {p}
    BY ToSetAppend
  <2> HIDE DEF u, C
  <2>4. View(deleteRow(u, p)) = Less(View(u), {p})
    BY <2>2, DeleteRowShows
  <2>5. Less(Less(View(t), C), {p}) = Less(View(t), C \cup {p})
    BY LessTwice
  <2>6. View(Purge!Run(t, Append(m, p))) = Less(View(t), ToSet(Append(m, p)))
    BY <2>1, <2>2, <2>3, <2>4, <2>5
  <2> QED BY <2>6
<1> HIDE DEF X
<1>5. Seq(PKs) \subseteq X
  BY <1>3, <1>4, Purge!SeqInduction
<1>6. View(Purge!Run(t, l)) = Less(View(t), ToSet(l))
  BY <1>5 DEF X
<1>7. FoldLeft(deleteRow, t, l) = Purge!Run(t, l)
  BY DEF Purge!Run, FoldLeft, Purge!FoldLeft, MapThenFoldSet, Purge!MapThenFoldSet,
         Max, Purge!Max
<1> QED BY <1>6, <1>7

----------------------------------------------------------------------------
(* What a statement does to what the table shows is a step of PartitionMap. *)

Plus(v, p, q) == [v EXCEPT ![q] = Append(@, p)]

\* The steps of PartitionMap, and a stutter.
Inserts(v, u) == \E p \in PKs, q \in Parts : ~ShownIn(v, p) /\ u = Plus(v, p, q)
InsertsTwo(v, u) ==
    \E p1, p2 \in PKs, q1, q2 \in Parts :
        p1 # p2 /\ ~ShownIn(v, p1) /\ ~ShownIn(v, p2) /\ u = Plus(Plus(v, p1, q1), p2, q2)
Deletes(v, u) == \E D \in SUBSET PKs : u = Less(v, D)
DeletesInserts(v, u) ==
    \E d, p \in PKs, q \in Parts : ~ShownIn(Less(v, {d}), p) /\ u = Plus(Less(v, {d}), p, q)
InsertsDeletes(v, u) ==
    \E d, p \in PKs, q \in Parts : ~ShownIn(v, p) /\ u = Less(Plus(v, p, q), {d})

Moves(v, u) ==
    u = v \/ Inserts(v, u) \/ InsertsTwo(v, u) \/ Deletes(v, u) \/ DeletesInserts(v, u) \/ InsertsDeletes(v, u)

\* One statement of a transaction.
LEMMA ApplyShows ==
    ASSUME NEW t, Sound(t), NEW m \in Staged
    PROVE  /\ m.kind = "ins" => m.pk \in PKs /\ m.part \in Parts /\ View(Apply(t, m)) = Plus(View(t), m.pk, m.part)
           /\ m.kind # "ins" => m.pk \in PKs /\ View(Apply(t, m)) = Less(View(t), {m.pk})
<1>1. CASE m.kind = "ins"
  <2>1. m.pk \in PKs /\ m.part \in Parts /\ t \in TableT
    BY <1>1 DEF Staged, Sound
  <2>2. View(addRow(t, m.pk, m.part)) = Plus(View(t), m.pk, m.part)
    BY <2>1, AddRowShows DEF Plus
  <2> QED BY <1>1, <2>1, <2>2 DEF Apply
<1>2. CASE m.kind # "ins"
  <2>1. m.pk \in PKs
    BY DEF Staged
  <2> QED BY <1>2, <2>1, DeleteRowShows DEF Apply
<1> QED BY <1>1, <1>2

\* An insert in the directory.
Points(t, p, q, d) == d = [t.dir EXCEPT ![p] = [shard |-> shardOf[q], rowID |-> Len(t.rows[shardOf[q]]) + 1]]

\* addRow points the directory at the row it has appended.
LEMMA AddRowDir ==
    ASSUME NEW t \in TableT, NEW p, NEW q
    PROVE  Points(t, p, q, addRow(t, p, q).dir)
<1>1. PICK r, v, l, d, i : t = [rows |-> r, live |-> v, tails |-> l, tailsDead |-> d, dir |-> i]
  BY DEF TableT
<1> QED BY <1>1 DEF addRow, Points

\* A transaction of two statements.
LEMMA CommitMoves ==
    ASSUME NEW t, Sound(t), NEW m1 \in Staged, NEW m2 \in Staged,
           Accepts(t, m1), Accepts(Apply(t, m1), m2)
    PROVE  Moves(View(t), View(Apply(Apply(t, m1), m2)))
<1> DEFINE t1 == Apply(t, m1)
           u == Apply(t1, m2)
           v == View(t)
           v1 == View(t1)
           v2 == View(u)
<1>0. SUFFICES Moves(v, v2)
  OBVIOUS
<1>1. Sound(t1)
  BY ApplyIsSound
<1>2. /\ m1.kind = "ins" => m1.pk \in PKs /\ m1.part \in Parts /\ v1 = Plus(v, m1.pk, m1.part) /\ t.dir[m1.pk] = None
      /\ m1.kind # "ins" => m1.pk \in PKs /\ v1 = Less(v, {m1.pk})
  BY ApplyShows DEF Accepts
<1>3. CASE m1.kind = "ins" /\ m2.kind = "ins"
  <2>1. t1.dir[m2.pk] = None /\ m2.pk \in PKs /\ m2.part \in Parts /\ v2 = Plus(v1, m2.pk, m2.part)
    <3> HIDE DEF t1
    <3> QED BY <1>1, <1>3, ApplyShows DEF Accepts, t1
  <2>2. m1.pk # m2.pk /\ t.dir[m2.pk] = None
    <3> DEFINE p == m1.pk
               q == m1.part
               loc == [shard |-> shardOf[q], rowID |-> Len(t.rows[shardOf[q]]) + 1]
    <3>1. t \in TableT /\ t1 = addRow(t, p, q) /\ p \in PKs /\ q \in Parts
      BY <1>2, <1>3 DEF Sound, Apply
    <3>2. loc # None
      <4>1. shardOf[q] \in Shard /\ Len(t.rows[shardOf[q]]) + 1 \in Nat \ {0}
        BY <3>1, TableParts
      <4>2. loc \in Loc
        BY <4>1 DEF Loc
      <4> QED BY <4>2, NoneIsApart DEF NoneIsApart
    <3>3. t.dir \in [PKs -> Loc \cup {None}]
      BY <3>1, TableParts
    <3> HIDE DEF t1, p, q
    <3>4. Points(t, p, q, addRow(t, p, q).dir)
      BY <3>1, AddRowDir
    <3>5. t1.dir = [t.dir EXCEPT ![p] = loc]
      BY <3>1, <3>4 DEF Points
    <3> HIDE DEF loc
    <3> QED BY <2>1, <3>1, <3>2, <3>3, <3>5 DEF p
  <2>3. ~ShownIn(v, m1.pk) /\ ~ShownIn(v, m2.pk)
    BY <1>2, <1>3, <2>1, <2>2, ShownKeys
  <2> HIDE DEF v, v1, v2, t1, u
  <2> QED BY <1>2, <1>3, <2>1, <2>2, <2>3 DEF Moves, InsertsTwo
<1>4. CASE m1.kind # "ins" /\ m2.kind = "ins"
  <2> HIDE DEF t1
  <2>1. t1.dir[m2.pk] = None /\ m2.pk \in PKs /\ m2.part \in Parts /\ v2 = Plus(v1, m2.pk, m2.part)
    BY <1>1, <1>4, ApplyShows DEF Accepts, t1
  <2>2. ~ShownIn(v1, m2.pk)
    BY <1>1, <2>1, ShownKeys
  <2> HIDE DEF v, v1, v2, u
  <2> QED BY <1>2, <1>4, <2>1, <2>2 DEF Moves, DeletesInserts
<1>5. CASE m1.kind = "ins" /\ m2.kind # "ins"
  <2> HIDE DEF t1
  <2>1. m2.pk \in PKs /\ v2 = Less(v1, {m2.pk})
    BY <1>1, <1>5, ApplyShows
  <2>2. ~ShownIn(v, m1.pk)
    BY <1>2, <1>5, ShownKeys
  <2> HIDE DEF v, v1, v2, u
  <2> QED BY <1>2, <1>5, <2>1, <2>2 DEF Moves, InsertsDeletes
<1>6. CASE m1.kind # "ins" /\ m2.kind # "ins"
  <2> HIDE DEF t1
  <2>1. m2.pk \in PKs /\ v2 = Less(v1, {m2.pk})
    BY <1>1, <1>6, ApplyShows
  <2>2. Less(Less(v, {m1.pk}), {m2.pk}) = Less(v, {m1.pk} \cup {m2.pk})
    BY LessTwice
  <2>3. {m1.pk} \cup {m2.pk} \in SUBSET PKs
    BY <1>2, <1>6, <2>1
  <2>4. v2 = Less(v, {m1.pk} \cup {m2.pk})
    BY <1>2, <1>6, <2>1, <2>2
  <2> HIDE DEF v, v1, v2, u
  <2> QED BY <2>3, <2>4 DEF Moves, Deletes
<1> QED BY <1>3, <1>4, <1>5, <1>6

----------------------------------------------------------------------------
(* The refinement.                                                         *)

\* What Abs reads of the table.
Lists == [q \in Parts |-> scanPartition(Table, q)]

\* What a scan of the partitions lists is the view of the table.
LEMMA ListsAre ==
    ASSUME PartitionInv
    PROVE  Lists = View(Table)
<1>1. Sound(Table)
  BY TableIsSound
<1>2. \A q \in Parts : scanPartition(Table, q) = Shown(Table.rows[shardOf[q]], q)
  BY <1>1, ScanIs
<1> QED BY <1>2 DEF Lists, View

\* PartitionMap's operators in the terms of the table.
LEMMA AbsOperators ==
    /\ \A v, p : Abs!In(v, p) <=> ShownIn(v, p)
    /\ \A v, D : Abs!Removed(v, D) = Less(v, D)
    /\ \A v, p, q : Abs!Appended(v, p, q) = Plus(v, p, q)
<1>0. \A S : Abs!Cardinality(S) = Cardinality(S)
  BY DEF Abs!Cardinality, Cardinality
<1>1. \A S, k : Abs!Nth(S, k) = Nth(S, k)
  BY <1>0 DEF Abs!Nth, Nth
<1>2. \A v, D : Abs!Removed(v, D) = Less(v, D)
  <2> SUFFICES ASSUME NEW v, NEW D PROVE Abs!Removed(v, D) = Less(v, D)
    OBVIOUS
  <2>1. ASSUME NEW q \in Parts PROVE Abs!Kept(v[q], LAMBDA p : p \notin D) = Without(v[q], D)
    BY <1>0, <1>1 DEF Abs!Kept, Without, Picked
  <2> QED BY <2>1 DEF Abs!Removed, Less
<1> QED BY <1>2 DEF Abs!In, ShownIn, Abs!Appended, Plus

\* A move is a step of PartitionMap or a stutter.
LEMMA MovesMap ==
    ASSUME Moves(Lists, Lists')
    PROVE  [Abs!Next]_Lists
<1> DEFINE u == Lists'
<1>0. SUFFICES ASSUME u # Lists PROVE Abs!Next
  OBVIOUS
<1>1. CASE Inserts(Lists, u)
  <2>1. Abs!Insert
    BY <1>1, AbsOperators DEF Inserts, Abs!Insert, Lists
  <2> QED BY <1>0, <2>1 DEF Abs!Next, Lists
<1>2. CASE InsertsTwo(Lists, u)
  <2>1. Abs!InsertTwo
    BY <1>2, AbsOperators DEF InsertsTwo, Abs!InsertTwo, Lists
  <2> QED BY <1>0, <2>1 DEF Abs!Next, Lists
<1>3. CASE Deletes(Lists, u)
  <2>1. Abs!Delete
    BY <1>3, AbsOperators DEF Deletes, Abs!Delete, Lists
  <2> QED BY <1>0, <2>1 DEF Abs!Next, Lists
<1>4. CASE DeletesInserts(Lists, u)
  <2>1. Abs!DeleteInsert
    BY <1>4, AbsOperators DEF DeletesInserts, Abs!DeleteInsert, Lists
  <2> QED BY <1>0, <2>1 DEF Abs!Next, Lists
<1>5. CASE InsertsDeletes(Lists, u)
  <2>1. Abs!InsertDelete
    BY <1>5, AbsOperators DEF InsertsDeletes, Abs!InsertDelete, Lists
  <2> QED BY <1>0, <2>1 DEF Abs!Next, Lists
<1> QED BY <1>0, <1>1, <1>2, <1>3, <1>4, <1>5 DEF Moves

\* A statement that a writer finishes.
LEMMA FinishMoves ==
    ASSUME Sound(Table), NEW w \in Writers, Finish(w)
    PROVE  Moves(View(Table), View(Table'))
<1> DEFINE v == View(Table)
           u == View(Table')
<1>0. SUFFICES Moves(v, u)
  OBVIOUS
<1>1. ASSUME NoStore PROVE Moves(v, u)
  <2>1. Table' = Table
    BY <1>1 DEF NoStore, dataVars, Table
  <2> QED BY <2>1 DEF Moves
<1>2. ASSUME NEW p \in PKs, NEW q \in Parts, insertPartitioned(w, p, q) PROVE Moves(v, u)
  <2>1. CASE dir[p] = None /\ Store(addRow(Table, p, q))
    <3>1. Table.dir[p] = None /\ Table \in TableT
      BY <2>1 DEF Table, Sound
    <3>2. Sound(addRow(Table, p, q))
      BY <3>1, AddRowIsSound
    <3>3. Table' = addRow(Table, p, q)
      BY <2>1, <3>2, StoreIs
    <3>4. View(addRow(Table, p, q)) = Plus(v, p, q)
      BY <3>1, AddRowShows DEF Plus
    <3>5. ~ShownIn(v, p) /\ u = Plus(v, p, q)
      BY <3>1, <3>3, <3>4, ShownKeys
    <3> HIDE DEF v, u
    <3> QED BY <3>5 DEF Moves, Inserts
  <2> QED BY <1>1, <1>2, <2>1 DEF insertPartitioned, Journaled
<1>3. ASSUME NEW p \in PKs, deleteByPKJournaledPartitioned(w, p) PROVE Moves(v, u)
  <2>1. CASE dir[p] # None /\ Store(removeRow(Table, p))
    <3>1. Table.dir[p] # None
      BY <2>1 DEF Table
    <3>2. Sound(removeRow(Table, p))
      BY <3>1, RemoveRowIsSound
    <3>3. Table' = removeRow(Table, p)
      BY <2>1, <3>2, StoreIs
    <3>4. u = Less(v, {p}) /\ {p} \in SUBSET PKs
      BY <3>1, <3>3, RemoveRowShows
    <3> HIDE DEF v, u
    <3> QED BY <3>4 DEF Moves, Deletes
  <2> QED BY <1>1, <1>3, <2>1 DEF deleteByPKJournaledPartitioned, Journaled
<1>4. ASSUME NEW match \in SUBSET PKs, deleteWhereAllPartitioned(w, match) PROVE Moves(v, u)
  <2> DEFINE S == {p \in match : dir[p] # None}
             l == SetToSeq(S)
             t == FoldLeft(deleteRow, Table, l)
  <2>1. CASE Store(t)
    <3>1. Sound(t) /\ l \in Seq(PKs)
      BY PurgeIsSound, SetListed
    <3> HIDE DEF l
    <3>2. ToSet(l) \in SUBSET PKs
      BY <3>1, ToSetIs
    <3>3. View(t) = Less(v, ToSet(l))
      BY <3>1, PurgeShows
    <3> HIDE DEF t
    <3>4. Table' = t
      BY <2>1, <3>1, StoreIs
    <3>5. u = Less(v, ToSet(l))
      BY <3>3, <3>4
    <3> HIDE DEF v, u
    <3> QED BY <3>2, <3>5 DEF Moves, Deletes
  <2> QED BY <1>1, <1>4, <2>1 DEF deleteWhereAllPartitioned, Journaled
<1>5. ASSUME NEW m1 \in Staged, NEW m2 \in Staged, commit(w, m1, m2) PROVE Moves(v, u)
  <2> DEFINE t1 == Apply(Table, m1)
             t2 == Apply(t1, m2)
  <2>1. CASE Accepts(Table, m1) /\ Accepts(t1, m2) /\ Store(t2)
    <3>1. Moves(v, View(t2))
      BY <2>1, CommitMoves
    <3>2. Sound(t1)
      BY <2>1, ApplyIsSound
    <3>3. Accepts(t1, m2) /\ Store(t2)
      BY <2>1
    <3> HIDE DEF t1
    <3>4. Sound(t2)
      BY <3>2, <3>3, ApplyIsSound
    <3> HIDE DEF t2
    <3>5. Table' = t2
      BY <3>3, <3>4, StoreIs
    <3> QED BY <3>1, <3>5
  <2> QED BY <1>1, <1>5, <2>1 DEF commit, Journaled
<1>6. ASSUME updateWhereAll(w) \/ updateByPKJournaledPartitioned(w) PROVE Moves(v, u)
  BY <1>1, <1>6 DEF updateWhereAll, updateByPKJournaledPartitioned
<1> HIDE DEF v, u
<1> QED BY <1>2, <1>3, <1>4, <1>5, <1>6 DEF Finish

\* Any step.
LEMMA StepMoves ==
    ASSUME PartitionInv, [Next]_vars
    PROVE  Moves(View(Table), View(Table'))
<1>1. Sound(Table) /\ LockTypes
  BY TableIsSound
<1>2. ASSUME UNCHANGED dataVars PROVE Moves(View(Table), View(Table'))
  <2>1. Table' = Table
    BY <1>2 DEF dataVars, Table
  <2> QED BY <2>1 DEF Moves
<1>3. ASSUME compactShardIfDense PROVE Moves(View(Table), View(Table'))
  <2> DEFINE t == IF shardDense(Table, sw.shard) THEN compactShardLocked(Table, sw.shard) ELSE Table
  <2>1. sw.shard \in Shard /\ Store(t)
    BY <1>1, <1>3 DEF LockTypes, compactShardIfDense
  <2>2. Sound(t) /\ View(t) = View(Table)
    BY <1>1, <2>1, CompactIsSound, CompactShows
  <2> HIDE DEF t
  <2>3. Table' = t
    BY <2>1, <2>2, StoreIs
  <2> QED BY <2>2, <2>3 DEF Moves
<1>4. ASSUME NEW w \in Writers, Writer(w), ~Finish(w) PROVE UNCHANGED dataVars
  BY <1>4, Zenon DEF Writer, LockDir, StartUpdateWhere, LockShard, UpdateLookup, NoStore
<1>5. ASSUME NEW r \in Readers, Reader(r) PROVE UNCHANGED dataVars
  BY <1>5, Zenon DEF Reader, getByPKPartitioned, scanShardsBatched, scanAll, Begin, Pass, Snap, Lookup, ReadRow,
        Return, ReaderStep
<1>6. ASSUME Sweep, ~compactShardIfDense PROVE UNCHANGED dataVars
  BY <1>6, Zenon DEF Sweep, PreCheck, QueueForDir, SweepLockDir, NoStore
<1>7. UNCHANGED vars => UNCHANGED dataVars
  BY DEF vars
<1> QED BY <1>1, <1>2, <1>3, <1>4, <1>5, <1>6, <1>7, FinishMoves DEF Next

\* Seen through the partitions' lists the table is a list of keys per partition:
\* tombstones, prunes and compactions are invisible, and every statement, every
\* transaction and every move between partitions takes effect at once
\* (partition_store.go, store_compact.go, txn.go).
THEOREM TableIsTheMap == Spec => ImplementsMap
<1>1. Init => Abs!Init
  <2> SUFFICES ASSUME Init PROVE Abs!Init
    OBVIOUS
  <2>1. ASSUME NEW q \in Parts PROVE scanPartition(Table, q) = <<>>
    <3>1. Table.tails[q] = <<>>
      BY DEF Init, Table
    <3>2. listed(Table, q) = <<>>
      BY <3>1 DEF listed
    <3>3. \A S : S = {} => Cardinality(S) = 0
      BY FS_EmptySet
    <3>4. {i \in 1..Len(listed(Table, q)) : IsRow(listed(Table, q)[i])} = {}
      BY <3>2
    <3> QED BY <3>3, <3>4 DEF scanPartition, Kept
  <2> QED BY <2>1 DEF Abs!Init
<1>2. PartitionInv /\ PartitionInv' /\ [Next]_vars => [Abs!Next]_Lists
  <2> SUFFICES ASSUME PartitionInv, PartitionInv', [Next]_vars PROVE [Abs!Next]_Lists
    OBVIOUS
  <2>1. (PartitionInv => Lists = View(Table))'
    BY ListsAre, PTL
  <2>2. Lists = View(Table) /\ Lists' = View(Table')
    BY <2>1, ListsAre
  <2>3. Moves(Lists, Lists')
    BY <2>2, StepMoves
  <2> QED BY <2>3, MovesMap
<1> QED BY <1>1, <1>2, TableStaysSound, PTL DEF Spec, ImplementsMap, Abs!Spec, Lists

----------------------------------------------------------------------------
(* The readers.                                                            *)

ReadState == [pc : {"idle", "lookup", "read", "snap", "pass", "done"}, job : {"none", "point", "batched", "all"},
              key : PKs \cup {None}, shard : Nat, todo : Seq(PKs), got : [PKs -> Nat], loc : Loc \cup {None},
              retry : Nat, relocs : Nat, excused : SUBSET PKs]

Resolving(st) == st.pc \in {"lookup", "read"}

\* What a read keeps in its fields at each point.
Ordered(st) ==
    /\ st.retry <= pkRetryBudget /\ st.relocs <= pkRetryBudget
    /\ st.pc # "idle" => st.shard \in Shard /\ st.job # "none"
    /\ st.pc = "snap" => st.job = "batched"
    /\ st.pc = "pass" => st.job = "all"
    /\ Resolving(st) => st.job \in {"point", "batched"} /\ st.todo # <<>>
    /\ ~Resolving(st) => st.todo = <<>>
    /\ st.job = "point" => st.key \in PKs /\ (Resolving(st) => st.todo = <<st.key>>)
    /\ st.pc = "read" => st.loc # None
    /\ \A i, j \in 1..Len(st.todo) : st.todo[i] = st.todo[j] => i = j

\* A key that the table lacks now is excused.
Watched(st) == IF st.job = "point" THEN {st.key} ELSE PKs
Excuses(st, t) == st.pc # "idle" => \A p \in Watched(st) : t.dir[p] = None => p \in st.excused

\* Every try that failed, and the one that is about to, was a change of location.
Tried(st, t, p) ==
    st.relocs >= (IF st.pc = "lookup" \/ st.loc = t.dir[p] THEN st.retry ELSE Cap(st.retry + 1))
Tries(st, t) == Resolving(st) => \A p \in PKs \ st.excused : p = Head(st.todo) => Tried(st, t, p)

\* A point read that found nothing has its excuse.
Answers(st) == st.job = "point" /\ st.pc = "done" => st.got[st.key] # 0 \/ st.key \in st.excused

\* A scan has returned the rows of the shards behind it, and of this one those that
\* are not left to resolve.
Passed(st, t, p) ==
    \/ st.pc = "done" \/ t.dir[p].shard < st.shard
    \/ Resolving(st) /\ t.dir[p].shard = st.shard /\ \A i \in 1..Len(st.todo) : st.todo[i] # p
Counts(st, t) ==
    st.pc # "idle" /\ st.job \in {"batched", "all"} =>
        \A p \in PKs \ st.excused :
            /\ st.got[p] = IF Passed(st, t, p) THEN 1 ELSE 0
            /\ (\E i \in 1..Len(st.todo) : st.todo[i] = p) => t.dir[p].shard = st.shard

Reading(st, t) ==
    st \in ReadState /\ Ordered(st) /\ Excuses(st, t) /\ Tries(st, t) /\ Answers(st) /\ Counts(st, t)

ReadersInv == DOMAIN rd = Readers /\ \A r \in Readers : Reading(rd[r], Table)

----------------------------------------------------------------------------
(* The steps of a reader.                                                  *)

\* u is st at the point c of shard n, with what it has counted and nothing of the last key.
Moved(st, u, c, n) ==
    /\ u \in ReadState /\ u.pc = c /\ u.shard = n
    /\ u.job = st.job /\ u.key = st.key /\ u.todo = st.todo /\ u.excused = st.excused
    /\ u.loc = None /\ u.retry = 0 /\ u.relocs = 0
    /\ \A p \in PKs : u.got[p] = IF p \in st.excused THEN 0 ELSE st.got[p]

\* u is st with what it has counted.
Recounted(st, u) ==
    /\ u \in ReadState /\ u.pc = st.pc /\ u.shard = st.shard
    /\ u.job = st.job /\ u.key = st.key /\ u.todo = st.todo /\ u.excused = st.excused
    /\ u.loc = st.loc /\ u.retry = st.retry /\ u.relocs = st.relocs
    /\ \A p \in PKs : u.got[p] = IF p \in st.excused THEN 0 ELSE st.got[p]

\* Counted changes only the counts, and only of excused keys.
LEMMA CountedIs ==
    ASSUME NEW st \in ReadState
    PROVE  Recounted(st, Counted(st))
<1> DEFINE g == [p \in PKs |-> IF p \in st.excused THEN 0 ELSE st.got[p]]
<1>1. st.got \in [PKs -> Nat]
  BY DEF ReadState
<1>2. g \in [PKs -> Nat]
  BY <1>1
<1>3. Counted(st) = [st EXCEPT !.got = g]
  BY DEF Counted
<1>4. \A p \in PKs : g[p] = IF p \in st.excused THEN 0 ELSE st.got[p]
  OBVIOUS
<1> HIDE DEF g
<1> QED BY <1>2, <1>3, <1>4 DEF Recounted, ReadState

\* The fields of a read.
Fields(c, j, k, n, l, g, x, y, z, e) ==
    [pc |-> c, job |-> j, key |-> k, shard |-> n, todo |-> l, got |-> g, loc |-> x, retry |-> y, relocs |-> z, excused |-> e]

\* A reader is the record of its fields, each of its type.
LEMMA FieldsOf ==
    ASSUME NEW st \in ReadState
    PROVE  /\ st = Fields(st.pc, st.job, st.key, st.shard, st.todo, st.got, st.loc, st.retry, st.relocs, st.excused)
           /\ st.pc \in {"idle", "lookup", "read", "snap", "pass", "done"} /\ st.job \in {"none", "point", "batched", "all"}
           /\ st.key \in PKs \cup {None} /\ st.shard \in Nat /\ st.todo \in Seq(PKs) /\ st.got \in [PKs -> Nat]
           /\ st.loc \in Loc \cup {None} /\ st.retry \in Nat /\ st.relocs \in Nat /\ st.excused \in SUBSET PKs
BY DEF ReadState, Fields

\* u is st at the point c of shard n, with nothing of the last key.
Turned(st, u, c, n) ==
    u = Fields(c, st.job, st.key, n, st.todo, st.got, None, 0, 0, st.excused)

\* A reader that turns to the next key or shard, with its counts as they count, has moved there.
LEMMA TurnedMoves ==
    ASSUME NEW st \in ReadState, NEW c \in {"lookup", "pass", "snap", "done"}, NEW n \in Nat, NEW o, Turned(st, o, c, n)
    PROVE  Moved(st, Counted(o), c, n)
<1>1. /\ o \in ReadState /\ o.pc = c /\ o.shard = n /\ o.job = st.job /\ o.key = st.key /\ o.todo = st.todo
      /\ o.excused = st.excused /\ o.got = st.got /\ o.loc = None /\ o.retry = 0 /\ o.relocs = 0
  BY FieldsOf DEF Turned, Fields, ReadState
<1>2. Recounted(o, Counted(o))
  BY <1>1, CountedIs
<1> QED BY <1>1, <1>2 DEF Recounted, Moved

\* What Onward makes of it.
LEMMA OnwardIs ==
    ASSUME NEW st \in ReadState, st.shard \in Shard
    PROVE  LET u == Counted(Onward(st)) IN
           /\ st.todo # <<>> => Moved(st, u, "lookup", st.shard)
           /\ st.todo = <<>> /\ (st.job = "point" \/ st.shard = NShards) => Moved(st, u, "done", st.shard)
           /\ st.todo = <<>> /\ st.job # "point" /\ st.shard # NShards =>
                Moved(st, u, IF st.job = "all" THEN "pass" ELSE "snap", st.shard + 1)
<1> DEFINE o == Onward(st)
           c == IF st.job = "all" THEN "pass" ELSE "snap"
<1>0. st.shard + 1 \in Nat /\ st.shard \in Nat /\ c \in {"lookup", "pass", "snap", "done"}
  BY PartitionBounds DEF PartitionBounds, Shard
<1>1. st = Fields(st.pc, st.job, st.key, st.shard, st.todo, st.got, st.loc, st.retry, st.relocs, st.excused)
  BY FieldsOf
<1>2. st.todo # <<>> => Turned(st, o, "lookup", st.shard)
  BY <1>1 DEF Onward, Turned, Fields
<1>3. st.todo = <<>> /\ (st.job = "point" \/ st.shard = NShards) => Turned(st, o, "done", st.shard)
  BY <1>1 DEF Onward, Turned, Fields
<1>4. st.todo = <<>> /\ st.job # "point" /\ st.shard # NShards => Turned(st, o, c, st.shard + 1)
  BY <1>1 DEF Onward, Turned, Fields
<1> HIDE DEF o, c
<1> USE <1>0, <1>2, <1>3, <1>4, TurnedMoves
<1>5. st.todo # <<>> => Moved(st, Counted(o), "lookup", st.shard)
  OBVIOUS
<1>6. st.todo = <<>> /\ (st.job = "point" \/ st.shard = NShards) => Moved(st, Counted(o), "done", st.shard)
  OBVIOUS
<1>7. st.todo = <<>> /\ st.job # "point" /\ st.shard # NShards => Moved(st, Counted(o), c, st.shard + 1)
  OBVIOUS
<1> QED BY <1>5, <1>6, <1>7 DEF o, c

\* No key twice.
Distinct(l) == \A i, j \in 1..Len(l) : l[i] = l[j] => i = j
In1(l, p) == \E i \in 1..Len(l) : l[i] = p

\* A read between two keys, or two shards.
Between(st, t) ==
    /\ st \in ReadState /\ st.pc # "idle" /\ st.job # "none" /\ st.shard \in Shard
    /\ st.job = "point" => st.key \in PKs /\ st.todo = <<>> /\ (st.got[st.key] # 0 \/ st.key \in st.excused)
    /\ st.todo # <<>> => st.job = "batched"
    /\ Distinct(st.todo)
    /\ Excuses(st, t)
    /\ st.job \in {"batched", "all"} =>
        \A p \in PKs \ st.excused :
            /\ st.got[p] = IF t.dir[p].shard < st.shard \/ (t.dir[p].shard = st.shard /\ ~In1(st.todo, p)) THEN 1 ELSE 0
            /\ In1(st.todo, p) => t.dir[p].shard = st.shard

\* It goes on.
LEMMA OnwardReads ==
    ASSUME NEW t \in TableT, NEW st, Between(st, t)
    PROVE  Reading(Counted(Onward(st)), t)
<1> DEFINE u == Counted(Onward(st))
<1>0. SUFFICES Reading(u, t)
  OBVIOUS
<1>1. st \in ReadState /\ st.shard \in Shard /\ st.job \in {"point", "batched", "all"}
  BY DEF Between, ReadState
<1>2. ASSUME NEW p \in PKs \ st.excused, st.job # "point"
      PROVE  t.dir[p].shard \in 1..NShards
  <2>1. t.dir[p] # None
    BY <1>2 DEF Between, Excuses, Watched
  <2> QED BY <2>1, TableParts DEF Loc, Shard
<1>3. NShards \in Nat /\ pkRetryBudget \in Nat /\ st.shard \in 1..NShards
  BY <1>1, PartitionBounds DEF PartitionBounds, Shard
<1>4. CASE st.todo # <<>>
  <2>1. Moved(st, u, "lookup", st.shard)
    BY <1>1, <1>4, OnwardIs
  <2> HIDE DEF u
  <2>2. u.todo = st.todo /\ u.job = "batched" /\ u.pc = "lookup" /\ u.shard = st.shard /\ u.retry = 0 /\ u.relocs = 0
    BY <1>4, <2>1 DEF Moved, Between
  <2>3. Ordered(u)
    BY <1>1, <1>3, <1>4, <2>2 DEF Ordered, Resolving, Between, Distinct
  <2>4. Excuses(u, t)
    BY <2>1 DEF Moved, Between, Excuses, Watched
  <2>5. Tries(u, t) /\ Answers(u)
    BY <2>2 DEF Tries, Tried, Answers
  <2>6. ASSUME NEW p \in PKs \ u.excused
        PROVE  /\ u.got[p] = IF Passed(u, t, p) THEN 1 ELSE 0
               /\ (\E i \in 1..Len(u.todo) : u.todo[i] = p) => t.dir[p].shard = u.shard
    <3>1. p \in PKs \ st.excused /\ u.got[p] = st.got[p]
      BY <2>1 DEF Moved
    <3>2. Passed(u, t, p) <=> t.dir[p].shard < st.shard \/ (t.dir[p].shard = st.shard /\ ~In1(st.todo, p))
      BY <2>2 DEF Passed, Resolving, In1
    <3>3. st.job = "batched"
      BY <1>4 DEF Between
    <3>4. st.got[p] = IF t.dir[p].shard < st.shard \/ (t.dir[p].shard = st.shard /\ ~In1(st.todo, p)) THEN 1 ELSE 0
      BY <3>1, <3>3 DEF Between
    <3>5. In1(st.todo, p) => t.dir[p].shard = st.shard
      BY <3>1, <3>3 DEF Between
    <3>6. (\E i \in 1..Len(u.todo) : u.todo[i] = p) <=> In1(st.todo, p)
      BY <2>2 DEF In1
    <3> QED BY <2>2, <3>1, <3>2, <3>4, <3>5, <3>6
  <2>7. Counts(u, t)
    BY <2>6 DEF Counts
  <2> QED BY <2>1, <2>3, <2>4, <2>5, <2>7 DEF Reading, Moved
<1>5. CASE st.todo = <<>> /\ (st.job = "point" \/ st.shard = NShards)
  <2>1. Moved(st, u, "done", st.shard)
    BY <1>1, <1>5, OnwardIs
  <2> HIDE DEF u
  <2>2. u.todo = <<>> /\ u.job = st.job /\ u.pc = "done" /\ u.shard = st.shard /\ u.retry = 0 /\ u.relocs = 0 /\ u.key = st.key
    BY <1>5, <2>1 DEF Moved
  <2>3. Ordered(u)
    BY <1>1, <1>3, <2>2 DEF Ordered, Resolving, Between
  <2>4. Excuses(u, t)
    BY <2>1 DEF Moved, Between, Excuses, Watched
  <2>5. Tries(u, t)
    BY <2>2 DEF Tries, Resolving
  <2>8. Answers(u)
    BY <2>1 DEF Answers, Moved, Between
  <2>6. ASSUME NEW p \in PKs \ u.excused, u.job \in {"batched", "all"}
        PROVE  /\ u.got[p] = IF Passed(u, t, p) THEN 1 ELSE 0
               /\ (\E i \in 1..Len(u.todo) : u.todo[i] = p) => t.dir[p].shard = u.shard
    <3>1. p \in PKs \ st.excused /\ u.got[p] = st.got[p]
      BY <2>1 DEF Moved
    <3>2. t.dir[p].shard \in 1..NShards /\ st.shard = NShards /\ ~In1(st.todo, p)
      BY <1>2, <1>5, <2>2, <2>6, <3>1 DEF In1
    <3>3. st.got[p] = 1
      BY <1>3, <2>2, <2>6, <3>1, <3>2 DEF Between
    <3> QED BY <2>2, <3>1, <3>3 DEF Passed
  <2>7. Counts(u, t)
    BY <2>6 DEF Counts
  <2> QED BY <2>1, <2>3, <2>4, <2>5, <2>7, <2>8 DEF Reading, Moved
<1>6. CASE st.todo = <<>> /\ st.job # "point" /\ st.shard # NShards
  <2>1. Moved(st, u, IF st.job = "all" THEN "pass" ELSE "snap", st.shard + 1)
    BY <1>1, <1>6, OnwardIs
  <2> HIDE DEF u
  <2>2. /\ u.todo = <<>> /\ u.job = st.job /\ u.shard = st.shard + 1 /\ u.retry = 0 /\ u.relocs = 0
        /\ u.pc = IF st.job = "all" THEN "pass" ELSE "snap"
    BY <1>6, <2>1 DEF Moved
  <2>3. Ordered(u)
    BY <1>1, <1>3, <1>6, <2>2 DEF Ordered, Resolving, Shard
  <2>4. Excuses(u, t)
    BY <2>1 DEF Moved, Between, Excuses, Watched
  <2>5. Tries(u, t) /\ Answers(u)
    BY <1>6, <2>2 DEF Tries, Resolving, Answers
  <2>6. ASSUME NEW p \in PKs \ u.excused
        PROVE  /\ u.got[p] = IF Passed(u, t, p) THEN 1 ELSE 0
               /\ (\E i \in 1..Len(u.todo) : u.todo[i] = p) => t.dir[p].shard = u.shard
    <3>1. p \in PKs \ st.excused /\ u.got[p] = st.got[p]
      BY <2>1 DEF Moved
    <3>2. t.dir[p].shard \in 1..NShards /\ ~In1(st.todo, p)
      BY <1>2, <1>6, <3>1 DEF In1
    <3>3. st.got[p] = IF t.dir[p].shard < st.shard \/ t.dir[p].shard = st.shard THEN 1 ELSE 0
      BY <1>1, <1>6, <3>1, <3>2 DEF Between
    <3>4. Passed(u, t, p) <=> t.dir[p].shard < st.shard + 1
      BY <1>6, <2>2 DEF Passed, Resolving
    <3>5. t.dir[p].shard < st.shard + 1 <=> t.dir[p].shard < st.shard \/ t.dir[p].shard = st.shard
      BY <1>3, <3>2
    <3> QED BY <2>2, <3>1, <3>3, <3>4, <3>5
  <2>7. Counts(u, t)
    BY <2>6 DEF Counts
  <2> QED BY <2>1, <2>3, <2>4, <2>5, <2>7 DEF Reading, Moved
<1> QED BY <1>4, <1>5, <1>6

\* The keys of one shard.
KeysOfShard(l, s, t) ==
    /\ l \in Seq(PKs) /\ Distinct(l)
    /\ \A p \in PKs : In1(l, p) <=> t.dir[p] # None /\ t.dir[p].shard = s
    /\ \A p \in PKs : Cardinality({i \in DOMAIN l : l[i] = p}) = IF In1(l, p) THEN 1 ELSE 0

\* The batch a scan takes of a shard has each key with a row there, once.
LEMMA ShardKeys ==
    ASSUME Sound(Table), NEW s \in Shard
    PROVE  KeysOfShard(shardPKs(s), s, Table)
<1> DEFINE R == Table.rows[s]
           N == Packed(R)
           l == shardPKs(s)
           t == Table
<1>1. t \in TableT /\ Placed(t) /\ R \in Seq(Cell) /\ Len(R) \in Nat
  BY TableParts DEF Sound
<1>2. l = [k \in 1..Len(N) |-> N[k].pk]
  <2>1. N = Kept(rows[s], IsRow)
    BY DEF Table, Packed, Picked, Kept, Places, IsRow
  <2> QED BY <2>1 DEF shardPKs
<1>3. PICK A : Packs(N, A, R)
  BY <1>1, PackedFacts
<1>4. /\ N \in Seq(Live) /\ Len(N) \in Nat
      /\ \A k \in 1..Len(N) : A[k] \in 1..Len(R) /\ N[k] = R[A[k]] /\ N[k] \in Live /\ R[A[k]] # None
      /\ \A i, j \in 1..Len(N) : A[i] = A[j] => i = j
      /\ \A x \in 1..Len(R) : R[x] # None => \E k \in 1..Len(N) : A[k] = x
  BY <1>3 DEF Packs, Places
<1> HIDE DEF N, l
<1>5. \A k \in 1..Len(N) : N[k].pk \in PKs /\ t.dir[N[k].pk] = [shard |-> s, rowID |-> A[k]] /\ t.dir[N[k].pk] # None
  BY <1>1, <1>4, RowParts
<1>6. l \in Seq(PKs) /\ Len(l) = Len(N) /\ DOMAIN l = 1..Len(N) /\ \A k \in 1..Len(N) : l[k] = N[k].pk
  <2>1. \A k \in 1..Len(N) : N[k].pk \in PKs
    BY <1>5
  <2> QED BY <1>2, <1>4, <2>1
<1>7. Distinct(l)
  <2> SUFFICES ASSUME NEW i \in 1..Len(N), NEW j \in 1..Len(N), l[i] = l[j] PROVE i = j
    BY <1>6 DEF Distinct
  <2>1. [shard |-> s, rowID |-> A[i]] = [shard |-> s, rowID |-> A[j]]
    BY <1>5, <1>6
  <2> QED BY <1>4, <2>1
<1>8. ASSUME NEW p \in PKs PROVE In1(l, p) <=> t.dir[p] # None /\ t.dir[p].shard = s
  <2>1. In1(l, p) => t.dir[p] # None /\ t.dir[p].shard = s
    <3> SUFFICES ASSUME NEW k \in 1..Len(N), l[k] = p PROVE t.dir[p] # None /\ t.dir[p].shard = s
      BY <1>6 DEF In1
    <3>1. N[k].pk = p
      BY <1>6
    <3>2. t.dir[p] = [shard |-> s, rowID |-> A[k]] /\ t.dir[p] # None
      BY <1>5, <3>1
    <3> QED BY <3>2
  <2>2. ASSUME t.dir[p] # None, t.dir[p].shard = s PROVE In1(l, p)
    <3> DEFINE n == t.dir[p].rowID
    <3>0. /\ n \in 1..Len(t.rows[t.dir[p].shard])
          /\ At(t, t.dir[p]) = t.rows[t.dir[p].shard][n] /\ At(t, t.dir[p]) \in Live /\ At(t, t.dir[p]).pk = p
          /\ At(t, t.dir[p]) # None
      BY <1>1, <2>2, LocParts
    <3>1. n \in 1..Len(R) /\ R[n] \in Live /\ R[n].pk = p /\ R[n] # None
      BY <2>2, <3>0
    <3>2. PICK k \in 1..Len(N) : A[k] = n
      BY <1>4, <3>1
    <3> QED BY <1>4, <1>6, <3>1, <3>2 DEF In1
  <2> QED BY <2>1, <2>2
<1>9. ASSUME NEW p \in PKs PROVE Cardinality({i \in DOMAIN l : l[i] = p}) = IF In1(l, p) THEN 1 ELSE 0
  <2>1. CASE In1(l, p)
    <3>1. PICK n \in 1..Len(l) : l[n] = p
      BY <2>1 DEF In1
    <3>2. {i \in DOMAIN l : l[i] = p} = {n}
      BY <1>6, <1>7, <3>1 DEF Distinct
    <3> QED BY <2>1, <3>2, FS_Singleton
  <2>2. CASE ~In1(l, p)
    <3>1. {i \in DOMAIN l : l[i] = p} = {}
      BY <1>6, <2>2 DEF In1
    <3> QED BY <2>2, <3>1, FS_EmptySet
  <2> QED BY <2>1, <2>2
<1> QED BY <1>6, <1>7, <1>8, <1>9 DEF KeysOfShard, l

\* The rest of a list without its first key.
LEMMA TailOf ==
    ASSUME NEW l \in Seq(PKs), Distinct(l), l # <<>>
    PROVE  /\ Head(l) \in PKs /\ In1(l, Head(l)) /\ Tail(l) \in Seq(PKs) /\ Distinct(Tail(l)) /\ ~In1(Tail(l), Head(l))
           /\ \A q : q # Head(l) => (In1(Tail(l), q) <=> In1(l, q))
<1> DEFINE k == Tail(l)
<1>1. /\ Len(l) \in Nat \ {0} /\ Head(l) = l[1] /\ k \in Seq(PKs) /\ Len(k) = Len(l) - 1
      /\ \A i \in 1..Len(l) : l[i] \in PKs
  OBVIOUS
<1>2. \A i \in 1..Len(k) : k[i] = l[i + 1] /\ i + 1 \in 1..Len(l)
  BY <1>1
<1>3. \A i \in 1..Len(l) : i # 1 => i - 1 \in 1..Len(k) /\ k[i - 1] = l[i]
  BY <1>1
<1> HIDE DEF k
<1>4. Distinct(k)
  <2> SUFFICES ASSUME NEW i \in 1..Len(k), NEW j \in 1..Len(k), k[i] = k[j] PROVE i = j
    BY DEF Distinct
  <2>1. i + 1 = j + 1
    BY <1>2 DEF Distinct
  <2> QED BY <1>1, <2>1
<1>5. 1 \in 1..Len(l)
  BY <1>1
<1>6. ~In1(k, l[1])
  <2> SUFFICES ASSUME NEW i \in 1..Len(k), k[i] = l[1] PROVE FALSE
    BY DEF In1
  <2>1. i + 1 = 1
    BY <1>2, <1>5 DEF Distinct
  <2> QED BY <1>1, <2>1
<1>7. ASSUME NEW q, q # l[1] PROVE In1(k, q) <=> In1(l, q)
  <2>1. In1(k, q) => In1(l, q)
    BY <1>2 DEF In1
  <2>2. In1(l, q) => In1(k, q)
    BY <1>3, <1>7 DEF In1
  <2> QED BY <2>1, <2>2
<1>8. In1(l, l[1])
  BY <1>5 DEF In1
<1> QED BY <1>1, <1>4, <1>5, <1>6, <1>7, <1>8 DEF k

\* u is st with the key p resolved: returned or excused.
Resolved(st, u, p) ==
    /\ u \in ReadState /\ u.pc = st.pc /\ u.job = st.job /\ u.key = st.key /\ u.shard = st.shard
    /\ u.todo = Tail(st.todo)
    /\ st.excused \subseteq u.excused
    /\ \A q \in PKs : q # p => u.got[q] = st.got[q]
    /\ p \in u.excused \/ u.got[p] = st.got[p] + 1

\* A reader that has resolved its key is between two keys.
LEMMA ResolvedIsBetween ==
    ASSUME NEW t \in TableT, NEW st, Reading(st, t), Resolving(st), NEW u, Resolved(st, u, Head(st.todo))
    PROVE  Between(u, t)
<1> DEFINE p == Head(st.todo)
<1>1. st \in ReadState /\ u \in ReadState /\ Ordered(st) /\ Excuses(st, t) /\ Counts(st, t)
  BY DEF Reading, Resolved
<1>2. /\ st.pc # "idle" /\ st.pc # "done" /\ st.job \in {"point", "batched"} /\ st.todo # <<>> /\ Distinct(st.todo)
      /\ st.shard \in Shard /\ st.todo \in Seq(PKs)
      /\ st.job = "point" => st.key \in PKs /\ st.todo = <<st.key>>
  BY <1>1 DEF Ordered, Resolving, Distinct, ReadState
<1>3. /\ p \in PKs /\ In1(st.todo, p) /\ Distinct(u.todo) /\ ~In1(u.todo, p)
      /\ \A q : q # p => (In1(u.todo, q) <=> In1(st.todo, q))
  BY <1>2, TailOf DEF Resolved
<1>4. /\ u.pc = st.pc /\ u.job = st.job /\ u.key = st.key /\ u.shard = st.shard /\ st.excused \subseteq u.excused
      /\ \A q \in PKs : q # p => u.got[q] = st.got[q]
      /\ p \in u.excused \/ u.got[p] = st.got[p] + 1
      /\ u.todo = Tail(st.todo)
  BY DEF Resolved
<1> HIDE DEF p
<1>5. st.job = "point" => u.todo = <<>> /\ p = st.key /\ (u.got[st.key] # 0 \/ st.key \in u.excused)
  <2> SUFFICES ASSUME st.job = "point" PROVE u.todo = <<>> /\ p = st.key /\ (u.got[st.key] # 0 \/ st.key \in u.excused)
    OBVIOUS
  <2>0. st.todo = <<st.key>> /\ st.key \in PKs
    BY <1>2
  <2>1. p = st.key
    BY <2>0 DEF p
  <2>2. u.todo = <<>>
    BY <1>4, <2>0
  <2>3. st.got[p] \in Nat
    BY <1>1, <1>3 DEF ReadState
  <2>4. p \in u.excused \/ u.got[p] # 0
    BY <1>4, <2>3
  <2> QED BY <2>1, <2>2, <2>4
<1>6. Excuses(u, t)
  BY <1>1, <1>2, <1>4 DEF Excuses, Watched
<1>7. ASSUME u.job \in {"batched", "all"}, NEW q \in PKs \ u.excused
      PROVE  /\ u.got[q] = IF t.dir[q].shard < u.shard \/ (t.dir[q].shard = u.shard /\ ~In1(u.todo, q)) THEN 1 ELSE 0
             /\ In1(u.todo, q) => t.dir[q].shard = u.shard
  <2>1. q \in PKs \ st.excused /\ st.job = "batched"
    BY <1>2, <1>4, <1>7
  <2>2. Passed(st, t, q) <=> t.dir[q].shard < st.shard \/ (t.dir[q].shard = st.shard /\ ~In1(st.todo, q))
    BY <1>2 DEF Passed, In1
  <2>3. st.got[q] = IF Passed(st, t, q) THEN 1 ELSE 0
    BY <1>1, <1>2, <2>1 DEF Counts
  <2>4. In1(st.todo, q) => t.dir[q].shard = st.shard
    BY <1>1, <1>2, <2>1 DEF Counts, In1
  <2>5. CASE q # p
    BY <1>3, <1>4, <2>2, <2>3, <2>4, <2>5
  <2>6. CASE q = p
    <3>1. t.dir[q].shard = st.shard /\ st.shard \in Nat
      BY <1>2, <1>3, <2>4, <2>6, PartitionBounds DEF PartitionBounds, Shard
    <3>2. ~Passed(st, t, q)
      BY <1>3, <2>2, <2>6, <3>1
    <3>3. st.got[q] = 0 /\ u.got[q] = st.got[q] + 1
      BY <1>4, <1>7, <2>3, <2>6, <3>2
    <3> QED BY <1>3, <1>4, <2>6, <3>1, <3>3
  <2> QED BY <2>5, <2>6
<1>8. u.job \in {"point", "batched"} /\ u.pc # "idle" /\ u.shard \in Shard /\ (u.todo # <<>> => u.job = "batched")
  BY <1>2, <1>4, <1>5
<1> QED BY <1>1, <1>2, <1>3, <1>4, <1>5, <1>6, <1>7, <1>8 DEF Between

\* The steps of a read, whoever runs it.
Advances(r) == \E st : Reading(st, Table) /\ rd' = [rd EXCEPT ![r] = st] /\ UNCHANGED dataVars

\* The fields of a reader built from them.
LEMMA FieldsAre ==
    ASSUME NEW c, NEW j, NEW k, NEW n, NEW l, NEW g, NEW x, NEW y, NEW z, NEW e, NEW u, u = Fields(c, j, k, n, l, g, x, y, z, e)
    PROVE  /\ u.pc = c /\ u.job = j /\ u.key = k /\ u.shard = n /\ u.todo = l /\ u.got = g /\ u.loc = x
           /\ u.retry = y /\ u.relocs = z /\ u.excused = e
BY DEF Fields

\* A reader built from fields of their types is a reader.
LEMMA FieldsRead ==
    ASSUME NEW c \in {"idle", "lookup", "read", "snap", "pass", "done"}, NEW j \in {"none", "point", "batched", "all"},
           NEW k \in PKs \cup {None}, NEW n \in Nat, NEW l \in Seq(PKs), NEW g \in [PKs -> Nat],
           NEW x \in Loc \cup {None}, NEW y \in Nat, NEW z \in Nat, NEW e \in SUBSET PKs
    PROVE  Fields(c, j, k, n, l, g, x, y, z, e) \in ReadState
BY DEF Fields, ReadState

\* No read.
LEMMA NoReadIs ==
    /\ NoRead \in ReadState /\ NoRead.pc = "idle" /\ NoRead.job = "none" /\ NoRead.todo = <<>> /\ NoRead.loc = None
    /\ NoRead.retry = 0 /\ NoRead.relocs = 0 /\ NoRead.got = [p \in PKs |-> 0]
<1> DEFINE g == [p \in PKs |-> 0]
<1>1. NoRead = Fields("idle", "none", None, 0, <<>>, g, None, 0, 0, {})
  BY DEF NoRead, Fields
<1>2. g \in [PKs -> Nat] /\ <<>> \in Seq(PKs) /\ {} \in SUBSET PKs
  OBVIOUS
<1> HIDE DEF g
<1>3. NoRead \in ReadState
  BY <1>1, <1>2, FieldsRead
<1> QED BY <1>1, <1>3, FieldsAre DEF g

\* What Begin makes of st.
Started(st, j, c, k, l, e) == [st EXCEPT !.pc = c, !.job = j, !.key = k, !.shard = 1, !.todo = l, !.excused = e]

\* Started, field by field.
LEMMA StartIs ==
    ASSUME NEW st, NEW c, NEW j, NEW k, NEW l, NEW e, NEW g, NEW x, NEW y, NEW z, NEW c0, NEW j0, NEW k0, NEW n0, NEW l0, NEW e0,
           st = Fields(c0, j0, k0, n0, l0, g, x, y, z, e0)
    PROVE  Started(st, j, c, k, l, e) = Fields(c, j, k, 1, l, g, x, y, z, e)
<1> DEFINE s1 == [st EXCEPT !.pc = c]
           s2 == [s1 EXCEPT !.job = j]
           s3 == [s2 EXCEPT !.key = k]
           s4 == [s3 EXCEPT !.shard = 1]
           s5 == [s4 EXCEPT !.todo = l]
<1>1. s1 = Fields(c, j0, k0, n0, l0, g, x, y, z, e0)
  BY DEF Fields
<1> HIDE DEF s1
<1>2. s2 = Fields(c, j, k0, n0, l0, g, x, y, z, e0)
  BY <1>1 DEF Fields
<1> HIDE DEF s2
<1>3. s3 = Fields(c, j, k, n0, l0, g, x, y, z, e0)
  BY <1>2 DEF Fields
<1> HIDE DEF s3
<1>4. s4 = Fields(c, j, k, 1, l0, g, x, y, z, e0)
  BY <1>3 DEF Fields
<1> HIDE DEF s4
<1>5. s5 = Fields(c, j, k, 1, l, g, x, y, z, e0)
  BY <1>4 DEF Fields
<1> HIDE DEF s5
<1>6. [s5 EXCEPT !.excused = e] = Fields(c, j, k, 1, l, g, x, y, z, e)
  BY <1>5 DEF Fields
<1> QED BY <1>6, Zenon DEF s1, s2, s3, s4, s5, Started

\* A read that starts.
Starts(j, c, k) ==
    \/ j = "point" /\ c = "lookup" /\ k \in PKs
    \/ j = "batched" /\ c = "snap" /\ k = None
    \/ j = "all" /\ c = "pass" /\ k = None

\* A call starts with the keys absent at its start excused, and nothing counted.
LEMMA BeginReads ==
    ASSUME Sound(Table), ReadersInv, NEW r \in Readers, NEW j, NEW c, NEW k, Starts(j, c, k), Begin(r, j, c, k)
    PROVE  Advances(r)
<1> DEFINE l == IF k = None THEN <<>> ELSE <<k>>
           e == IF k = None THEN Absent ELSE Absent \cap {k}
           g == [p \in PKs |-> 0]
           u == Fields(c, j, k, 1, l, g, None, 0, 0, e)
<1>1. rd' = [rd EXCEPT ![r] = u] /\ UNCHANGED dataVars
  <2>1. Started(NoRead, j, c, k, l, e) = u
    <3>1. NoRead = Fields("idle", "none", None, 0, <<>>, g, None, 0, 0, {})
      BY DEF NoRead, Fields
    <3> HIDE DEF l, e, g
    <3> QED BY <3>1, StartIs
  <2> HIDE DEF u
  <2>2. rd' = [rd EXCEPT ![r] = Started(NoRead, j, c, k, l, e)] /\ UNCHANGED dataVars
    BY Zenon DEF Begin, Started
  <2> QED BY <2>1, <2>2
<1>2. NShards \in Nat \ {0} /\ 1 \in Shard /\ pkRetryBudget \in Nat /\ Table \in TableT /\ Table.dir = dir
  BY PartitionBounds DEF PartitionBounds, Shard, Sound, Table
<1>3. k \in PKs => k # None
  BY NoneIsApart DEF NoneIsApart
<1>4. l \in Seq(PKs) /\ e \in SUBSET PKs /\ g \in [PKs -> Nat] /\ k \in PKs \cup {None}
  BY <1>3 DEF Starts, Absent
<1>5. /\ u \in ReadState /\ u.pc = c /\ u.job = j /\ u.key = k /\ u.shard = 1 /\ u.todo = l /\ u.got = g
      /\ u.loc = None /\ u.retry = 0 /\ u.relocs = 0 /\ u.excused = e
  <2> HIDE DEF l, e, g
  <2>1. /\ c \in {"idle", "lookup", "read", "snap", "pass", "done"} /\ j \in {"none", "point", "batched", "all"}
        /\ 1 \in Nat /\ 0 \in Nat /\ None \in Loc \cup {None}
    BY DEF Starts
  <2>2. u \in ReadState
    BY <1>4, <2>1, FieldsRead
  <2> QED BY <2>2, FieldsAre
<1>6. k \in PKs => l = <<k>> /\ e = Absent \cap {k}
  BY <1>3
<1>7. k = None => l = <<>> /\ e = Absent
  OBVIOUS
<1> HIDE DEF u, l, e
<1>8. Ordered(u)
  <2>1. l = <<>> \/ l = <<k>>
    BY DEF l
  <2>2. \A i, m \in 1..Len(l) : l[i] = l[m] => i = m
    BY <2>1
  <2>3. u.retry <= pkRetryBudget /\ u.relocs <= pkRetryBudget /\ u.shard \in Shard
    BY <1>2, <1>5
  <2>4. u.job # "none" /\ u.pc # "idle" /\ u.pc # "read" /\ (u.pc = "snap" => u.job = "batched") /\ (u.pc = "pass" => u.job = "all")
    BY <1>5 DEF Starts
  <2>5. c = "lookup" => l # <<>> /\ j = "point"
    BY <1>6 DEF Starts
  <2>6. c # "lookup" => l = <<>>
    BY <1>7 DEF Starts
  <2>7. j = "point" => k \in PKs /\ l = <<k>>
    BY <1>6 DEF Starts
  <2> QED BY <1>5, <2>2, <2>3, <2>4, <2>5, <2>6, <2>7 DEF Ordered, Resolving
<1>9. Excuses(u, Table)
  BY <1>2, <1>3, <1>5, <1>6, <1>7 DEF Excuses, Watched, Starts, Absent
<1>10. Tries(u, Table) /\ Answers(u)
  BY <1>5 DEF Tries, Tried, Answers, Starts, Resolving
<1>11. Counts(u, Table)
  <2> SUFFICES ASSUME j \in {"batched", "all"}, NEW p \in PKs \ u.excused
               PROVE  /\ u.got[p] = IF Passed(u, Table, p) THEN 1 ELSE 0
                      /\ (\E i \in 1..Len(u.todo) : u.todo[i] = p) => Table.dir[p].shard = u.shard
    BY <1>5 DEF Counts
  <2>1. k = None /\ l = <<>> /\ c \in {"snap", "pass"}
    BY <1>7 DEF Starts
  <2>2. dir[p] # None
    BY <1>5, <1>7, <2>1 DEF Absent
  <2>3. dir[p].shard \in 1..NShards
    BY <1>2, <2>2, TableParts DEF Loc, Shard
  <2>4. ~Passed(u, Table, p)
    BY <1>2, <1>5, <2>1, <2>3 DEF Passed, Resolving
  <2> QED BY <1>5, <2>1, <2>4
<1> QED BY <1>1, <1>5, <1>8, <1>9, <1>10, <1>11 DEF Reading, Advances

\* The end of a read.
LEMMA ReturnReads ==
    ASSUME NEW r \in Readers, Return(r)
    PROVE  Advances(r)
<1> DEFINE u == Counted(NoRead)
<1>2. u \in ReadState /\ u.pc = "idle" /\ u.job = "none" /\ u.todo = <<>> /\ u.retry = 0 /\ u.relocs = 0
  BY NoReadIs, CountedIs DEF Recounted
<1>3. rd' = [rd EXCEPT ![r] = u] /\ UNCHANGED dataVars
  BY DEF Return, ReaderStep
<1> HIDE DEF u
<1>4. pkRetryBudget \in Nat
  BY PartitionBounds DEF PartitionBounds
<1>5. Reading(u, Table)
  BY <1>2, <1>4 DEF Reading, Ordered, Excuses, Tries, Answers, Counts, Resolving
<1> QED BY <1>3, <1>5 DEF Advances

\* A key, or a shard, is done.
LEMMA GoesOn ==
    ASSUME Sound(Table), NEW r, NEW st, Between(st, Table), ReaderStep(r, Onward(st))
    PROVE  Advances(r)
<1> DEFINE u == Counted(Onward(st))
<1>1. Reading(u, Table)
  BY OnwardReads DEF Sound
<1>2. rd' = [rd EXCEPT ![r] = u] /\ UNCHANGED dataVars
  BY DEF ReaderStep
<1> HIDE DEF u
<1> QED BY <1>1, <1>2 DEF Advances

\* scanAll passes a shard.
LEMMA PassReads ==
    ASSUME Sound(Table), ReadersInv, NEW r \in Readers, Pass(r)
    PROVE  Advances(r)
<1> DEFINE st == rd[r]
           l == shardPKs(st.shard)
           g == [p \in PKs |-> st.got[p] + Cardinality({i \in DOMAIN l : l[i] = p})]
           u == [st EXCEPT !.got = g]
           t == Table
<1>0. Reading(st, t) /\ st.pc = "pass"
  BY DEF ReadersInv, Pass
<1>1. ReaderStep(r, Onward(u))
  BY DEF Pass
<1> HIDE DEF st
<1>2. /\ st \in ReadState /\ st.job = "all" /\ st.todo = <<>> /\ st.shard \in Shard
      /\ Excuses(st, t) /\ Counts(st, t)
  BY <1>0 DEF Reading, Ordered, Resolving
<1>3. KeysOfShard(l, st.shard, t)
  BY <1>2, ShardKeys
<1> HIDE DEF l
<1>4. st.got \in [PKs -> Nat] /\ \A p \in PKs : Cardinality({i \in DOMAIN l : l[i] = p}) = IF In1(l, p) THEN 1 ELSE 0
  BY <1>2, <1>3 DEF KeysOfShard, ReadState
<1>5. g \in [PKs -> Nat] /\ \A p \in PKs : g[p] = st.got[p] + IF In1(l, p) THEN 1 ELSE 0
  BY <1>4
<1> HIDE DEF g
<1>6. /\ u \in ReadState /\ u.pc = "pass" /\ u.job = "all" /\ u.todo = <<>> /\ u.shard = st.shard
      /\ u.got = g /\ u.excused = st.excused
  BY <1>0, <1>2, <1>5 DEF ReadState
<1> HIDE DEF u
<1>7. Excuses(u, t)
  BY <1>0, <1>2, <1>6 DEF Excuses, Watched
<1>8. ASSUME NEW p \in PKs \ u.excused
      PROVE  /\ u.got[p] = IF t.dir[p].shard < u.shard \/ (t.dir[p].shard = u.shard /\ ~In1(u.todo, p)) THEN 1 ELSE 0
             /\ In1(u.todo, p) => t.dir[p].shard = u.shard
  <2>1. t.dir[p] # None /\ p \in PKs \ st.excused /\ ~In1(u.todo, p)
    BY <1>6, <1>7 DEF Excuses, Watched, In1
  <2>2. t.dir[p].shard \in 1..NShards /\ st.shard \in 1..NShards /\ NShards \in Nat
    BY <1>2, <2>1, TableParts, PartitionBounds DEF Sound, Loc, Shard, PartitionBounds
  <2>3. In1(l, p) <=> t.dir[p].shard = st.shard
    BY <1>3, <2>1 DEF KeysOfShard
  <2>4. Passed(st, t, p) <=> t.dir[p].shard < st.shard
    BY <1>0 DEF Passed, Resolving
  <2>5. st.got[p] = IF t.dir[p].shard < st.shard THEN 1 ELSE 0
    BY <1>0, <1>2, <2>1, <2>4 DEF Counts
  <2> QED BY <1>5, <1>6, <2>1, <2>2, <2>3, <2>5
<1>9. Distinct(u.todo)
  BY <1>6 DEF Distinct
<1>10. Between(u, t)
  BY <1>2, <1>6, <1>7, <1>8, <1>9 DEF Between
<1> QED BY <1>1, <1>10, GoesOn

\* scanShardsBatched takes the keys of a shard.
LEMMA SnapReads ==
    ASSUME Sound(Table), ReadersInv, NEW r \in Readers, Snap(r)
    PROVE  Advances(r)
<1> DEFINE st == rd[r]
           l == shardPKs(st.shard)
           u == [st EXCEPT !.todo = l]
           t == Table
<1>0. Reading(st, t) /\ st.pc = "snap"
  BY DEF ReadersInv, Snap
<1>1. ReaderStep(r, Onward(u))
  BY DEF Snap
<1> HIDE DEF st
<1>2. /\ st \in ReadState /\ st.job = "batched" /\ st.shard \in Shard /\ Excuses(st, t) /\ Counts(st, t)
  BY <1>0 DEF Reading, Ordered, Resolving
<1>3. KeysOfShard(l, st.shard, t)
  BY <1>2, ShardKeys
<1> HIDE DEF l
<1>4. l \in Seq(PKs) /\ Distinct(l)
  BY <1>3 DEF KeysOfShard
<1>6. /\ u \in ReadState /\ u.pc = "snap" /\ u.job = "batched" /\ u.todo = l /\ u.shard = st.shard
      /\ u.got = st.got /\ u.excused = st.excused
  BY <1>0, <1>2, <1>4 DEF ReadState
<1> HIDE DEF u
<1>7. Excuses(u, t)
  BY <1>0, <1>2, <1>6 DEF Excuses, Watched
<1>8. ASSUME NEW p \in PKs \ u.excused
      PROVE  /\ u.got[p] = IF t.dir[p].shard < u.shard \/ (t.dir[p].shard = u.shard /\ ~In1(u.todo, p)) THEN 1 ELSE 0
             /\ In1(u.todo, p) => t.dir[p].shard = u.shard
  <2>1. t.dir[p] # None /\ p \in PKs \ st.excused
    BY <1>6, <1>7 DEF Excuses, Watched
  <2>3. In1(l, p) <=> t.dir[p].shard = st.shard
    BY <1>3, <2>1 DEF KeysOfShard
  <2>4. Passed(st, t, p) <=> t.dir[p].shard < st.shard
    BY <1>0 DEF Passed, Resolving
  <2>5. st.got[p] = IF t.dir[p].shard < st.shard THEN 1 ELSE 0
    BY <1>0, <1>2, <2>1, <2>4 DEF Counts
  <2> QED BY <1>6, <2>3, <2>5
<1>10. Between(u, t)
  BY <1>2, <1>4, <1>6, <1>7, <1>8 DEF Between
<1> QED BY <1>1, <1>10, GoesOn

\* What a read that resolves a key knows.
LEMMA ResolvingKnows ==
    ASSUME NEW st, Reading(st, Table), Resolving(st)
    PROVE  /\ st \in ReadState /\ Head(st.todo) \in PKs /\ Tail(st.todo) \in Seq(PKs) /\ st.todo # <<>>
           /\ Distinct(st.todo) /\ st.shard \in Shard /\ st.pc # "idle"
           /\ Table.dir[Head(st.todo)] = None => Head(st.todo) \in st.excused
<1>1. /\ st \in ReadState /\ st.todo \in Seq(PKs) /\ st.todo # <<>> /\ Distinct(st.todo) /\ st.shard \in Shard
      /\ st.pc # "idle" /\ Excuses(st, Table)
      /\ st.job = "point" => st.todo = <<st.key>> /\ st.key \in PKs
  BY DEF Reading, Ordered, Resolving, ReadState, Distinct
<1>2. Head(st.todo) \in PKs /\ Tail(st.todo) \in Seq(PKs)
  BY <1>1, TailOf
<1>3. Head(st.todo) \in Watched(st)
  <2>1. CASE st.job = "point"
    <3>1. Head(<<st.key>>) = st.key
      OBVIOUS
    <3> QED BY <1>1, <2>1, <3>1 DEF Watched
  <2> QED BY <1>2, <2>1 DEF Watched
<1> QED BY <1>1, <1>2, <1>3 DEF Excuses

\* Counting leaves a read as it is.
LEMMA CountedReads ==
    ASSUME NEW t, NEW st, Reading(st, t)
    PROVE  Reading(Counted(st), t)
<1> DEFINE u == Counted(st)
<1>1. st \in ReadState
  BY DEF Reading
<1>2. Recounted(st, u)
  BY <1>1, CountedIs
<1> HIDE DEF u
<1>3. Ordered(u) /\ Excuses(u, t) /\ Tries(u, t)
  BY <1>2 DEF Reading, Recounted, Ordered, Excuses, Watched, Tries, Tried, Resolving
<1>4. Answers(u)
  BY <1>2 DEF Reading, Recounted, Answers, Ordered
<1>5. Counts(u, t)
  <2> SUFFICES ASSUME u.pc # "idle", u.job \in {"batched", "all"}, NEW p \in PKs \ u.excused
               PROVE  /\ u.got[p] = IF Passed(u, t, p) THEN 1 ELSE 0
                      /\ (\E i \in 1..Len(u.todo) : u.todo[i] = p) => t.dir[p].shard = u.shard
    BY DEF Counts
  <2>1. /\ st.pc # "idle" /\ st.job \in {"batched", "all"} /\ p \in PKs \ st.excused /\ u.got[p] = st.got[p]
        /\ u.todo = st.todo /\ u.shard = st.shard /\ u.pc = st.pc
    BY <1>2 DEF Recounted
  <2>2. Passed(u, t, p) <=> Passed(st, t, p)
    BY <2>1 DEF Passed, Resolving
  <2> QED BY <2>1, <2>2 DEF Reading, Counts
<1> QED BY <1>2, <1>3, <1>4, <1>5 DEF Reading, Recounted, u

\* A reader whose step changes no field but the counts keeps its promises.
LEMMA StaysAt ==
    ASSUME NEW r, NEW st, Reading(st, Table), ReaderStep(r, st)
    PROVE  Advances(r)
<1> DEFINE u == Counted(st)
<1>1. Reading(u, Table)
  BY CountedReads
<1>2. rd' = [rd EXCEPT ![r] = u] /\ UNCHANGED dataVars
  BY DEF ReaderStep
<1> HIDE DEF u
<1> QED BY <1>1, <1>2 DEF Advances

\* u is st about to read at x, or to look up again, with n tries behind it.
Tracks(st, u, c, x, n) ==
    /\ u \in ReadState /\ u.pc = c /\ u.loc = x /\ u.retry = n
    /\ u.job = st.job /\ u.key = st.key /\ u.shard = st.shard /\ u.todo = st.todo /\ u.got = st.got
    /\ u.relocs = st.relocs /\ u.excused = st.excused

\* A reader that goes on with its key, after a lookup or a retry.
LEMMA TracksReads ==
    ASSUME NEW t, NEW st, Reading(st, t), Resolving(st), NEW c \in {"lookup", "read"}, NEW x, NEW n \in Nat, NEW u,
           Tracks(st, u, c, x, n), n <= pkRetryBudget, c = "read" => x # None,
           \A p \in PKs \ st.excused : p = Head(st.todo) => Tried(u, t, p)
    PROVE  Reading(u, t)
<1>1. Ordered(u)
  BY DEF Reading, Ordered, Resolving, Tracks
<1>2. Excuses(u, t) /\ Answers(u)
  BY DEF Reading, Excuses, Resolving, Watched, Tracks, Answers
<1>3. Tries(u, t)
  BY DEF Tries, Tracks
<1>4. Counts(u, t)
  <2> SUFFICES ASSUME u.job \in {"batched", "all"}, NEW p \in PKs \ u.excused
               PROVE  /\ u.got[p] = IF Passed(u, t, p) THEN 1 ELSE 0
                      /\ (\E i \in 1..Len(u.todo) : u.todo[i] = p) => t.dir[p].shard = u.shard
    BY DEF Counts
  <2>1. /\ st.pc # "idle" /\ st.job \in {"batched", "all"} /\ p \in PKs \ st.excused /\ u.got[p] = st.got[p]
        /\ u.todo = st.todo /\ u.shard = st.shard /\ Resolving(u) /\ st.pc # "done" /\ u.pc # "done"
    BY DEF Tracks, Resolving
  <2>2. Passed(u, t, p) <=> Passed(st, t, p)
    BY <2>1 DEF Passed
  <2> QED BY <2>1, <2>2 DEF Reading, Counts
<1> QED BY <1>1, <1>2, <1>3, <1>4 DEF Reading, Tracks

\* A key is looked up.
LEMMA LookupReads ==
    ASSUME Sound(Table), ReadersInv, NEW r \in Readers, Lookup(r)
    PROVE  Advances(r)
<1> DEFINE st == rd[r]
           p == Head(st.todo)
           t == Table
<1>0. Reading(st, t) /\ st.pc = "lookup" /\ Resolving(st)
  BY DEF ReadersInv, Lookup, Resolving
<1>1. ReaderStep(r, IF dir[p] = None THEN Onward([st EXCEPT !.todo = Tail(@)]) ELSE [st EXCEPT !.pc = "read", !.loc = dir[p]])
  BY DEF Lookup
<1> HIDE DEF st
<1>2. /\ st \in ReadState /\ p \in PKs /\ Tail(st.todo) \in Seq(PKs) /\ (t.dir[p] = None => p \in st.excused)
      /\ t \in TableT /\ t.dir = dir
  BY <1>0, ResolvingKnows DEF Sound, Table
<1>3. CASE dir[p] = None
  <2> DEFINE u == [st EXCEPT !.todo = Tail(@)]
  <2>1. ReaderStep(r, Onward(u))
    BY <1>1, <1>3
  <2>2. Resolved(st, u, p)
    BY <1>2, <1>3 DEF Resolved, ReadState
  <2> HIDE DEF u
  <2>3. Between(u, t)
    BY <1>0, <1>2, <2>2, ResolvedIsBetween
  <2> QED BY <2>1, <2>3, GoesOn
<1>4. CASE dir[p] # None
  <2> DEFINE u == [st EXCEPT !.pc = "read", !.loc = dir[p]]
  <2>1. ReaderStep(r, u)
    BY <1>1, <1>4
  <2>2. dir[p] \in Loc
    BY <1>2, <1>4, TableParts
  <2>3. Tracks(st, u, "read", dir[p], st.retry)
    BY <1>2, <2>2 DEF Tracks, ReadState
  <2> HIDE DEF u
  <2>4. st.retry \in Nat /\ st.retry <= pkRetryBudget
    BY <1>0 DEF Reading, Ordered, ReadState
  <2>5. ASSUME NEW q \in PKs \ st.excused, q = Head(st.todo) PROVE Tried(u, t, q)
    <3>1. st.relocs >= st.retry
      BY <1>0, <2>5 DEF Reading, Tries, Tried
    <3> QED BY <1>2, <2>3, <2>5, <3>1 DEF Tried, Tracks
  <2>6. Reading(u, t)
    BY <1>0, <1>4, <2>3, <2>4, <2>5, TracksReads
  <2> QED BY <2>1, <2>6, StaysAt
<1> QED BY <1>3, <1>4

\* What a stale location makes of st.
Retried(st) == [st EXCEPT !.pc = "lookup", !.loc = None, !.retry = @ + 1]

\* Retried, field by field.
LEMMA RetriedIs ==
    ASSUME NEW c, NEW j, NEW k, NEW n, NEW l, NEW g, NEW x, NEW y, NEW z, NEW e, NEW st, st = Fields(c, j, k, n, l, g, x, y, z, e)
    PROVE  Retried(st) = Fields("lookup", j, k, n, l, g, None, y + 1, z, e)
<1> DEFINE s1 == [st EXCEPT !.pc = "lookup"]
           s2 == [s1 EXCEPT !.loc = None]
<1>1. s1 = Fields("lookup", j, k, n, l, g, x, y, z, e)
  BY DEF Fields
<1> HIDE DEF s1
<1>2. s2 = Fields("lookup", j, k, n, l, g, None, y, z, e)
  BY <1>1 DEF Fields
<1> HIDE DEF s2
<1>3. [s2 EXCEPT !.retry = @ + 1] = Fields("lookup", j, k, n, l, g, None, y + 1, z, e)
  BY <1>2 DEF Fields
<1> QED BY <1>3, Zenon DEF s1, s2, Retried

\* The row at a location is read.
LEMMA ReadRowReads ==
    ASSUME Sound(Table), ReadersInv, NEW r \in Readers, ReadRow(r)
    PROVE  Advances(r)
<1> DEFINE st == rd[r]
           p == Head(st.todo)
           t == Table
           hit == At(Table, st.loc) # None /\ At(Table, st.loc).pk = p
           e == IF st.relocs = pkRetryBudget THEN st.excused \cup {p} ELSE st.excused
           found == [st EXCEPT !.got[p] = @ + 1, !.todo = Tail(@)]
           again == [st EXCEPT !.pc = "lookup", !.loc = None, !.retry = @ + 1]
           given == [st EXCEPT !.todo = Tail(@), !.excused = e]
<1>0. Reading(st, t) /\ st.pc = "read" /\ Resolving(st)
  BY DEF ReadersInv, ReadRow, Resolving
<1>1. /\ hit => ReaderStep(r, Onward(found))
      /\ ~hit /\ st.retry + 1 < pkRetryBudget => ReaderStep(r, again)
      /\ ~hit /\ ~(st.retry + 1 < pkRetryBudget) => ReaderStep(r, Onward(given))
  BY DEF ReadRow
<1> HIDE DEF st
<1>2. /\ st \in ReadState /\ p \in PKs /\ Tail(st.todo) \in Seq(PKs) /\ (t.dir[p] = None => p \in st.excused)
      /\ t \in TableT /\ Placed(t) /\ Ordered(st) /\ st.todo \in Seq(PKs) /\ st.got \in [PKs -> Nat]
      /\ st.retry \in Nat /\ st.relocs \in Nat /\ pkRetryBudget \in Nat /\ st.excused \in SUBSET PKs
      /\ st.retry <= pkRetryBudget /\ st.relocs <= pkRetryBudget
  BY <1>0, ResolvingKnows, PartitionBounds DEF Sound, Reading, ReadState, Ordered, PartitionBounds
<1>3. ASSUME ~hit, p \notin st.excused PROVE st.relocs >= Cap(st.retry + 1)
  <2>1. t.dir[p] # None
    BY <1>2, <1>3
  <2>2. At(t, t.dir[p]) # None /\ At(t, t.dir[p]).pk = p
    BY <1>2, <2>1, LocParts
  <2>3. st.loc # t.dir[p]
    BY <1>3, <2>2
  <2> QED BY <1>0, <1>2, <1>3, <2>3 DEF Reading, Tries, Tried
<1> HIDE DEF p
<1>4. CASE hit
  <2>1. st.got[p] + 1 \in Nat /\ [st.got EXCEPT ![p] = @ + 1] \in [PKs -> Nat]
    BY <1>2
  <2>2. Resolved(st, found, p)
    BY <1>2, <2>1 DEF Resolved, ReadState
  <2>3. ReaderStep(r, Onward(found))
    BY <1>1, <1>4
  <2> HIDE DEF found, hit
  <2>4. Between(found, t)
    BY <1>0, <1>2, <2>2, ResolvedIsBetween DEF p
  <2> QED BY <2>3, <2>4, GoesOn
<1>5. CASE ~hit /\ st.retry + 1 < pkRetryBudget
  <2>1. Tracks(st, again, "lookup", None, st.retry + 1)
    <3>1. st = Fields(st.pc, st.job, st.key, st.shard, st.todo, st.got, st.loc, st.retry, st.relocs, st.excused)
      BY <1>2, FieldsOf
    <3>2. again = Retried(st)
      BY Zenon DEF Retried
    <3> HIDE DEF again
    <3>4. again = Fields("lookup", st.job, st.key, st.shard, st.todo, st.got, None, st.retry + 1, st.relocs, st.excused)
      BY <3>1, <3>2, RetriedIs
    <3>3. again \in ReadState
      BY <1>2, <3>4 DEF Fields, ReadState
    <3> QED BY <3>3, <3>4, FieldsAre DEF Tracks
  <2>2. ReaderStep(r, again)
    BY <1>1, <1>5
  <2> HIDE DEF again
  <2>3. st.retry + 1 <= pkRetryBudget /\ st.retry + 1 \in Nat
    BY <1>2, <1>5
  <2>4. ASSUME NEW q \in PKs \ st.excused, q = Head(st.todo) PROVE Tried(again, t, q)
    <3>1. st.relocs >= Cap(st.retry + 1)
      BY <1>3, <1>5, <2>4 DEF p
    <3>2. st.relocs >= st.retry + 1
      BY <1>2, <1>5, <3>1 DEF Cap
    <3> QED BY <2>1, <3>2 DEF Tried, Tracks
  <2> HIDE DEF hit
  <2>5. Reading(again, t)
    BY <1>0, <2>1, <2>3, <2>4, TracksReads
  <2> QED BY <2>2, <2>5, StaysAt
<1>6. CASE ~hit /\ ~(st.retry + 1 < pkRetryBudget)
  <2>1. p \in e /\ e \in SUBSET PKs /\ st.excused \subseteq e
    <3>1. CASE p \in st.excused
      BY <1>2, <3>1
    <3>2. CASE p \notin st.excused
      <4>1. st.relocs >= Cap(st.retry + 1)
        BY <1>3, <1>6, <3>2
      <4>2. st.relocs = pkRetryBudget
        BY <1>2, <1>6, <4>1 DEF Cap
      <4> QED BY <1>2, <4>2
    <3> QED BY <3>1, <3>2
  <2>2. ReaderStep(r, Onward(given))
    BY <1>1, <1>6
  <2> HIDE DEF e, hit
  <2>3. Resolved(st, given, p)
    BY <1>2, <2>1 DEF Resolved, ReadState
  <2> HIDE DEF given
  <2>4. Between(given, t)
    BY <1>0, <1>2, <2>3, ResolvedIsBetween DEF p
  <2> QED BY <2>2, <2>4, GoesOn
<1> QED BY <1>4, <1>5, <1>6

\* Every step of a reader keeps its promises to the table as it is.
LEMMA ReaderAdvances ==
    ASSUME Sound(Table), ReadersInv, NEW r \in Readers, Reader(r)
    PROVE  Advances(r)
<1>1. ASSUME NEW p \in PKs, getByPKPartitioned(r, p) PROVE Advances(r)
  BY <1>1, BeginReads DEF getByPKPartitioned, Starts
<1>2. ASSUME scanShardsBatched(r) PROVE Advances(r)
  BY <1>2, BeginReads DEF scanShardsBatched, Starts
<1>3. ASSUME scanAll(r) PROVE Advances(r)
  BY <1>3, BeginReads DEF scanAll, Starts
<1> QED BY <1>1, <1>2, <1>3, PassReads, SnapReads, LookupReads, ReadRowReads, ReturnReads DEF Reader

----------------------------------------------------------------------------
(* The steps of the writers and of the sweeper, as a reader meets them.    *)

\* u is st after the table became t.
Notices(st, u, t) ==
    /\ u \in ReadState /\ u.pc = st.pc /\ u.job = st.job /\ u.key = st.key /\ u.shard = st.shard /\ u.todo = st.todo
    /\ u.got = st.got /\ u.loc = st.loc /\ u.retry = st.retry
    /\ st.excused \subseteq u.excused
    /\ \A p \in Watched(st) : t.dir[p] = None => p \in u.excused
    /\ st.job \in {"batched", "all"} => \A p \in PKs : PartOf(t, p) # PartOf(Table, p) => p \in u.excused
    /\ u.relocs = IF st.todo # <<>> /\ t.dir[Head(st.todo)] # Table.dir[Head(st.todo)] THEN Cap(st.relocs + 1) ELSE st.relocs

\* A key of the same partition stays in its shard.
LEMMA SameShard ==
    ASSUME NEW t, NEW u, Sound(t), Sound(u), NEW p \in PKs, t.dir[p] # None, u.dir[p] # None, PartOf(t, p) = PartOf(u, p)
    PROVE  t.dir[p].shard = u.dir[p].shard
<1>1. PartOf(t, p) = At(t, t.dir[p]).part /\ PartOf(u, p) = At(u, u.dir[p]).part
  BY DEF PartOf
<1>2. shardOf[At(t, t.dir[p]).part] = t.dir[p].shard
  BY LocParts DEF Sound
<1>3. shardOf[At(u, u.dir[p]).part] = u.dir[p].shard
  BY LocParts DEF Sound
<1> QED BY <1>1, <1>2, <1>3

\* A reader that notices a store of the table keeps its promises to the new table.
LEMMA NoticesReads ==
    ASSUME Sound(Table), NEW t, Sound(t), NEW st, Reading(st, Table), st.pc # "idle", NEW u, Notices(st, u, t)
    PROVE  Reading(u, t)
<1>1. /\ st \in ReadState /\ Ordered(st) /\ Excuses(st, Table) /\ Tries(st, Table) /\ Answers(st) /\ Counts(st, Table)
      /\ u \in ReadState /\ u.pc = st.pc /\ u.job = st.job /\ u.key = st.key /\ u.shard = st.shard /\ u.todo = st.todo
      /\ u.got = st.got /\ u.loc = st.loc /\ u.retry = st.retry /\ st.excused \subseteq u.excused
  BY DEF Reading, Notices
<1>2. /\ st.relocs \in Nat /\ st.retry \in Nat /\ pkRetryBudget \in Nat /\ st.relocs <= pkRetryBudget
      /\ st.retry <= pkRetryBudget
  BY <1>1, PartitionBounds DEF Ordered, ReadState, PartitionBounds
<1>3. /\ Cap(st.relocs + 1) <= pkRetryBudget /\ Cap(st.relocs + 1) >= st.relocs
      /\ Cap(st.retry + 1) >= st.retry /\ (st.relocs >= st.retry => Cap(st.relocs + 1) >= Cap(st.retry + 1))
      /\ Cap(st.retry + 1) \in Nat /\ Cap(st.relocs + 1) \in Nat
  BY <1>2 DEF Cap
<1>4. u.relocs <= pkRetryBudget
  BY <1>2, <1>3 DEF Notices
<1>5. Ordered(u)
  BY <1>1, <1>4 DEF Ordered, Resolving
<1>6. Excuses(u, t)
  BY <1>1 DEF Excuses, Watched, Notices
<1>7. Tries(u, t)
  <2> SUFFICES ASSUME Resolving(u), NEW p \in PKs \ u.excused, p = Head(u.todo) PROVE Tried(u, t, p)
    BY DEF Tries
  <2>1. Resolving(st) /\ st.todo # <<>> /\ p = Head(st.todo) /\ p \in PKs \ st.excused
    BY <1>1 DEF Resolving, Ordered
  <2>2. Tried(st, Table, p)
    BY <1>1, <2>1 DEF Tries
  <2>3. CASE t.dir[p] = Table.dir[p]
    <3>1. u.relocs = st.relocs
      BY <2>1, <2>3 DEF Notices
    <3> QED BY <1>1, <2>2, <2>3, <3>1 DEF Tried
  <2>4. CASE t.dir[p] # Table.dir[p]
    <3>1. u.relocs = Cap(st.relocs + 1)
      BY <2>1, <2>4 DEF Notices
    <3>2. st.relocs >= st.retry \/ st.relocs >= Cap(st.retry + 1)
      BY <2>2 DEF Tried
    <3>3. Cap(st.relocs + 1) >= Cap(st.retry + 1)
      BY <1>2, <1>3, <3>2
    <3> QED BY <1>1, <1>2, <1>3, <3>1, <3>3 DEF Tried
  <2> QED BY <2>3, <2>4
<1>8. Answers(u)
  BY <1>1 DEF Answers
<1>9. Counts(u, t)
  <2> SUFFICES ASSUME u.job \in {"batched", "all"}, NEW p \in PKs \ u.excused
               PROVE  /\ u.got[p] = IF Passed(u, t, p) THEN 1 ELSE 0
                      /\ (\E i \in 1..Len(u.todo) : u.todo[i] = p) => t.dir[p].shard = u.shard
    BY DEF Counts
  <2>1. p \in PKs \ st.excused /\ st.job \in {"batched", "all"}
    BY <1>1
  <2>2. Table.dir[p] # None /\ t.dir[p] # None
    BY <1>1, <2>1 DEF Excuses, Watched, Notices
  <2>3. PartOf(t, p) = PartOf(Table, p)
    BY <2>1 DEF Notices
  <2>4. t.dir[p].shard = Table.dir[p].shard
    BY <2>2, <2>3, SameShard
  <2>5. Passed(u, t, p) <=> Passed(st, Table, p)
    BY <1>1, <2>4 DEF Passed, Resolving
  <2>6. /\ st.got[p] = IF Passed(st, Table, p) THEN 1 ELSE 0
        /\ (\E i \in 1..Len(st.todo) : st.todo[i] = p) => Table.dir[p].shard = st.shard
    BY <1>1, <2>1 DEF Counts
  <2> QED BY <1>1, <2>4, <2>5, <2>6
<1> QED BY <1>1, <1>5, <1>6, <1>7, <1>8, <1>9 DEF Reading

\* An idle reader promises nothing.
LEMMA IdleReads ==
    ASSUME NEW t, NEW u, NEW st, Reading(st, t), st.pc = "idle"
    PROVE  Reading(st, u)
BY DEF Reading, Excuses, Tries, Resolving, Counts

\* What the readers notice of a store keeps each of their promises.
LEMMA NoticedReads ==
    ASSUME Sound(Table), NEW t, Sound(t), ReadersInv, NEW r \in Readers
    PROVE  Reading(Noticed(t)[r], t)
<1> DEFINE st == rd[r]
           e == st.excused \cup IF st.job = "point" THEN {p \in {st.key} : t.dir[p] = None}
                                ELSE {p \in PKs : t.dir[p] = None \/ PartOf(t, p) # PartOf(Table, p)}
           n == IF st.todo # <<>> /\ t.dir[Head(st.todo)] # dir[Head(st.todo)] THEN Cap(st.relocs + 1) ELSE st.relocs
           u == [st EXCEPT !.excused = e, !.relocs = n]
<1>1. Reading(st, Table)
  BY DEF ReadersInv
<1>2. Noticed(t)[r] = IF st.pc = "idle" THEN st ELSE Counted(u)
  BY DEF Noticed
<1> HIDE DEF st
<1>3. CASE st.pc = "idle"
  BY <1>1, <1>2, <1>3, IdleReads
<1>4. CASE st.pc # "idle"
  <2>1. /\ st \in ReadState /\ st.excused \in SUBSET PKs /\ st.relocs \in Nat /\ pkRetryBudget \in Nat
        /\ st.job = "point" => st.key \in PKs
        /\ st.job \in {"point", "batched", "all"}
    BY <1>1, <1>4, PartitionBounds DEF Reading, ReadState, Ordered, PartitionBounds
  <2>2. e \in SUBSET PKs
    BY <2>1
  <2>3. n \in Nat
    BY <2>1 DEF Cap
  <2>4. n = IF st.todo # <<>> /\ t.dir[Head(st.todo)] # Table.dir[Head(st.todo)] THEN Cap(st.relocs + 1) ELSE st.relocs
    BY DEF Table
  <2>5. /\ st.excused \subseteq e /\ \A p \in Watched(st) : t.dir[p] = None => p \in e
        /\ st.job \in {"batched", "all"} => \A p \in PKs : PartOf(t, p) # PartOf(Table, p) => p \in e
    BY <2>1 DEF Watched
  <2> HIDE DEF e, n
  <2>6. /\ u \in ReadState /\ u.pc = st.pc /\ u.job = st.job /\ u.key = st.key /\ u.shard = st.shard /\ u.todo = st.todo
        /\ u.got = st.got /\ u.loc = st.loc /\ u.retry = st.retry /\ u.excused = e /\ u.relocs = n
    BY <2>1, <2>2, <2>3 DEF ReadState
  <2>7. Notices(st, u, t)
    BY <2>4, <2>5, <2>6 DEF Notices
  <2> HIDE DEF u
  <2>8. Reading(u, t)
    BY <1>1, <1>4, <2>7, NoticesReads
  <2>9. Reading(Counted(u), t)
    BY <2>8, CountedReads
  <2> QED BY <1>2, <1>4, <2>9
<1> QED BY <1>3, <1>4

\* What a step does to the table and the readers.
Touches ==
    \/ NoStore
    \/ \E t : Sound(t) /\ Store(t)
    \/ \E r \in Readers : Advances(r)

\* A step either leaves the table to the readers, or stores and is noticed.
LEMMA StepTouches ==
    ASSUME PartitionInv, ReadersInv, [Next]_vars
    PROVE  Touches
<1>1. Sound(Table) /\ LockTypes /\ LocksAgree
  BY TableIsSound
<1>2. ASSUME NEW w \in Writers, Writer(w) PROVE Touches
  <2>1. ASSUME Finish(w) PROVE Touches
    BY <1>1, <2>1, FinishChanges DEF Changes, Touches
  <2>2. ~Finish(w) => NoStore
    BY <1>2, Zenon DEF Writer, LockDir, StartUpdateWhere, LockShard, UpdateLookup
  <2> QED BY <2>1, <2>2 DEF Touches
<1>3. ASSUME NEW r \in Readers, Reader(r) PROVE Touches
  BY <1>1, <1>3, ReaderAdvances DEF Touches
<1>4. ASSUME Sweep PROVE Touches
  <2>1. ASSUME compactShardIfDense PROVE Touches
    <3> DEFINE t == IF shardDense(Table, sw.shard) THEN compactShardLocked(Table, sw.shard) ELSE Table
    <3>1. sw.shard \in Shard /\ Store(t)
      BY <1>1, <2>1 DEF LockTypes, compactShardIfDense
    <3>2. Sound(t)
      BY <1>1, <3>1, CompactIsSound
    <3> HIDE DEF t
    <3> QED BY <3>1, <3>2 DEF Touches
  <2>2. ~compactShardIfDense => NoStore
    BY <1>4, Zenon DEF Sweep, PreCheck, QueueForDir, SweepLockDir
  <2> QED BY <2>1, <2>2 DEF Touches
<1>5. UNCHANGED vars => NoStore
  BY DEF vars, NoStore
<1> QED BY <1>2, <1>3, <1>4, <1>5 DEF Next, Touches

\* Both kinds of step keep the promises of all readers.
LEMMA TouchReads ==
    ASSUME PartitionInv, ReadersInv, Touches
    PROVE  ReadersInv'
<1>1. Sound(Table)
  BY TableIsSound
<1>2. ASSUME NoStore PROVE ReadersInv'
  <2>1. Table' = Table /\ rd' = rd
    BY <1>2 DEF NoStore, dataVars, Table
  <2> QED BY <2>1 DEF ReadersInv
<1>3. ASSUME NEW t, Sound(t), Store(t) PROVE ReadersInv'
  <2>1. Table' = t
    BY <1>3, StoreIs
  <2>2. rd' = Noticed(t) /\ DOMAIN Noticed(t) = Readers
    BY <1>3 DEF Store, Noticed
  <2>3. \A r \in Readers : Reading(Noticed(t)[r], t)
    BY <1>1, <1>3, NoticedReads
  <2> QED BY <2>1, <2>2, <2>3 DEF ReadersInv
<1>4. ASSUME NEW r \in Readers, Advances(r) PROVE ReadersInv'
  <2>1. PICK st : Reading(st, Table) /\ rd' = [rd EXCEPT ![r] = st] /\ UNCHANGED dataVars
    BY <1>4 DEF Advances
  <2>2. Table' = Table
    BY <2>1 DEF dataVars, Table
  <2>3. DOMAIN rd' = Readers /\ \A o \in Readers : rd'[o] = IF o = r THEN st ELSE rd[o]
    BY <2>1 DEF ReadersInv
  <2> QED BY <2>1, <2>2, <2>3 DEF ReadersInv
<1> QED BY <1>2, <1>3, <1>4 DEF Touches

\* What every read knows of the table, at every moment of it.
THEOREM ReadsKeepTrack == Spec => []ReadersInv
<1>1. Init => ReadersInv
  <2> SUFFICES ASSUME Init PROVE ReadersInv
    OBVIOUS
  <2>1. pkRetryBudget \in Nat
    BY PartitionBounds DEF PartitionBounds
  <2>2. Reading(NoRead, Table)
    BY <2>1, NoReadIs DEF Reading, Ordered, Excuses, Tries, Answers, Counts, Resolving
  <2> QED BY <2>2 DEF Init, ReadersInv
<1>2. PartitionInv /\ ReadersInv /\ [Next]_vars => ReadersInv'
  BY StepTouches, TouchReads
<1> QED BY <1>1, <1>2, TableStaysSound, PTL DEF Spec

\* A point read says that a key is absent only if the table lacked it at some moment
\* of the read, or the location of the key changed under every one of its tries
\* (getByPKPartitioned).
THEOREM PointReadsAreTruthful == Spec => []PointReadIsTruthful
<1>1. ReadersInv => PointReadIsTruthful
  BY DEF ReadersInv, Reading, Answers, PointReadIsTruthful
<1> QED BY <1>1, ReadsKeepTrack, PTL

\* A scan of the whole table returns every row that stayed in its partition exactly
\* once, whatever is inserted, deleted, moved or renumbered meanwhile
\* (scanAll, scanShardsBatched).
THEOREM ScansSeeEachRowOnce == Spec => []ScanSeesEachRowOnce
<1>1. ReadersInv => ScanSeesEachRowOnce
  <2> SUFFICES ASSUME ReadersInv, NEW r \in Readers, rd[r].pc = "done", rd[r].job \in {"batched", "all"},
                      NEW p \in PKs \ rd[r].excused
               PROVE  rd[r].got[p] = 1
    BY DEF ScanSeesEachRowOnce
  <2>1. Counts(rd[r], Table)
    BY DEF ReadersInv, Reading
  <2>2. Passed(rd[r], Table, p)
    BY DEF Passed
  <2> QED BY <2>1, <2>2 DEF Counts
<1> QED BY <1>1, ReadsKeepTrack, PTL
=============================================================================
