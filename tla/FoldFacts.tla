----------------------------- MODULE FoldFacts -----------------------------
(***************************************************************************)
(* Induction in set form, and what it says of the sums and folds the       *)
(* models are written with.                                                *)
(***************************************************************************)
EXTENDS Integers, Sums, FiniteSetTheorems, WellFoundedInduction, TLAPS

\* A non-empty set of naturals has a least element.
LEMMA NatMin ==
    ASSUME NEW T \in SUBSET Nat, T # {}
    PROVE  \E x \in T : \A y \in T : x <= y
<1> DEFINE Less == OpToRel(<, Nat)
<1>1. \A x, y \in Nat : y < x => <<y, x>> \in Less
  BY Zenon DEF OpToRel
<1>2. IsWellFoundedOn(Less, Nat)
  BY NatLessThanWellFounded
<1> HIDE DEF Less
<1>3. \E x \in T : \A y \in T : <<y, x>> \notin Less
  BY <1>2, WFMin
<1>4. PICK x \in T : \A y \in T : <<y, x>> \notin Less
  BY <1>3
<1>5. \A y \in T : x <= y
  <2>1. SUFFICES ASSUME NEW y \in T PROVE ~(y < x)
    OBVIOUS
  <2> QED BY <1>1, <1>4
<1> QED BY <1>5

\* Induction on naturals, for a set instead of a predicate.
LEMMA NatSetInduction ==
    ASSUME NEW X, 0 \in X, \A n \in Nat : n \in X => n + 1 \in X
    PROVE  Nat \subseteq X
<1> DEFINE Bad == Nat \ X
<1> SUFFICES ASSUME Bad # {} PROVE FALSE
  OBVIOUS
<1>1. PICK x \in Bad : \A y \in Bad : x <= y
  BY NatMin
<1>2. x # 0 /\ x - 1 \in Nat /\ ~(x <= x - 1)
  OBVIOUS
<1> QED BY <1>1, <1>2

\* Induction on the subsets of a finite set: a family has all of them if it has
\* the empty set and every set whose removals of one element it has.
LEMMA SubsetInduction ==
    ASSUME NEW D, IsFiniteSet(D), NEW X, {} \in X,
           \A T \in SUBSET D : T # {} /\ (\A x \in T : T \ {x} \in X) => T \in X
    PROVE  SUBSET D \subseteq X
<1> DEFINE Y == {n \in Nat : \A T \in SUBSET D : Cardinality(T) = n => T \in X}
<1>0. \A T \in SUBSET D : IsFiniteSet(T) /\ Cardinality(T) \in Nat
  BY FS_Subset, FS_CardinalityType
<1>1. 0 \in Y
  <2>1. \A T \in SUBSET D : Cardinality(T) = 0 => T = {}
    BY <1>0, FS_EmptySet
  <2> QED BY <2>1
<1>2. \A n \in Nat : n \in Y => n + 1 \in Y
  <2> SUFFICES ASSUME NEW n \in Nat, n \in Y, NEW T \in SUBSET D, Cardinality(T) = n + 1
               PROVE  T \in X
    OBVIOUS
  <2>1. T # {}
    BY FS_EmptySet
  <2>2. \A x \in T : T \ {x} \in SUBSET D /\ Cardinality(T \ {x}) = n
    BY <1>0, FS_RemoveElement
  <2> QED BY <2>1, <2>2
<1>3. Nat \subseteq Y
  <2> HIDE DEF Y
  <2> QED BY <1>1, <1>2, NatSetInduction
<1> QED BY <1>0, <1>3

\* c picks an element of every non-empty subset.
Picks(c, D) == \A T \in SUBSET D : T # {} => c[T] \in T

\* g is the recursion of a fold over D: base for the empty set, else the step of
\* the picked element on the value of the rest.
IsFold(g, D, base, c, G) ==
    \A T \in SUBSET D : g[T] = IF T = {} THEN base ELSE G[c[T]][g[T \ {c[T]}]]

\* Over a finite set the recursion has a solution.
LEMMA FoldExists ==
    ASSUME NEW D, IsFiniteSet(D), NEW V, NEW base \in V, NEW c, Picks(c, D),
           NEW G \in [D -> [V -> V]]
    PROVE  \E g \in [SUBSET D -> V] : IsFold(g, D, base, c, G)
<1> USE DEF Picks, IsFold
<1> DEFINE Low(n) == {T \in SUBSET D : Cardinality(T) <= n}
           Solves(g, n) == \A T \in Low(n) :
               g[T] = IF T = {} THEN base ELSE G[c[T]][g[T \ {c[T]}]]
           Y == {n \in Nat : \E g \in [Low(n) -> V] : Solves(g, n)}
<1>0. \A T \in SUBSET D : IsFiniteSet(T) /\ Cardinality(T) \in Nat
  BY FS_Subset, FS_CardinalityType
<1>a. \A T \in SUBSET D : T # {} => /\ T \ {c[T]} \in SUBSET D
                                    /\ Cardinality(T \ {c[T]}) = Cardinality(T) - 1
  BY <1>0, FS_RemoveElement
<1>1. 0 \in Y
  <2>1. \A T \in Low(0) : T = {}
    BY <1>0, FS_EmptySet
  <2>2. Solves([T \in Low(0) |-> base], 0) /\ [T \in Low(0) |-> base] \in [Low(0) -> V]
    BY <2>1
  <2> QED BY <2>2
<1>2. \A n \in Nat : n \in Y => n + 1 \in Y
  <2> SUFFICES ASSUME NEW n \in Nat, n \in Y PROVE \E g \in [Low(n + 1) -> V] : Solves(g, n + 1)
    <3>1. \A n \in Nat : n + 1 \in Nat
      OBVIOUS
    <3> QED BY <3>1, Zenon
  <2>1. PICK g \in [Low(n) -> V] : Solves(g, n)
    BY n \in Y, Zenon
  <2> DEFINE h == [T \in Low(n + 1) |-> IF T = {} THEN base ELSE G[c[T]][g[T \ {c[T]}]]]
  <2>2. \A T \in Low(n + 1) : T # {} => T \ {c[T]} \in Low(n) /\ c[T] \in D
    BY <1>0, <1>a
  <2>3. h \in [Low(n + 1) -> V]
    BY <2>2
  <2>4. \A T \in Low(n) : T \in Low(n + 1) /\ h[T] = g[T]
    <3>1. \A T \in Low(n) : T \in Low(n + 1)
      BY <1>0
    <3>2. \A T \in Low(n) : g[T] = IF T = {} THEN base ELSE G[c[T]][g[T \ {c[T]}]]
      BY <2>1, Zenon
    <3> QED BY <3>1, <3>2
  <2>5. Solves(h, n + 1)
    BY <2>2, <2>4
  <2> QED BY <2>3, <2>5
<1>3. Nat \subseteq Y
  <2> HIDE DEF Y
  <2> QED BY <1>1, <1>2, NatSetInduction
<1>4. Cardinality(D) \in Y
  BY <1>3, FS_CardinalityType
<1>5. Low(Cardinality(D)) = SUBSET D
  BY FS_Subset
<1> QED BY <1>4, <1>5

\* g is the recursion of a sum of f.
AddsUp(g, f, D) ==
    \A T \in SUBSET D : g[T] = IF T = {} THEN 0
        ELSE f[CHOOSE x \in T : TRUE] + g[T \ {CHOOSE x \in T : TRUE}]

\* A sum is the value of its recursion at the whole set.
LEMMA SumSolves ==
    ASSUME NEW D, IsFiniteSet(D), NEW f, \A x \in D : f[x] \in Int
    PROVE  \E g \in [SUBSET D -> Int] : SumOver(f, D) = g[D] /\ AddsUp(g, f, D)
<1> DEFINE P(h) == h = [T \in SUBSET D |-> IF T = {} THEN 0
                          ELSE f[CHOOSE x \in T : TRUE] + h[T \ {CHOOSE x \in T : TRUE}]]
           c == [T \in SUBSET D |-> CHOOSE x \in T : TRUE]
           G == [x \in D |-> [v \in Int |-> f[x] + v]]
<1>1. G \in [D -> [Int -> Int]]
  OBVIOUS
<1>2. \A T \in SUBSET D : T # {} => (CHOOSE x \in T : TRUE) \in T
  OBVIOUS
<1>3. \A T \in SUBSET D : c[T] = CHOOSE x \in T : TRUE
  OBVIOUS
<1>4. Picks(c, D)
  BY <1>2, <1>3 DEF Picks
<1>5. PICK g \in [SUBSET D -> Int] : IsFold(g, D, 0, c, G)
  <2>1. 0 \in Int
    OBVIOUS
  <2> HIDE DEF c, G, P
  <2> QED BY <1>1, <1>4, <2>1, FoldExists, Zenon
<1>6. P(g)
  <2>1. \A T \in SUBSET D : T # {} => g[T \ {c[T]}] \in Int /\ c[T] \in D
    BY <1>4 DEF Picks
  <2>2. \A T \in SUBSET D : T # {} => G[c[T]][g[T \ {c[T]}]] = f[c[T]] + g[T \ {c[T]}]
    BY <2>1
  <2>3. \A T \in SUBSET D : g[T] = IF T = {} THEN 0
                          ELSE f[CHOOSE x \in T : TRUE] + g[T \ {CHOOSE x \in T : TRUE}]
    BY <1>3, <1>5, <2>2 DEF IsFold
  <2> QED BY <2>3
<1> DEFINE h == CHOOSE h : P(h)
<1>7. P(h)
  <2> HIDE DEF P
  <2> QED BY <1>6
<1>8. SumOver(f, D) = h[D]
  BY DEF SumOver, MapThenSumSet, MapThenFoldSet
<1> HIDE DEF h
<1>9. \A T \in SUBSET D : h[T] = IF T = {} THEN 0
                          ELSE f[CHOOSE x \in T : TRUE] + h[T \ {CHOOSE x \in T : TRUE}]
  BY <1>7
<1>10. \A T \in SUBSET D : h[T] \in Int
  <2> DEFINE X == {T \in SUBSET D : h[T] \in Int}
  <2>1. {} \in X
    <3>1. h[{}] = 0
      BY <1>9
    <3> QED BY <3>1
  <2>2. ASSUME NEW T \in SUBSET D, T # {}, \A x \in T : T \ {x} \in X
        PROVE  T \in X
    <3> DEFINE x == CHOOSE x \in T : TRUE
    <3>1. x \in T
      BY <1>2, <2>2
    <3>2. h[T] = f[x] + h[T \ {x}]
      BY <1>9, <2>2
    <3>3. T \ {x} \in X
      BY <2>2, <3>1
    <3>4. f[x] \in Int /\ h[T \ {x}] \in Int
      BY <3>1, <3>3
    <3> HIDE DEF x
    <3>5. h[T] \in Int
      BY <3>2, <3>4
    <3> QED BY <3>5
  <2> HIDE DEF X
  <2>3. SUBSET D \subseteq X
    BY <2>1, <2>2, SubsetInduction
  <2> QED BY <2>3 DEF X
<1>11. h \in [SUBSET D -> Int]
  BY <1>7, <1>10
<1> QED BY <1>8, <1>9, <1>11 DEF AddsUp

\* The recursion over a set gives the sum over each part of it.
LEMMA SumOfPart ==
    ASSUME NEW D, IsFiniteSet(D), NEW f, \A x \in D : f[x] \in Int,
           NEW g, AddsUp(g, f, D), NEW S \in SUBSET D
    PROVE  SumOver(f, S) = g[S]
<1>1. IsFiniteSet(S) /\ \A x \in S : f[x] \in Int
  BY FS_Subset
<1>2. PICK h \in [SUBSET S -> Int] : SumOver(f, S) = h[S] /\ AddsUp(h, f, S)
  BY <1>1, SumSolves
<1> DEFINE X == {T \in SUBSET S : h[T] = g[T]}
<1>3. {} \in X
  BY <1>2 DEF AddsUp
<1>4. ASSUME NEW T \in SUBSET S, T # {}, \A x \in T : T \ {x} \in X
      PROVE  T \in X
  <2> DEFINE x == CHOOSE x \in T : TRUE
  <2>1. x \in T
    BY <1>4
  <2>2. h[T] = f[x] + h[T \ {x}] /\ g[T] = f[x] + g[T \ {x}]
    BY <1>2, <1>4 DEF AddsUp
  <2>3. h[T \ {x}] = g[T \ {x}]
    BY <1>4, <2>1
  <2> QED BY <2>2, <2>3
<1> HIDE DEF X
<1>5. SUBSET S \subseteq X
  BY <1>1, <1>3, <1>4, SubsetInduction
<1> QED BY <1>2, <1>5 DEF X

\* Nothing adds up to zero.
LEMMA SumEmpty == \A f : SumOver(f, {}) = 0
<1> TAKE f
<1>1. IsFiniteSet({}) /\ \A x \in {} : f[x] \in Int
  BY FS_EmptySet
<1>2. PICK g \in [SUBSET {} -> Int] : SumOver(f, {}) = g[{}] /\ AddsUp(g, f, {})
  BY <1>1, SumSolves
<1> QED BY <1>2 DEF AddsUp

\* A sum is an integer.
LEMMA SumType ==
    ASSUME NEW D, IsFiniteSet(D), NEW f, \A x \in D : f[x] \in Int
    PROVE  SumOver(f, D) \in Int
<1>1. PICK g \in [SUBSET D -> Int] : SumOver(f, D) = g[D] /\ AddsUp(g, f, D)
  BY SumSolves
<1> QED BY <1>1

\* Any element can be taken out first: the order of a sum does not matter.
LEMMA SumRemove ==
    ASSUME NEW D, IsFiniteSet(D), NEW f, \A x \in D : f[x] \in Int, NEW x \in D
    PROVE  SumOver(f, D) = f[x] + SumOver(f, D \ {x})
<1>1. PICK g \in [SUBSET D -> Int] : SumOver(f, D) = g[D] /\ AddsUp(g, f, D)
  BY SumSolves
<1> DEFINE X == {T \in SUBSET D : \A y \in T : g[T] = f[y] + g[T \ {y}]}
<1>2. {} \in X
  OBVIOUS
<1>3. ASSUME NEW T \in SUBSET D, T # {}, \A y \in T : T \ {y} \in X, NEW y \in T
      PROVE  g[T] = f[y] + g[T \ {y}]
  <2> DEFINE z == CHOOSE z \in T : TRUE
  <2>1. z \in T
    BY <1>3
  <2>2. g[T] = f[z] + g[T \ {z}]
    BY <1>1, <1>3 DEF AddsUp
  <2> HIDE DEF z
  <2>3. CASE y = z
    BY <2>2, <2>3
  <2>4. CASE y # z
    <3> DEFINE R == (T \ {z}) \ {y}
    <3>1. R = (T \ {y}) \ {z} /\ R \in SUBSET D
      BY <1>3
    <3>2. g[T \ {z}] = f[y] + g[R]
      BY <1>3, <2>1, <2>4
    <3>3. g[T \ {y}] = f[z] + g[(T \ {y}) \ {z}]
      BY <1>3, <2>1, <2>4
    <3>4. f[y] \in Int /\ f[z] \in Int /\ g[R] \in Int
      BY <1>3, <2>1, <3>1
    <3>5. g[(T \ {y}) \ {z}] = g[R]
      BY <3>1
    <3> HIDE DEF R
    <3> QED BY <2>2, <3>2, <3>3, <3>4, <3>5
  <2> QED BY <2>3, <2>4
<1>4. \A T \in SUBSET D : T # {} /\ (\A y \in T : T \ {y} \in X) => T \in X
  BY <1>3
<1>5. SUBSET D \subseteq X
  <2> HIDE DEF X
  <2> QED BY <1>2, <1>4, SubsetInduction
<1>6. g[D] = f[x] + g[D \ {x}]
  BY <1>5
<1>7. g[D \ {x}] = SumOver(f, D \ {x})
  BY <1>1, SumOfPart
<1> QED BY <1>1, <1>6, <1>7

\* Sums of functions that agree on the set are equal.
LEMMA SumAgree ==
    ASSUME NEW D, IsFiniteSet(D), NEW f, \A x \in D : f[x] \in Int,
           NEW h, \A x \in D : h[x] = f[x]
    PROVE  SumOver(h, D) = SumOver(f, D)
<1> DEFINE X == {T \in SUBSET D : SumOver(h, T) = SumOver(f, T)}
<1>1. {} \in X
  BY SumEmpty
<1>2. ASSUME NEW T \in SUBSET D, T # {}, \A y \in T : T \ {y} \in X
      PROVE  T \in X
  <2>1. PICK y \in T : TRUE
    BY <1>2
  <2>2. IsFiniteSet(T)
    BY FS_Subset
  <2>3. SumOver(f, T) = f[y] + SumOver(f, T \ {y})
    BY <2>2, SumRemove
  <2>4. SumOver(h, T) = h[y] + SumOver(h, T \ {y})
    BY <2>2, SumRemove
  <2> QED BY <1>2, <2>3, <2>4
<1> HIDE DEF X
<1>3. SUBSET D \subseteq X
  BY <1>1, <1>2, SubsetInduction
<1> QED BY <1>3 DEF X

\* A change of one summand changes the sum by as much.
LEMMA SumUpdate ==
    ASSUME NEW D, IsFiniteSet(D), NEW f, \A x \in D : f[x] \in Int, NEW d \in D,
           NEW h, \A x \in D \ {d} : h[x] = f[x], h[d] \in Int
    PROVE  SumOver(h, D) = SumOver(f, D) + h[d] - f[d]
<1>1. IsFiniteSet(D \ {d}) /\ \A x \in D : h[x] \in Int
  BY FS_Subset
<1>2. SumOver(f, D) = f[d] + SumOver(f, D \ {d})
  BY SumRemove
<1>3. SumOver(h, D) = h[d] + SumOver(h, D \ {d})
  BY <1>1, SumRemove
<1>4. SumOver(h, D \ {d}) = SumOver(f, D \ {d})
  BY <1>1, SumAgree
<1>5. SumOver(f, D \ {d}) \in Int
  BY <1>1, SumType
<1> QED BY <1>2, <1>3, <1>4, <1>5

\* A sum of naturals is a natural, and no less than any of them.
LEMMA SumNat ==
    ASSUME NEW D, IsFiniteSet(D), NEW f, \A x \in D : f[x] \in Nat
    PROVE  SumOver(f, D) \in Nat /\ \A x \in D : f[x] <= SumOver(f, D)
<1> DEFINE X == {T \in SUBSET D : SumOver(f, T) \in Nat}
<1>1. {} \in X
  BY SumEmpty
<1>2. ASSUME NEW T \in SUBSET D, T # {}, \A y \in T : T \ {y} \in X
      PROVE  T \in X
  <2>1. PICK y \in T : TRUE
    BY <1>2
  <2>2. IsFiniteSet(T) /\ \A x \in T : f[x] \in Int
    BY FS_Subset
  <2>3. SumOver(f, T) = f[y] + SumOver(f, T \ {y})
    BY <2>2, SumRemove
  <2>4. SumOver(f, T \ {y}) \in Nat /\ f[y] \in Nat
    BY <1>2
  <2> QED BY <2>3, <2>4
<1> HIDE DEF X
<1>3. SUBSET D \subseteq X
  BY <1>1, <1>2, SubsetInduction
<1>4. ASSUME NEW x \in D PROVE f[x] <= SumOver(f, D)
  <2>1. SumOver(f, D) = f[x] + SumOver(f, D \ {x})
    BY SumRemove
  <2>2. SumOver(f, D \ {x}) \in Nat
    BY <1>3 DEF X
  <2> QED BY <2>1, <2>2
<1> QED BY <1>3, <1>4 DEF X

\* A sum of zeros is zero.
LEMMA SumZero ==
    ASSUME NEW D, IsFiniteSet(D), NEW f, \A x \in D : f[x] = 0
    PROVE  SumOver(f, D) = 0
<1> DEFINE X == {T \in SUBSET D : SumOver(f, T) = 0}
<1>1. {} \in X
  BY SumEmpty
<1>2. ASSUME NEW T \in SUBSET D, T # {}, \A y \in T : T \ {y} \in X
      PROVE  T \in X
  <2>1. PICK y \in T : TRUE
    BY <1>2
  <2>2. IsFiniteSet(T) /\ \A x \in T : f[x] \in Int
    BY FS_Subset
  <2>3. SumOver(f, T) = f[y] + SumOver(f, T \ {y})
    BY <2>2, SumRemove
  <2> QED BY <1>2, <2>3
<1>3. SUBSET D \subseteq X
  <2> HIDE DEF X
  <2> QED BY <1>1, <1>2, SubsetInduction
<1> QED BY <1>3

\* Smaller parts have a smaller sum.
LEMMA SumMono ==
    ASSUME NEW D, IsFiniteSet(D), NEW f, NEW h,
           \A x \in D : f[x] \in Int /\ h[x] \in Int /\ f[x] <= h[x]
    PROVE  SumOver(f, D) <= SumOver(h, D)
<1> DEFINE X == {T \in SUBSET D : SumOver(f, T) <= SumOver(h, T)}
<1>1. {} \in X
  BY SumEmpty
<1>2. ASSUME NEW T \in SUBSET D, T # {}, \A y \in T : T \ {y} \in X
      PROVE  T \in X
  <2>1. PICK y \in T : TRUE
    BY <1>2
  <2>2. IsFiniteSet(T) /\ IsFiniteSet(T \ {y})
    BY FS_Subset
  <2>3. SumOver(f, T) = f[y] + SumOver(f, T \ {y}) /\ SumOver(h, T) = h[y] + SumOver(h, T \ {y})
    BY <2>2, SumRemove
  <2>4. SumOver(f, T \ {y}) \in Int /\ SumOver(h, T \ {y}) \in Int
    BY <2>2, SumType
  <2>5. SumOver(f, T \ {y}) <= SumOver(h, T \ {y}) /\ f[y] <= h[y] /\ f[y] \in Int /\ h[y] \in Int
    BY <1>2
  <2>6. SumOver(f, T) <= SumOver(h, T)
    BY <2>3, <2>4, <2>5
  <2> QED BY <2>6
<1>3. SUBSET D \subseteq X
  <2> HIDE DEF X
  <2> QED BY <1>1, <1>2, SubsetInduction
<1> QED BY <1>3

\* A sum is the sum of the sums of its parts.
LEMMA SumByParts ==
    ASSUME NEW D, IsFiniteSet(D), NEW K, IsFiniteSet(K), NEW g \in [D -> K],
           NEW f, \A x \in D : f[x] \in Int
    PROVE  SumOver([k \in K |-> SumOver(f, {x \in D : g[x] = k})], K) = SumOver(f, D)
<1> DEFINE Part(T, k) == {x \in T : g[x] = k}
           P(T) == [k \in K |-> SumOver(f, Part(T, k))]
           X == {T \in SUBSET D : SumOver(P(T), K) = SumOver(f, T)}
<1>0. ASSUME NEW T \in SUBSET D, NEW k \in K
      PROVE  IsFiniteSet(Part(T, k)) /\ Part(T, k) \subseteq D /\ SumOver(f, Part(T, k)) \in Int
  <2>1. Part(T, k) \in SUBSET D
    OBVIOUS
  <2> HIDE DEF Part
  <2>2. IsFiniteSet(Part(T, k)) /\ \A x \in Part(T, k) : f[x] \in Int
    BY <2>1, FS_Subset
  <2> QED BY <2>1, <2>2, SumType
<1>1. {} \in X
  <2>1. \A k \in K : P({})[k] = 0
    <3>1. \A k \in K : Part({}, k) = {}
      OBVIOUS
    <3> QED BY <3>1, SumEmpty
  <2> HIDE DEF P
  <2>2. SumOver(P({}), K) = 0
    BY <2>1, SumZero
  <2> QED BY <2>2, SumEmpty
<1>2. ASSUME NEW T \in SUBSET D, T # {}, \A y \in T : T \ {y} \in X
      PROVE  T \in X
  <2>1. PICK y \in T : TRUE
    BY <1>2
  <2> DEFINE S == T \ {y}
             k == g[y]
  <2>2. /\ S \in SUBSET D /\ y \in D /\ k \in K /\ y \in Part(T, k) /\ Part(S, k) = Part(T, k) \ {y}
        /\ \A i \in K \ {k} : Part(S, i) = Part(T, i)
    BY <2>1
  <2>3. SumOver(P(S), K) = SumOver(f, S)
    BY <1>2, <2>1
  <2>4. \A i \in K : P(T)[i] = SumOver(f, Part(T, i)) /\ P(S)[i] = SumOver(f, Part(S, i))
    OBVIOUS
  <2> HIDE DEF P, Part, S, k
  <2>5. SumOver(f, Part(T, k)) = f[y] + SumOver(f, Part(T, k) \ {y})
    <3>1. IsFiniteSet(Part(T, k)) /\ \A x \in Part(T, k) : f[x] \in Int
      BY <1>0, <2>2
    <3> QED BY <2>2, <3>1, SumRemove
  <2>6. \A i \in K : P(T)[i] \in Int /\ P(S)[i] \in Int
    BY ZenonT(40), <1>0, <2>2, <2>4
  <2>7. SumOver(P(T), K) = SumOver(P(S), K) + P(T)[k] - P(S)[k]
    <3>1. \A i \in K \ {k} : P(T)[i] = P(S)[i]
      BY <2>2, <2>4
    <3> QED BY <2>2, <2>6, <3>1, SumUpdate
  <2>8. SumOver(f, T) = f[y] + SumOver(f, S) /\ SumOver(f, S) \in Int
    <3>1. IsFiniteSet(T) /\ IsFiniteSet(S) /\ \A x \in T : f[x] \in Int
      BY <2>2, FS_Subset
    <3>2. SumOver(f, T) = f[y] + SumOver(f, T \ {y})
      BY <3>1, SumRemove
    <3>3. SumOver(f, S) \in Int
      BY <2>2, <3>1, SumType
    <3> QED BY <3>2, <3>3 DEF S
  <2>9. P(T)[k] = f[y] + P(S)[k] /\ f[y] \in Int /\ P(S)[k] \in Int
    BY <2>2, <2>4, <2>5, <2>6
  <2>10. SumOver(P(T), K) = SumOver(f, T)
    BY <2>3, <2>7, <2>8, <2>9
  <2> QED BY <2>10
<1>3. SUBSET D \subseteq X
  <2> HIDE DEF X
  <2> QED BY <1>1, <1>2, SubsetInduction
<1>4. SumOver(P(D), K) = SumOver(f, D)
  BY <1>3
<1> QED BY <1>4
=============================================================================
