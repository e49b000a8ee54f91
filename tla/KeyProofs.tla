----------------------------- MODULE KeyProofs ------------------------------
(***************************************************************************)
(* Proofs about keys.  Of the primary key map, for any keys, any hash and  *)
(* any sizes of it: a key is found exactly under its last row number, no   *)
(* chain has a hole, the load stays within 3/4, and a growth lengthens no  *)
(* run of taken slots.  Of the key generator, for any number of            *)
(* goroutines, any clock and any width of the counter: the generated keys  *)
(* increase and keep near the wall clock.  Of composite index keys, for    *)
(* any widths: they sort like the tuples they encode, and a prefix search  *)
(* finds exactly the tuples that begin with it.                            *)
(***************************************************************************)
EXTENDS PkMap, UuidClock, CompositeKey, FoldFacts, SequenceTheorems

----------------------------------------------------------------------------
(* Quotients.                                                              *)

\* Division, and what makes a quotient one.
LEMMA DivisionIs ==
    ASSUME NEW n \in Nat, NEW d \in Nat \ {0}
    PROVE  n \div d \in Nat /\ n % d \in 0..d - 1 /\ n = d * (n \div d) + (n % d)
<1>1. n \div d \in Int /\ n % d \in 0..d - 1 /\ n = d * (n \div d) + (n % d)
  OBVIOUS
<1>2. n \div d >= 0
  OBVIOUS
<1> QED BY <1>1, <1>2

LEMMA ProductGrows ==
    ASSUME NEW d \in Nat, NEW p \in Nat, NEW q \in Nat, p < q
    PROVE  d * p + d <= d * q /\ d * p \in Nat /\ d * q \in Nat
<1>1. q - (p + 1) \in Nat /\ d * (q - (p + 1)) >= 0
  OBVIOUS
<1>2. d * (q - (p + 1)) = d * q - (d * p + d)
  OBVIOUS
<1> QED BY <1>1, <1>2

LEMMA QuotientIs ==
    ASSUME NEW n \in Nat, NEW d \in Nat \ {0}, NEW q \in Nat, NEW r \in 0..d - 1, n = d * q + r
    PROVE  n \div d = q /\ n % d = r
<1> DEFINE p == n \div d
           s == n % d
<1>1. p \in Nat /\ s \in 0..d - 1 /\ n = d * p + s
  BY DivisionIs
<1> HIDE DEF p, s
<1>2. ~(p < q)
  <2> SUFFICES ASSUME p < q PROVE FALSE
    OBVIOUS
  <2>1. d * p + d <= d * q /\ d * p \in Nat /\ d * q \in Nat
    BY <1>1, ProductGrows
  <2> QED BY <1>1, <2>1
<1>3. ~(q < p)
  <2> SUFFICES ASSUME q < p PROVE FALSE
    OBVIOUS
  <2>1. d * q + d <= d * p /\ d * p \in Nat /\ d * q \in Nat
    BY <1>1, ProductGrows
  <2> QED BY <1>1, <2>1
<1>4. p = q
  BY <1>1, <1>2, <1>3
<1>5. d * p \in Nat /\ d * p = d * q
  BY <1>1, <1>4
<1>6. s = r
  BY <1>1, <1>5
<1> QED BY <1>4, <1>6 DEF p, s

LEMMA QuotientsGrow ==
    ASSUME NEW n \in Nat, NEW m \in Nat, n <= m, NEW d \in Nat \ {0}
    PROVE  n \div d <= m \div d
<1> DEFINE p == n \div d
           q == m \div d
<1>1. p \in Nat /\ q \in Nat /\ \E r, s \in 0..d - 1 : n = d * p + r /\ m = d * q + s
  BY DivisionIs
<1> HIDE DEF p, q
<1> SUFFICES ASSUME q < p PROVE FALSE
  BY <1>1 DEF p, q
<1>2. PICK r, s \in 0..d - 1 : n = d * p + r /\ m = d * q + s
  BY <1>1
<1>3. d * q + d <= d * p /\ d * q \in Nat /\ d * p \in Nat
  BY <1>1, ProductGrows
<1> QED BY <1>2, <1>3

\* Dividing twice is dividing by the product.
LEMMA QuotientOfQuotient ==
    ASSUME NEW n \in Nat, NEW d \in Nat \ {0}, NEW e \in Nat \ {0}
    PROVE  n \div (d * e) = (n \div d) \div e
<1> DEFINE p == n \div d
           r == n % d
           q == p \div e
           s == p % e
<1>1. p \in Nat /\ r \in 0..d - 1 /\ n = d * p + r
  BY DivisionIs
<1>2. q \in Nat /\ s \in 0..e - 1 /\ p = e * q + s
  BY <1>1, DivisionIs
<1> HIDE DEF p, r, q, s
<1>3. d * e \in Nat /\ d * e > 0 /\ d * s \in Nat
  BY <1>2
<1>4. d * s + d <= d * e
  <2>1. s \in Nat /\ e \in Nat /\ s < e
    BY <1>2
  <2> QED BY <2>1, ProductGrows
<1>5. d * s + r \in 0..(d * e) - 1
  BY <1>1, <1>3, <1>4
<1>6. n = (d * e) * q + (d * s + r)
  <2>1. d * (e * q + s) = (d * e) * q + d * s
    BY <1>2
  <2>2. (d * e) * q \in Nat
    BY <1>2
  <2> QED BY <1>1, <1>2, <1>3, <2>1, <2>2
<1>7. n \div (d * e) = q
  <2> DEFINE D == d * e
             R == d * s + r
  <2>1. D \in Nat \ {0} /\ R \in 0..D - 1 /\ n = D * q + R
    BY <1>3, <1>5, <1>6
  <2> HIDE DEF D, R
  <2>2. n \div D = q
    BY <1>2, <2>1, QuotientIs
  <2> QED BY <2>2 DEF D
<1> QED BY <1>7 DEF p, q

----------------------------------------------------------------------------
(* Positions around the table.                                             *)

\* A sum of two slot numbers wraps around at most once.
LEMMA WrapsOnce ==
    ASSUME NEW n \in Nat \ {0}, NEW h \in 0..(n - 1), NEW d \in 0..(n - 1)
    PROVE  (h + d) % n = IF h + d < n THEN h + d ELSE h + d - n
OBVIOUS

\* The leading bits of a hash are a slot number.
LEMMA LeadingBits ==
    ASSUME NEW H \in Nat, NEW n \in Nat \ {0}, NEW m \in Nat, n <= H, H % n = 0, m < H
    PROVE  m \div (H \div n) \in 0..(n - 1)
<1> DEFINE c == H \div n
           q == m \div c
<1>1. c \in Nat /\ H = c * n
  OBVIOUS
<1>2. c > 0
  BY <1>1
<1> HIDE DEF c
<1>3. q \in Int /\ m = q * c + (m % c) /\ m % c \in 0..(c - 1)
  BY <1>1, <1>2
<1> HIDE DEF q
<1>4. q >= 0
  <2> SUFFICES ASSUME q + 1 <= 0 PROVE FALSE
    BY <1>3
  <2>1. (q + 1) * c <= 0
    BY <1>1, <1>2, <1>3
  <2>2. (q + 1) * c = q * c + c
    BY <1>1, <1>3
  <2> QED BY <1>1, <1>3, <2>1, <2>2
<1>5. q < n
  <2> SUFFICES ASSUME q - n >= 0 PROVE FALSE
    BY <1>3
  <2>1. (q - n) * c >= 0
    BY <1>1, <1>2, <1>3
  <2>2. (q - n) * c = q * c - c * n
    BY <1>1, <1>3
  <2>3. q * c \in Int /\ c * n \in Int
    BY <1>1, <1>3
  <2> QED BY <1>1, <1>3, <2>1, <2>2, <2>3
<1> QED BY <1>3, <1>4, <1>5 DEF c, q

\* hash as the process draws it.
Hashes == hash \in [Keys -> 0..(HashRange - 1)]

\* A home slot is a slot of the table.
LEMMA HomeIs ==
    ASSUME Hashes, NEW n \in Sizes, NEW k \in Keys
    PROVE  pkHome(k, n) \in 0..(n - 1)
<1>1. n \in Nat \ {0} /\ n <= HashRange /\ HashRange % n = 0 /\ HashRange \in Nat
  BY PkMapBounds DEF Sizes
<1>2. hash[k] \in Nat /\ hash[k] < HashRange
  BY <1>1 DEF Hashes
<1> QED BY <1>1, <1>2, LeadingBits DEF pkHome

\* Is slot x on the way from slot h to slot j, both included?
InArc(h, x, j) == IF h <= j THEN h <= x /\ x <= j ELSE h <= x \/ x <= j

Slots(n) == 0..(n - 1)
Table(n) == [Slots(n) -> Slot]

\* The number of slots is what the code reads off the table.
LEMMA SizeIs ==
    ASSUME NEW n \in Nat
    PROVE  Cardinality(Slots(n)) = n /\ IsFiniteSet(Slots(n))
BY FS_Interval DEF Slots

\* The least of a set of numbers.
LEMMA MinPicks ==
    ASSUME NEW T \in SUBSET Nat, T # {}
    PROVE  Min(T) \in T /\ \A y \in T : Min(T) <= y
<1>1. \E x \in T : \A y \in T : x <= y
  BY NatMin
<1> QED BY <1>1 DEF Min

----------------------------------------------------------------------------
(* Probing.                                                                *)

Used(s, i) == s[i].ref # 0
HasRoom(s, n) == \E i \in Slots(n) : ~Used(s, i)

\* p is the first slot from the home of k on that is empty or k's.
Ends(s, n, k, p) ==
    /\ p \in Slots(n)
    /\ s[p].ref = 0 \/ s[p].key = k
    /\ \A x \in Slots(n) : InArc(pkHome(k, n), x, p) /\ x # p => s[x].ref # 0 /\ s[x].key # k

\* In a table with room the probe ends, at the first slot that can end it.
LEMMA ProbeEnds ==
    ASSUME Hashes, NEW n \in Sizes, NEW s \in Table(n), HasRoom(s, n), NEW k \in Keys
    PROVE  Ends(s, n, k, Probe(s, k))
<1> DEFINE h == pkHome(k, n)
           at(d) == (h + d) % n
           ends == {d \in 0..(n - 1) : s[at(d)].ref = 0 \/ s[at(d)].key = k}
           m == Min(ends)
<1>1. n \in Nat \ {0} /\ h \in 0..(n - 1)
  BY HomeIs, PkMapBounds DEF Sizes
<1>2. Probe(s, k) = at(m)
  <2>1. DOMAIN s = Slots(n) /\ Cardinality(Slots(n)) = n
    BY <1>1, SizeIs DEF Table
  <2> QED BY <2>1 DEF Probe
<1> HIDE DEF h
<1>3. \A d \in 0..(n - 1) : at(d) = IF h + d < n THEN h + d ELSE h + d - n
  <2> SUFFICES ASSUME NEW d \in 0..(n - 1) PROVE at(d) = IF h + d < n THEN h + d ELSE h + d - n
    OBVIOUS
  <2>1. (h + d) % n = IF h + d < n THEN h + d ELSE h + d - n
    BY <1>1, WrapsOnce
  <2> QED BY <2>1
<1> HIDE DEF at
<1>4. \A x \in Slots(n) : \E d \in 0..(n - 1) : at(d) = x
  <2> SUFFICES ASSUME NEW x \in Slots(n) PROVE \E d \in 0..(n - 1) : at(d) = x
    OBVIOUS
  <2>1. CASE x >= h
    <3>1. x - h \in 0..(n - 1) /\ h + (x - h) = x
      BY <1>1, <2>1 DEF Slots
    <3> QED BY <1>1, <1>3, <3>1 DEF Slots
  <2>2. CASE x < h
    <3>1. x - h + n \in 0..(n - 1) /\ h + (x - h + n) = x + n
      BY <1>1, <2>2 DEF Slots
    <3> QED BY <1>1, <1>3, <3>1 DEF Slots
  <2> QED BY <1>1, <2>1, <2>2 DEF Slots
<1>5. m \in ends /\ \A y \in ends : m <= y
  <2>1. ends # {}
    <3>1. PICK i \in Slots(n) : s[i].ref = 0
      BY DEF HasRoom, Used
    <3>2. PICK d \in 0..(n - 1) : at(d) = i
      BY <1>4
    <3> QED BY <3>1, <3>2
  <2>2. ends \in SUBSET Nat
    BY <1>1
  <2> HIDE DEF ends
  <2> QED BY <2>1, <2>2, MinPicks
<1> DEFINE p == at(m)
<1>6. m \in 0..(n - 1) /\ (s[p].ref = 0 \/ s[p].key = k)
  BY <1>5
<1>7. \A d \in 0..(n - 1) : d < m => s[at(d)].ref # 0 /\ s[at(d)].key # k
  BY <1>5, <1>6
<1> HIDE DEF m, ends
<1>8. p \in Slots(n)
  BY <1>1, <1>3, <1>6 DEF Slots
<1>9. ASSUME NEW x \in Slots(n), InArc(h, x, p), x # p
      PROVE  s[x].ref # 0 /\ s[x].key # k
  <2>1. PICK d \in 0..(n - 1) : at(d) = x
    BY <1>4
  <2>2. d < m
    BY <1>1, <1>3, <1>6, <1>9, <2>1 DEF InArc, Slots
  <2> QED BY <1>7, <2>1, <2>2
<1> QED BY <1>2, <1>6, <1>8, <1>9 DEF Ends, h

----------------------------------------------------------------------------
(* What a table stores.                                                    *)

\* The entries of s are the rows of f: each stored key has one slot.
Stores(s, n, f) ==
    /\ \A i \in Slots(n) : Used(s, i) => s[i].key \in Keys /\ s[i].ref = f[s[i].key]
    /\ \A i, j \in Slots(n) : Used(s, i) /\ Used(s, j) /\ s[i].key = s[j].key => i = j
    /\ \A k \in Keys : f[k] # 0 => \E i \in Slots(n) : Used(s, i) /\ s[i].key = k

\* From the home of an entry to its slot all slots are taken.
Chained(s, n) ==
    \A j \in Slots(n) : Used(s, j) =>
        \A x \in Slots(n) : InArc(pkHome(s[j].key, n), x, j) => Used(s, x)

Refs == [Keys -> Nat]

Good(s, n, f) == s \in Table(n) /\ f \in Refs /\ Stores(s, n, f) /\ Chained(s, n)

\* A table without an entry.
LEMMA FreshGood ==
    ASSUME NEW n \in Nat
    PROVE  Good(Fresh(n), n, [k \in Keys |-> 0])
BY DEF Good, Fresh, Table, Slot, Empty, Refs, Stores, Chained, Used, Slots

\* The probe for a key meets its entry if there is one, else an empty slot.
LEMMA ProbeFinds ==
    ASSUME Hashes, NEW n \in Sizes, NEW s, NEW f, Good(s, n, f), NEW k \in Keys, NEW p, Ends(s, n, k, p)
    PROVE  s[p].ref = f[k]
<1> DEFINE h == pkHome(k, n)
<1>1. n \in Nat \ {0} /\ h \in 0..(n - 1) /\ p \in Slots(n) /\ s \in Table(n) /\ f \in Refs
  BY HomeIs, PkMapBounds DEF Sizes, Ends, Good
<1>2. \A i \in Slots(n) : Used(s, i) => s[i].key \in Keys /\ s[i].ref = f[s[i].key]
  BY DEF Good, Stores
<1>3. CASE f[k] = 0
  <2>1. Used(s, p) => s[p].key = k
    BY DEF Ends, Used
  <2> QED BY <1>1, <1>2, <1>3, <2>1 DEF Used
<1>4. CASE f[k] # 0
  <2>1. PICK i \in Slots(n) : Used(s, i) /\ s[i].key = k
    BY <1>4 DEF Good, Stores
  <2>2. \A x \in Slots(n) : InArc(h, x, i) => Used(s, x)
    BY <2>1 DEF Good, Chained
  <2> HIDE DEF h
  <2>3. InArc(h, p, i) \/ InArc(h, i, p)
    BY <1>1 DEF InArc, Slots
  <2>4. InArc(h, i, p) => i = p
    BY <2>1 DEF Ends, h
  <2>5. InArc(h, i, i)
    BY <1>1 DEF InArc, Slots
  <2>6. Used(s, p)
    BY <1>1, <2>1, <2>2, <2>3, <2>4
  <2> QED BY <1>1, <1>2, <2>6 DEF Ends, Used
<1> QED BY <1>3, <1>4

\* An entry written where the probe for its key ended.
LEMMA WithGood ==
    ASSUME Hashes, NEW n \in Sizes, NEW s, NEW f, Good(s, n, f), NEW k \in Keys, NEW r \in Nat \ {0},
           NEW p, Ends(s, n, k, p)
    PROVE  Good(With(s, p, [key |-> k, ref |-> r]), n, [f EXCEPT ![k] = r])
<1> DEFINE e == [key |-> k, ref |-> r]
           t == With(s, p, e)
           g == [f EXCEPT ![k] = r]
           h == pkHome(k, n)
<1>1. n \in Nat \ {0} /\ h \in 0..(n - 1) /\ p \in Slots(n) /\ s \in Table(n) /\ f \in Refs
  BY HomeIs, PkMapBounds DEF Sizes, Ends, Good
<1>2. s[p].ref = f[k]
  BY ProbeFinds
<1>3. e \in Slot /\ e.key = k /\ e.ref = r
  BY DEF Slot
<1>4. g \in Refs /\ g[k] = r /\ \A q \in Keys : q # k => g[q] = f[q]
  BY <1>1 DEF Refs
<1> HIDE DEF e, g
<1>5. t \in Table(n) /\ t[p] = e /\ \A i \in Slots(n) : i # p => t[i] = s[i]
  BY <1>1, <1>3 DEF Table, With
<1> HIDE DEF t
<1>6. \A i \in Slots(n) : Used(s, i) /\ s[i].key = k => i = p
  <2> SUFFICES ASSUME NEW i \in Slots(n), Used(s, i), s[i].key = k PROVE i = p
    OBVIOUS
  <2>1. s[i].ref = f[k] /\ f[k] # 0
    BY DEF Good, Stores, Used
  <2>2. Used(s, p)
    BY <1>2, <2>1 DEF Used
  <2>3. s[p].key = k
    BY <2>2 DEF Ends, Used
  <2> QED BY <1>1, <2>2, <2>3 DEF Good, Stores
<1>7. Used(t, p) /\ \A i \in Slots(n) : i # p => (Used(t, i) <=> Used(s, i))
  BY <1>3, <1>5 DEF Used
<1>8. Stores(t, n, g)
  <2>1. ASSUME NEW i \in Slots(n), Used(t, i) PROVE t[i].key \in Keys /\ t[i].ref = g[t[i].key]
    <3>1. CASE i = p
      BY <1>3, <1>4, <1>5, <3>1
    <3>2. CASE i # p
      <4>1. t[i] = s[i] /\ Used(s, i)
        BY <1>5, <1>7, <2>1, <3>2
      <4>2. s[i].key \in Keys /\ s[i].ref = f[s[i].key] /\ s[i].key # k
        BY <1>6, <3>2, <4>1 DEF Good, Stores
      <4> QED BY <1>4, <4>1, <4>2
    <3> QED BY <3>1, <3>2
  <2>2. ASSUME NEW i \in Slots(n), NEW j \in Slots(n), Used(t, i), Used(t, j), t[i].key = t[j].key PROVE i = j
    <3>1. CASE i = p
      BY <1>3, <1>5, <1>6, <1>7, <2>2, <3>1
    <3>2. CASE j = p
      BY <1>3, <1>5, <1>6, <1>7, <2>2, <3>2
    <3>3. CASE i # p /\ j # p
      <4>1. t[i] = s[i] /\ t[j] = s[j] /\ Used(s, i) /\ Used(s, j)
        BY <1>5, <1>7, <2>2, <3>3
      <4> QED BY <2>2, <4>1 DEF Good, Stores
    <3> QED BY <3>1, <3>2, <3>3
  <2>3. ASSUME NEW q \in Keys, g[q] # 0 PROVE \E i \in Slots(n) : Used(t, i) /\ t[i].key = q
    <3>1. CASE q = k
      BY <1>1, <1>3, <1>5, <1>7, <3>1
    <3>2. CASE q # k
      <4>1. f[q] # 0
        BY <1>4, <2>3, <3>2
      <4>2. PICK i \in Slots(n) : Used(s, i) /\ s[i].key = q
        BY <4>1 DEF Good, Stores
      <4>3. i # p
        <5> SUFFICES ASSUME i = p PROVE FALSE
          OBVIOUS
        <5> QED BY <3>2, <4>2 DEF Ends, Used
      <4> QED BY <1>5, <1>7, <4>2, <4>3
    <3> QED BY <3>1, <3>2
  <2> QED BY <2>1, <2>2, <2>3 DEF Stores
<1>9. Chained(t, n)
  <2> SUFFICES ASSUME NEW j \in Slots(n), Used(t, j), NEW x \in Slots(n), InArc(pkHome(t[j].key, n), x, j)
               PROVE  Used(t, x)
    BY DEF Chained
  <2>1. CASE x = p
    BY <1>7, <2>1
  <2>2. CASE x # p /\ j = p
    <3>1. InArc(pkHome(k, n), x, p)
      BY <1>3, <1>5, <2>2
    <3>2. s[x].ref # 0
      BY <2>2, <3>1 DEF Ends
    <3> QED BY <1>7, <2>2, <3>2 DEF Used
  <2>3. CASE x # p /\ j # p
    <3>1. t[j] = s[j] /\ Used(s, j)
      BY <1>5, <1>7, <2>3
    <3>2. Used(s, x)
      BY <3>1 DEF Good, Chained
    <3> QED BY <1>7, <2>3, <3>2
  <2> QED BY <2>1, <2>2, <2>3
<1> QED BY <1>4, <1>5, <1>8, <1>9 DEF Good, t, e, g

----------------------------------------------------------------------------
(* Counting.                                                               *)

Stored(f) == {k \in Keys : f[k] # 0}

\* How many keys can be stored.
LEMMA StoredCount ==
    ASSUME NEW f \in Refs
    PROVE  IsFiniteSet(Stored(f)) /\ Cardinality(Stored(f)) \in Nat
<1>1. Stored(f) \subseteq Keys
  BY DEF Stored
<1> QED BY <1>1, FiniteKeys, FS_Subset, FS_CardinalityType

\* A table with fewer entries than slots has room.
LEMMA FewLeaveRoom ==
    ASSUME NEW n \in Nat, NEW s, NEW f, Good(s, n, f), Cardinality(Stored(f)) < n
    PROVE  HasRoom(s, n)
<1> SUFFICES ASSUME ~HasRoom(s, n) PROVE FALSE
  OBVIOUS
<1> DEFINE g == [i \in Slots(n) |-> s[i].key]
<1>1. f \in Refs /\ \A i \in Slots(n) : Used(s, i)
  BY DEF HasRoom, Good
<1>2. g \in [Slots(n) -> Stored(f)]
  BY <1>1 DEF Good, Stores, Stored, Used
<1>3. IsFiniteSet(Slots(n)) /\ Cardinality(Slots(n)) = n
  BY SizeIs
<1>4. PICK i, j \in Slots(n) : i # j /\ g[i] = g[j]
  <2> HIDE DEF g
  <2> QED BY <1>1, <1>2, <1>3, StoredCount, FS_PigeonHole
<1> QED BY <1>1, <1>4 DEF Good, Stores

\* There are as many entries as keys stored.
LEMMA EntriesAreKeys ==
    ASSUME NEW n \in Nat, NEW s, NEW f, Good(s, n, f)
    PROVE  Cardinality({i \in Slots(n) : Used(s, i)}) = Cardinality(Stored(f))
<1> DEFINE S == {i \in Slots(n) : Used(s, i)}
           g == [i \in S |-> s[i].key]
<1>1. f \in Refs
  BY DEF Good
<1>2. g \in [S -> Stored(f)]
  BY DEF Good, Stores, Stored, Used
<1>3. \A i, j \in S : g[i] = g[j] => i = j
  BY DEF Good, Stores
<1>4. \A k \in Stored(f) : \E i \in S : g[i] = k
  BY DEF Good, Stores, Stored
<1>5. IsFiniteSet(S)
  <2>1. S \subseteq Slots(n)
    OBVIOUS
  <2> HIDE DEF S
  <2> QED BY <2>1, SizeIs, FS_Subset
<1> HIDE DEF S, g
<1>6. g \in Bijection(S, Stored(f))
  BY <1>2, <1>3, <1>4 DEF Bijection, Injection, Surjection, IsInjective
<1> QED BY <1>5, <1>6, FS_Bijection DEF ExistsBijection, S

\* One key more.
LEMMA StoredMore ==
    ASSUME NEW f \in Refs, NEW k \in Keys, NEW r \in Nat \ {0}
    PROVE  Cardinality(Stored([f EXCEPT ![k] = r])) =
             IF f[k] = 0 THEN Cardinality(Stored(f)) + 1 ELSE Cardinality(Stored(f))
<1> DEFINE g == [f EXCEPT ![k] = r]
<1>1. \A q \in Keys : g[q] # 0 <=> q = k \/ f[q] # 0
  BY DEF Refs
<1>2. Stored(g) = Stored(f) \cup {k} /\ (k \in Stored(f) <=> f[k] # 0)
  <2> HIDE DEF g
  <2> QED BY <1>1 DEF Stored
<1>3. CASE f[k] = 0
  <2>1. IsFiniteSet(Stored(f)) /\ k \notin Stored(f)
    BY <1>2, <1>3, StoredCount
  <2>2. Cardinality(Stored(f) \cup {k}) = Cardinality(Stored(f)) + 1
    BY <2>1, FS_AddElement
  <2> QED BY <1>2, <1>3, <2>2
<1>4. CASE f[k] # 0
  <2>1. Stored(g) = Stored(f)
    <3> HIDE DEF g
    <3> QED BY <1>2, <1>4
  <2> QED BY <1>4, <2>1
<1> QED BY <1>3, <1>4

\* One key less.
LEMMA StoredLess ==
    ASSUME NEW f \in Refs, NEW k \in Keys, f[k] # 0
    PROVE  Cardinality(Stored([f EXCEPT ![k] = 0])) = Cardinality(Stored(f)) - 1
<1> DEFINE g == [f EXCEPT ![k] = 0]
<1>1. \A q \in Keys : g[q] # 0 <=> q # k /\ f[q] # 0
  BY DEF Refs
<1>2. Stored(g) = Stored(f) \ {k} /\ k \in Stored(f)
  <2> HIDE DEF g
  <2> QED BY <1>1 DEF Stored
<1> QED BY <1>2, StoredCount, FS_RemoveElement

----------------------------------------------------------------------------
(* The map.                                                                *)

Tables == UNION {Table(n) : n \in Nat}
Maps == [slots : Tables, used : Nat]

\* m is a map of n slots with the rows of f, within the load.
Holds(m, n, f) ==
    /\ n \in {0} \cup Sizes /\ m \in Maps
    /\ Good(m.slots, n, f)
    /\ m.used = Cardinality(Stored(f))
    /\ 4 * m.used <= 3 * n

\* The number of slots of such a map.
LEMMA HoldsSize ==
    ASSUME NEW m, NEW n \in Nat, m.slots \in Table(n)
    PROVE  Size(m) = n /\ DOMAIN m.slots = Slots(n)
BY SizeIs DEF Size, Table

\* Numbers of a map.
LEMMA HoldsNumbers ==
    ASSUME NEW m, NEW n, NEW f, Holds(m, n, f)
    PROVE  /\ n \in Nat /\ m.slots \in Table(n) /\ f \in Refs /\ m.used \in Nat /\ Size(m) = n
           /\ n # 0 => n \in Sizes /\ m.used < n /\ HasRoom(m.slots, n)
<1>1. n \in Nat /\ m.slots \in Table(n) /\ f \in Refs /\ m.used \in Nat
  BY PkMapBounds DEF Holds, Good, Maps, Sizes
<1>2. Size(m) = n
  BY <1>1, HoldsSize
<1>3. ASSUME n # 0 PROVE n \in Sizes /\ m.used < n /\ HasRoom(m.slots, n)
  <2>1. n \in Sizes /\ m.used < n
    BY <1>1, <1>3 DEF Holds
  <2> QED BY <1>1, <2>1, FewLeaveRoom DEF Holds
<1> QED BY <1>1, <1>2, <1>3

\* A map finds what it stores.
LEMMA GetIs ==
    ASSUME Hashes, NEW m, NEW n, NEW f, Holds(m, n, f), NEW k \in Keys
    PROVE  get(m, k) = f[k]
<1>1. /\ n \in Nat /\ m.slots \in Table(n) /\ f \in Refs /\ Size(m) = n
      /\ n # 0 => n \in Sizes /\ HasRoom(m.slots, n)
  BY HoldsNumbers
<1>2. CASE n = 0
  <2>1. Slots(n) = {}
    BY <1>2 DEF Slots
  <2>2. f[k] = 0
    BY <2>1 DEF Holds, Good, Stores
  <2> QED BY <1>1, <1>2, <2>2 DEF get
<1>3. CASE n # 0
  <2>1. Ends(m.slots, n, k, Probe(m.slots, k))
    BY <1>1, <1>3, ProbeEnds
  <2>2. m.slots[Probe(m.slots, k)].ref = f[k]
    BY <1>1, <1>3, <2>1, ProbeFinds DEF Holds
  <2> QED BY <1>1, <1>3, <2>2 DEF get
<1> QED BY <1>2, <1>3

----------------------------------------------------------------------------
(* Growing.                                                                *)

MoveFold == INSTANCE LeftFold WITH op <- Moved, V <- Tables, E <- Slot

\* Moving an entry keeps the number of slots.
LEMMA MovedType ==
    ASSUME NEW n \in Nat, NEW s \in Table(n), NEW e \in Slot
    PROVE  Moved(s, e) \in Table(n)
<1> DEFINE p == Probe(s, e.key)
<1> HIDE DEF p
<1>1. With(s, p, e) \in Table(n)
  BY DEF With, Table
<1> QED BY <1>1 DEF Moved, p

\* The moves of a growth are a fold of Moved.
LEMMA MovesRun ==
    MoveFold!Closed /\ \A s, l : FoldLeft(Moved, s, l) = MoveFold!Run(s, l)
<1>1. MoveFold!Closed
  <2>1. ASSUME NEW s \in Tables, NEW e \in Slot PROVE Moved(s, e) \in Tables
    <3>1. PICK n \in Nat : s \in Table(n)
      BY DEF Tables
    <3> QED BY <3>1, MovedType DEF Tables
  <2> QED BY <2>1 DEF MoveFold!Closed
<1>2. \A s, l : FoldLeft(Moved, s, l) = MoveFold!Run(s, l)
  BY DEF MoveFold!Run, FoldLeft, MoveFold!FoldLeft, MapThenFoldSet, MoveFold!MapThenFoldSet, Max, MoveFold!Max
<1> QED BY <1>1, <1>2

\* The rows of f whose keys are in the first j slots of s.
First(s, f, j) == [k \in Keys |-> IF \E i \in 0..(j - 1) : Used(s, i) /\ s[i].key = k THEN f[k] ELSE 0]

\* One slot further: the row of its entry is among them.
LEMMA FirstNext ==
    ASSUME NEW n \in Nat, NEW s, NEW f, Good(s, n, f), NEW j \in 1..n
    PROVE  /\ First(s, f, j - 1) \in Refs
           /\ s[j - 1] \in Slot
           /\ s[j - 1].ref = 0 => First(s, f, j) = First(s, f, j - 1)
           /\ s[j - 1].ref # 0 => s[j - 1].key \in Keys /\ First(s, f, j) = [First(s, f, j - 1) EXCEPT ![s[j - 1].key] = s[j - 1].ref]
<1> DEFINE e == s[j - 1]
           a == First(s, f, j - 1)
           b == First(s, f, j)
<1>1. j - 1 \in Slots(n) /\ f \in Refs /\ e \in Slot
  BY DEF Good, Table, Slots
<1>2. a \in Refs /\ b \in Refs
  BY <1>1 DEF First, Refs
<1>3. \A i \in 0..(j - 1) : i \in 0..((j - 1) - 1) \/ i = j - 1
  OBVIOUS
<1>3a. \A i \in 0..((j - 1) - 1) : i \in 0..(j - 1)
  OBVIOUS
<1>3b. j - 1 \in 0..(j - 1)
  OBVIOUS
<1>4. CASE e.ref = 0
  <2>1. \A k \in Keys : b[k] = a[k]
    BY <1>3, <1>3a, <1>4 DEF First, Used
  <2> QED BY <1>1, <1>2, <1>4, <2>1 DEF Refs
<1>5. CASE e.ref # 0
  <2>1. e.key \in Keys /\ e.ref = f[e.key]
    BY <1>1, <1>5 DEF Good, Stores, Used
  <2>2. b[e.key] = e.ref
    BY <1>3b, <1>5, <2>1 DEF First, Used
  <2>3. \A k \in Keys : k # e.key => b[k] = a[k]
    BY <1>3, <1>3a DEF First
  <2> HIDE DEF a, b, e
  <2>4. b = [a EXCEPT ![e.key] = e.ref]
    BY <1>2, <2>1, <2>2, <2>3 DEF Refs
  <2> QED BY <1>1, <1>2, <1>5, <2>1, <2>4 DEF a, b, e
<1> QED BY <1>4, <1>5

\* At both ends: no rows, and all.
LEMMA FirstEnds ==
    ASSUME NEW n \in Nat, NEW s, NEW f, Good(s, n, f)
    PROVE  First(s, f, 0) = [k \in Keys |-> 0] /\ First(s, f, n) = f
<1>1. First(s, f, 0) = [k \in Keys |-> 0]
  BY DEF First
<1>2. \A k \in Keys : First(s, f, n)[k] = f[k]
  BY DEF First, Good, Stores, Slots
<1>3. f \in Refs /\ First(s, f, n) \in Refs
  BY DEF Good, First, Refs
<1> QED BY <1>1, <1>2, <1>3 DEF Refs

\* Part of the rows needs no more room than all of them.
LEMMA FirstFewer ==
    ASSUME NEW f \in Refs, NEW s, NEW j \in Nat
    PROVE  Cardinality(Stored(First(s, f, j))) <= Cardinality(Stored(f))
<1>1. Stored(First(s, f, j)) \subseteq Stored(f)
  BY DEF Stored, First
<1> QED BY <1>1, StoredCount, FS_Subset

\* The slots after the first j moves of a growth to c slots.
LEMMA MovesHold ==
    ASSUME Hashes, NEW n \in Nat, NEW s, NEW f, Good(s, n, f), NEW c \in Nat,
           Cardinality(Stored(f)) < c, NEW l, l = [i \in 1..n |-> s[i - 1]]
    PROVE  LET t == FoldLeft(Moved, Fresh(c), l) IN
           t \in Table(c) /\ (c \in Sizes => Good(t, c, f))
<1> DEFINE T(j) == MoveFold!Run(Fresh(c), SubSeq(l, 1, j))
           Moves(j) == T(j) \in Table(c) /\ (c \in Sizes => Good(T(j), c, First(s, f, j)))
           X == {j \in Nat : j <= n => Moves(j)}
<1>0. /\ f \in Refs /\ l \in Seq(Slot) /\ Len(l) = n /\ Fresh(c) \in Tables
      /\ Good(Fresh(c), c, First(s, f, 0)) /\ Fresh(c) \in Table(c) /\ \A j \in 1..n : l[j] = s[j - 1]
  <2>1. f \in Refs /\ l \in Seq(Slot) /\ Len(l) = n
    BY DEF Good, Table, Slots
  <2>2. Good(Fresh(c), c, First(s, f, 0)) /\ Fresh(c) \in Table(c)
    BY FreshGood, FirstEnds DEF Good
  <2> QED BY <2>1, <2>2 DEF Tables
<1>1. 0 \in X
  <2>1. SubSeq(l, 1, 0) = <<>>
    BY <1>0
  <2>2. T(0) = Fresh(c)
    BY <1>0, <2>1, MovesRun, MoveFold!RunEmpty
  <2> QED BY <1>0, <2>2
<1>2. \A j \in Nat : j \in X => j + 1 \in X
  <2>0. \A j \in Nat : j + 1 \in Nat
    OBVIOUS
  <2> SUFFICES ASSUME NEW i \in Nat, i \in X, i + 1 <= n PROVE Moves(i + 1)
    BY <2>0, Zenon
  <2> DEFINE j == i + 1
             e == l[j]
             u == T(i)
             g == First(s, f, i)
  <2>1. j \in 1..n /\ j - 1 = i /\ i <= n
    OBVIOUS
  <2>2. u \in Table(c) /\ (c \in Sizes => Good(u, c, g))
    BY <2>1
  <2>3. T(j) = Moved(u, e)
    <3>1. T(j) = Moved(T(j - 1), e)
      BY <1>0, <2>1, MovesRun, MoveFold!RunPrefix, Zenon
    <3> QED BY <2>1, <3>1
  <2>4. e = s[i] /\ e \in Slot /\ g \in Refs
    <3>1. e = s[i]
      BY <1>0, <2>1
    <3>2. First(s, f, j - 1) \in Refs /\ s[j - 1] \in Slot
      BY <2>1, FirstNext
    <3> QED BY <2>1, <3>1, <3>2
  <2>5. /\ e.ref = 0 => First(s, f, j) = g
        /\ e.ref # 0 => e.key \in Keys /\ First(s, f, j) = [g EXCEPT ![e.key] = e.ref]
    BY <2>1, <2>4, FirstNext
  <2>6. Cardinality(Stored(g)) < c
    BY <1>0, <2>4, FirstFewer, StoredCount
  <2> HIDE DEF T, e, g, u
  <2>7. T(j) \in Table(c)
    BY <2>2, <2>3, <2>4, MovedType
  <2>8. ASSUME c \in Sizes PROVE Good(T(j), c, First(s, f, j))
    <3>1. Good(u, c, g)
      BY <2>2, <2>8
    <3>2. CASE e.ref = 0
      BY <2>3, <2>5, <3>1, <3>2 DEF Moved
    <3>3. CASE e.ref # 0
      <4>1. e.key \in Keys /\ e.ref \in Nat \ {0} /\ e = [key |-> e.key, ref |-> e.ref]
        BY <2>4, <2>5, <3>3 DEF Slot
      <4>2. HasRoom(u, c)
        BY <2>6, <3>1, FewLeaveRoom
      <4>3. Ends(u, c, e.key, Probe(u, e.key))
        BY <2>2, <2>8, <4>1, <4>2, ProbeEnds
      <4>4. Good(With(u, Probe(u, e.key), [key |-> e.key, ref |-> e.ref]), c, [g EXCEPT ![e.key] = e.ref])
        BY <2>8, <3>1, <4>1, <4>3, WithGood
      <4>5. T(j) = With(u, Probe(u, e.key), e)
        BY <2>3, <3>3 DEF Moved
      <4> QED BY <2>5, <3>3, <4>1, <4>4, <4>5
    <3> QED BY <3>2, <3>3
  <2> QED BY <2>7, <2>8
<1>3. n \in X
  <2> HIDE DEF X
  <2> QED BY <1>1, <1>2, NatSetInduction
<1>4. T(n) = FoldLeft(Moved, Fresh(c), l)
  <2>1. SubSeq(l, 1, n) = l
    BY <1>0
  <2> QED BY <2>1, MovesRun
<1> QED BY <1>3, <1>4, FirstEnds

\* The slots of a map of n slots after a growth.
Doubled(n) == IF n * 2 < MinSlots THEN MinSlots ELSE n * 2

\* It is a size the map can have, unless that is beyond the hashes.
LEMMA DoubledSize ==
    ASSUME NEW n \in {0} \cup Sizes
    PROVE  /\ Doubled(n) \in Nat /\ n < Doubled(n)
           /\ Doubled(n) <= HashRange => Doubled(n) \in Sizes
           /\ 4 <= 3 * Doubled(n) /\ (n # 0 => 3 * n + 4 <= 3 * Doubled(n))
<1>1. n \in Nat /\ MinSlots \in Nat /\ MinSlots >= 2 /\ HashRange \in Nat
  BY PkMapBounds DEF Sizes
<1>2. CASE n = 0
  BY <1>1, <1>2, PkMapBounds DEF Doubled
<1>3. CASE n # 0
  <2>1. n >= MinSlots /\ n <= HashRange /\ HashRange % n = 0
    BY <1>1, <1>3 DEF Sizes
  <2>2. Doubled(n) = 2 * n
    BY <1>1, <2>1 DEF Doubled
  <2>3. 2 * n <= HashRange => HashRange % (2 * n) = 0
    BY <1>1, <1>3, <2>1, PowerOfTwo
  <2>4. 2 * n <= HashRange => 2 * n \in Sizes
    BY <1>1, <2>1, <2>3 DEF Sizes
  <2> QED BY <1>1, <1>3, <2>1, <2>2, <2>4
<1> QED BY <1>2, <1>3

\* A growth keeps the rows.
LEMMA GrowHolds ==
    ASSUME Hashes, NEW m, NEW n, NEW f, Holds(m, n, f)
    PROVE  /\ Size(grow(m)) = Doubled(n) /\ grow(m).used = m.used
           /\ Doubled(n) \in Sizes => Holds(grow(m), Doubled(n), f)
<1> DEFINE c == Doubled(n)
           l == [i \in 1..n |-> m.slots[i - 1]]
           t == FoldLeft(Moved, Fresh(c), l)
<1>1. n \in Nat /\ m.slots \in Table(n) /\ f \in Refs /\ m.used \in Nat /\ Size(m) = n
  BY HoldsNumbers
<1>2. c \in Nat /\ n < c
  BY DoubledSize DEF Holds
<1>3. grow(m) = [m EXCEPT !.slots = t]
  BY <1>1 DEF grow, Doubled
<1>4. t \in Table(c) /\ (c \in Sizes => Good(t, c, f))
  <2>1. Good(m.slots, n, f) /\ Cardinality(Stored(f)) < c
    BY <1>1, <1>2 DEF Holds
  <2> HIDE DEF c
  <2> QED BY <1>1, <1>2, <2>1, MovesHold
<1> HIDE DEF t
<1>5. m \in Maps /\ t \in Tables
  BY <1>2, <1>4 DEF Holds, Tables
<1>6. grow(m) \in Maps /\ grow(m).slots = t /\ grow(m).used = m.used
  BY <1>3, <1>5 DEF Maps
<1>7. Size(grow(m)) = c
  BY <1>2, <1>4, <1>6, HoldsSize
<1>8. ASSUME c \in Sizes PROVE Holds(grow(m), c, f)
  <2>1. 4 * m.used <= 3 * c
    BY <1>1, <1>2 DEF Holds
  <2> QED BY <1>4, <1>6, <1>8, <2>1 DEF Holds
<1> QED BY <1>6, <1>7, <1>8

\* A reservation keeps the rows and leaves room within the load for one more.
LEMMA ReservedHolds ==
    ASSUME Hashes, NEW m, NEW n, NEW f, Holds(m, n, f), Size(Reserved(m)) <= MaxSlots
    PROVE  \E c \in Sizes : Holds(Reserved(m), c, f) /\ 4 * (Reserved(m).used + 1) <= 3 * c
<1>1. /\ n \in Nat /\ m.used \in Nat /\ Size(m) = n /\ n \in {0} \cup Sizes /\ 4 * m.used <= 3 * n
      /\ MaxSlots \in Nat /\ HashRange \in Nat /\ MaxSlots <= HashRange
  <2>1. n \in {0} \cup Sizes /\ 4 * m.used <= 3 * n
    BY DEF Holds
  <2> QED BY <2>1, HoldsNumbers, PkMapBounds
<1>2. CASE 4 * (m.used + 1) > 3 * n
  <2>1. Reserved(m) = grow(m)
    BY <1>1, <1>2 DEF Reserved
  <2>2. Size(grow(m)) = Doubled(n) /\ grow(m).used = m.used
    BY GrowHolds
  <2>3. Doubled(n) \in Nat /\ Doubled(n) <= HashRange
    BY <1>1, <2>1, <2>2, DoubledSize
  <2>4. Doubled(n) \in Sizes
    BY <1>1, <2>3, DoubledSize
  <2>5. Holds(grow(m), Doubled(n), f)
    BY <2>4, GrowHolds
  <2>6. 4 * (m.used + 1) <= 3 * Doubled(n)
    BY <1>1, <2>3, DoubledSize
  <2> QED BY <2>1, <2>2, <2>4, <2>5, <2>6
<1>3. CASE ~(4 * (m.used + 1) > 3 * n)
  <2>1. Reserved(m) = m /\ n \in Sizes
    BY <1>1, <1>3 DEF Reserved
  <2> QED BY <1>1, <1>3, <2>1
<1> QED BY <1>2, <1>3

\* The commit or put that follows it.
LEMMA PutFills ==
    ASSUME Hashes, NEW m, NEW c \in Sizes, NEW f, Holds(Reserved(m), c, f),
           4 * (Reserved(m).used + 1) <= 3 * c, NEW k \in Keys, NEW r \in Nat \ {0}
    PROVE  Holds(put(m, k, r), c, [f EXCEPT ![k] = r])
<1> DEFINE g == Reserved(m)
           i == Probe(g.slots, k)
           e == [key |-> k, ref |-> r]
           t == With(g.slots, i, e)
           h == [f EXCEPT ![k] = r]
           u == IF g.slots[i].ref = 0 THEN g.used + 1 ELSE g.used
<1>1. c \in Nat /\ g.slots \in Table(c) /\ f \in Refs /\ g.used \in Nat /\ HasRoom(g.slots, c)
  <2>1. c # 0
    BY PkMapBounds DEF Sizes
  <2> HIDE DEF g
  <2> QED BY <2>1, HoldsNumbers DEF g
<1>2. put(m, k, r) = [slots |-> t, used |-> u]
  BY DEF put
<1>3. Good(g.slots, c, f) /\ g.used = Cardinality(Stored(f)) /\ 4 * g.used <= 3 * c
  BY DEF Holds
<1>3a. 4 * (g.used + 1) <= 3 * c
  OBVIOUS
<1> HIDE DEF g
<1>4. Ends(g.slots, c, k, i)
  BY <1>1, ProbeEnds
<1>5. g.slots[i].ref = f[k]
  BY <1>3, <1>4, ProbeFinds
<1>6. Good(t, c, h)
  <2> HIDE DEF i
  <2> QED BY <1>3, <1>4, WithGood
<1>7. u = Cardinality(Stored(h)) /\ u \in Nat /\ 4 * u <= 3 * c
  <2> HIDE DEF i
  <2>1. Cardinality(Stored(h)) = IF f[k] = 0 THEN Cardinality(Stored(f)) + 1 ELSE Cardinality(Stored(f))
    BY <1>1, StoredMore
  <2> HIDE DEF h
  <2> QED BY <1>1, <1>3, <1>3a, <1>5, <2>1
<1>8. t \in Tables
  BY <1>1, <1>6 DEF Good, Tables
<1> HIDE DEF t, h, u
<1> DEFINE v == put(m, k, r)
<1>9. v.slots = t /\ v.used = u /\ v \in Maps
  BY <1>2, <1>7, <1>8 DEF Maps
<1> HIDE DEF v
<1>10. Holds(v, c, h)
  BY <1>6, <1>7, <1>9 DEF Holds
<1> QED BY <1>10 DEF v, h

----------------------------------------------------------------------------
(* Deleting.  The slots are counted from behind an empty one, z: no chain  *)
(* passes z, so in this count no chain wraps around.                       *)

Off(z, n, x) == IF x > z THEN x - z - 1 ELSE x + n - z - 1

\* The count numbers the slots, z last.
LEMMA OffIs ==
    ASSUME NEW n \in Nat, NEW z \in Slots(n)
    PROVE  /\ \A x \in Slots(n) : Off(z, n, x) \in 0..(n - 1)
           /\ \A x, y \in Slots(n) : Off(z, n, x) = Off(z, n, y) => x = y
           /\ \A x \in Slots(n) : x # z => Off(z, n, x) < n - 1
BY DEF Off, Slots

\* The slot behind x has the next number.
LEMMA OffNext ==
    ASSUME NEW n \in Nat, n >= 2, NEW z \in Slots(n), NEW x \in Slots(n), x # z
    PROVE  (x + 1) % n \in Slots(n) /\ Off(z, n, (x + 1) % n) = Off(z, n, x) + 1
<1>1. x \in 0..(n - 1) /\ 1 \in 0..(n - 1) /\ n \in Nat \ {0}
  BY DEF Slots
<1>2. (x + 1) % n = IF x + 1 < n THEN x + 1 ELSE x + 1 - n
  BY <1>1, WrapsOnce
<1>3. CASE x + 1 < n
  BY <1>1, <1>2, <1>3 DEF Off, Slots
<1>4. CASE ~(x + 1 < n)
  <2>1. (x + 1) % n = 0
    BY <1>1, <1>2, <1>4
  <2> QED BY <1>1, <1>4, <2>1 DEF Off, Slots
<1> QED BY <1>3, <1>4

\* Along a way that avoids z, the count goes up.
LEMMA ArcIsRange ==
    ASSUME NEW n \in Nat, NEW z \in Slots(n), NEW h \in Slots(n), NEW j \in Slots(n), ~InArc(h, z, j)
    PROVE  /\ Off(z, n, h) <= Off(z, n, j)
           /\ \A x \in Slots(n) : Off(z, n, h) <= Off(z, n, x) /\ Off(z, n, x) <= Off(z, n, j) => InArc(h, x, j)
BY DEF Off, Slots, InArc

\* A way on which the count goes up is a range of it.
LEMMA RangeIsArc ==
    ASSUME NEW n \in Nat, NEW z \in Slots(n), NEW h \in Slots(n), NEW j \in Slots(n), j # z,
           Off(z, n, h) <= Off(z, n, j), NEW x \in Slots(n), InArc(h, x, j)
    PROVE  Off(z, n, h) <= Off(z, n, x) /\ Off(z, n, x) <= Off(z, n, j)
BY DEF Off, Slots, InArc

\* The condition of the code: the entry's home is not behind the gap.
LEMMA ShiftsIs ==
    ASSUME NEW n \in Nat, NEW z \in Slots(n), NEW h \in Slots(n), NEW i \in Slots(n), NEW j \in Slots(n), j # z,
           Off(z, n, h) <= Off(z, n, j), Off(z, n, i) < Off(z, n, j)
    PROVE  Shifts(h, i, j) <=> Off(z, n, h) <= Off(z, n, i)
BY DEF Off, Slots, Shifts

\* All entries of t but the one in slot g are the rows of f without k; slot g
\* counts as taken on the way of an entry.
Gapped(t, g, n, f, k, z) ==
    /\ t \in Table(n) /\ g \in Slots(n) /\ Used(t, g)
    /\ z \in Slots(n) /\ ~Used(t, z)
    /\ \A x \in Slots(n) : Used(t, x) /\ x # g => t[x].key \in Keys /\ t[x].key # k /\ t[x].ref = f[t[x].key]
    /\ \A x, y \in Slots(n) : Used(t, x) /\ Used(t, y) /\ x # g /\ y # g /\ t[x].key = t[y].key => x = y
    /\ \A q \in Keys : q # k /\ f[q] # 0 => \E x \in Slots(n) : Used(t, x) /\ x # g /\ t[x].key = q
    /\ \A x \in Slots(n) : Used(t, x) /\ x # g =>
         /\ Off(z, n, pkHome(t[x].key, n)) <= Off(z, n, x)
         /\ \A y \in Slots(n) : Off(z, n, pkHome(t[x].key, n)) <= Off(z, n, y) /\ Off(z, n, y) <= Off(z, n, x) => Used(t, y)

\* The way of the entry in slot x leads over the gap.
Jumps(t, g, n, z, x) == Off(z, n, pkHome(t[x].key, n)) <= Off(z, n, g) /\ Off(z, n, g) <= Off(z, n, x)

\* No way up to slot a does.
Mended(t, g, n, z, a) == \A x \in Slots(n) : Used(t, x) /\ x # g /\ Off(z, n, x) <= Off(z, n, a) => ~Jumps(t, g, n, z, x)

\* The slot to remove is a gap, and no way up to it leads over it.
LEMMA GapOpens ==
    ASSUME Hashes, NEW n \in Sizes, NEW s, NEW f, Good(s, n, f), NEW i \in Slots(n), Used(s, i),
           NEW z \in Slots(n), ~Used(s, z)
    PROVE  Gapped(s, i, n, f, s[i].key, z) /\ Mended(s, i, n, z, i)
<1>1. n \in Nat /\ s \in Table(n) /\ f \in Refs
  BY PkMapBounds DEF Sizes, Good
<1>2. ASSUME NEW x \in Slots(n), Used(s, x)
      PROVE  /\ Off(z, n, pkHome(s[x].key, n)) <= Off(z, n, x)
             /\ \A y \in Slots(n) : Off(z, n, pkHome(s[x].key, n)) <= Off(z, n, y) /\ Off(z, n, y) <= Off(z, n, x) => Used(s, y)
  <2> DEFINE h == pkHome(s[x].key, n)
  <2>1. s[x].key \in Keys
    BY <1>2 DEF Good, Stores
  <2>2. h \in Slots(n)
    BY <2>1, HomeIs DEF Slots
  <2>3. \A y \in Slots(n) : InArc(h, y, x) => Used(s, y)
    BY <1>2 DEF Good, Chained
  <2> HIDE DEF h
  <2>4. ~InArc(h, z, x)
    BY <2>3
  <2>5. /\ Off(z, n, h) <= Off(z, n, x)
        /\ \A y \in Slots(n) : Off(z, n, h) <= Off(z, n, y) /\ Off(z, n, y) <= Off(z, n, x) => InArc(h, y, x)
    BY <1>1, <2>2, <2>4, ArcIsRange
  <2>6. \A y \in Slots(n) : Off(z, n, h) <= Off(z, n, y) /\ Off(z, n, y) <= Off(z, n, x) => Used(s, y)
    BY <2>3, <2>5
  <2> QED BY <2>5, <2>6 DEF h
<1>3. Gapped(s, i, n, f, s[i].key, z)
  <2>1. \A x \in Slots(n) : Used(s, x) /\ x # i => s[x].key \in Keys /\ s[x].key # s[i].key /\ s[x].ref = f[s[x].key]
    BY DEF Good, Stores
  <2>2. \A x, y \in Slots(n) : Used(s, x) /\ Used(s, y) /\ x # i /\ y # i /\ s[x].key = s[y].key => x = y
    BY DEF Good, Stores
  <2>3. \A q \in Keys : q # s[i].key /\ f[q] # 0 => \E x \in Slots(n) : Used(s, x) /\ x # i /\ s[x].key = q
    BY DEF Good, Stores
  <2> QED BY <1>1, <1>2, <2>1, <2>2, <2>3 DEF Gapped
<1>4. Mended(s, i, n, z, i)
  <2> SUFFICES ASSUME NEW x \in Slots(n), x # i, Off(z, n, x) <= Off(z, n, i), Off(z, n, i) <= Off(z, n, x) PROVE FALSE
    BY DEF Mended, Jumps
  <2>1. Off(z, n, x) = Off(z, n, i)
    BY <1>1, OffIs
  <2> QED BY <1>1, <2>1, OffIs
<1> QED BY <1>3, <1>4

\* When no way leads over the gap it can be emptied.
LEMMA GapCloses ==
    ASSUME Hashes, NEW n \in Sizes, NEW t, NEW g, NEW f \in Refs, NEW k \in Keys, NEW z, Gapped(t, g, n, f, k, z),
           \A x \in Slots(n) : Used(t, x) /\ x # g => ~Jumps(t, g, n, z, x)
    PROVE  Good(With(t, g, Empty), n, [f EXCEPT ![k] = 0])
<1> DEFINE u == With(t, g, Empty)
           e == [f EXCEPT ![k] = 0]
<1>1. n \in Nat /\ t \in Table(n) /\ g \in Slots(n) /\ Used(t, g) /\ z \in Slots(n) /\ ~Used(t, z)
  BY PkMapBounds DEF Sizes, Gapped
<1>2. u \in Table(n) /\ u[g].ref = 0 /\ \A x \in Slots(n) : x # g => u[x] = t[x]
  BY <1>1 DEF Table, With, Empty, Slot
<1>3. e \in Refs /\ e[k] = 0 /\ \A q \in Keys : q # k => e[q] = f[q]
  BY DEF Refs
<1> HIDE DEF u, e
<1>4. \A x \in Slots(n) : Used(u, x) <=> Used(t, x) /\ x # g
  BY <1>2 DEF Used
<1>5. Stores(u, n, e)
  <2>1. \A x \in Slots(n) : Used(u, x) => u[x].key \in Keys /\ u[x].ref = e[u[x].key]
    BY <1>2, <1>3, <1>4 DEF Gapped
  <2>2. \A x, y \in Slots(n) : Used(u, x) /\ Used(u, y) /\ u[x].key = u[y].key => x = y
    BY <1>2, <1>4 DEF Gapped
  <2>3. \A q \in Keys : e[q] # 0 => \E x \in Slots(n) : Used(u, x) /\ u[x].key = q
    <3> SUFFICES ASSUME NEW q \in Keys, e[q] # 0 PROVE \E x \in Slots(n) : Used(u, x) /\ u[x].key = q
      OBVIOUS
    <3>1. q # k /\ f[q] # 0
      BY <1>3
    <3>2. PICK x \in Slots(n) : Used(t, x) /\ x # g /\ t[x].key = q
      BY <3>1 DEF Gapped
    <3> QED BY <1>2, <1>4, <3>2
  <2> QED BY <2>1, <2>2, <2>3 DEF Stores
<1>6. Chained(u, n)
  <2> SUFFICES ASSUME NEW j \in Slots(n), Used(u, j), NEW x \in Slots(n), InArc(pkHome(u[j].key, n), x, j)
               PROVE  Used(u, x)
    BY DEF Chained
  <2> DEFINE h == pkHome(t[j].key, n)
  <2>1. Used(t, j) /\ j # g /\ u[j] = t[j] /\ j # z
    BY <1>1, <1>2, <1>4
  <2>2. h \in Slots(n)
    <3>1. t[j].key \in Keys
      BY <2>1 DEF Gapped
    <3> QED BY <3>1, HomeIs DEF Slots
  <2>3. /\ Off(z, n, h) <= Off(z, n, j)
        /\ \A y \in Slots(n) : Off(z, n, h) <= Off(z, n, y) /\ Off(z, n, y) <= Off(z, n, j) => Used(t, y)
    BY <2>1 DEF Gapped
  <2>4. ~(Off(z, n, h) <= Off(z, n, g) /\ Off(z, n, g) <= Off(z, n, j))
    BY <2>1 DEF Jumps
  <2>5. InArc(h, x, j)
    BY <2>1
  <2> HIDE DEF h
  <2>6. Off(z, n, h) <= Off(z, n, x) /\ Off(z, n, x) <= Off(z, n, j)
    BY <1>1, <2>1, <2>2, <2>3, <2>5, RangeIsArc
  <2>7. Used(t, x) /\ x # g
    BY <2>3, <2>4, <2>6
  <2> QED BY <1>4, <2>7
<1> QED BY <1>2, <1>3, <1>5, <1>6 DEF Good, u, e

\* The states of the walk, in a table that has slots.
Walks == [slots : UNION {Table(n) : n \in Nat \ {0}}, gap : Nat, at : Nat, stop : BOOLEAN]

\* The walk after d turns: it has mended the ways up to where it is, or all.
Walking(w, n, f, k, z, d) ==
    /\ w \in Walks /\ Gapped(w.slots, w.gap, n, f, k, z)
    /\ w.stop => \A x \in Slots(n) : Used(w.slots, x) /\ x # w.gap => ~Jumps(w.slots, w.gap, n, z, x)
    /\ ~w.stop =>
         /\ w.at \in Slots(n) /\ Used(w.slots, w.at) /\ d <= Off(z, n, w.at)
         /\ Off(z, n, w.gap) <= Off(z, n, w.at)
         /\ Mended(w.slots, w.gap, n, z, w.at)

\* At the first empty slot all ways are mended: a longer one would lead over it.
LEMMA WalkStops ==
    ASSUME Hashes, NEW n \in Sizes, NEW t, NEW g, NEW f, NEW k, NEW z, Gapped(t, g, n, f, k, z),
           NEW a \in Slots(n), NEW j \in Slots(n), ~Used(t, j), Off(z, n, j) = Off(z, n, a) + 1,
           Off(z, n, g) <= Off(z, n, a), Mended(t, g, n, z, a), NEW x \in Slots(n), Used(t, x), x # g
    PROVE  ~Jumps(t, g, n, z, x)
<1> DEFINE O(y) == Off(z, n, y)
           h == pkHome(t[x].key, n)
<1>0. n \in Nat
  BY PkMapBounds DEF Sizes
<1>1. z \in Slots(n) /\ g \in Slots(n) /\ \A y \in Slots(n) : O(h) <= O(y) /\ O(y) <= O(x) => Used(t, y)
  BY DEF Gapped
<1>2. \A y \in Slots(n) : O(y) \in 0..(n - 1)
  BY <1>0, <1>1, OffIs
<1>3. O(x) = O(j) => x = j
  BY <1>0, <1>1, OffIs
<1>4. O(x) <= O(a) => ~(O(h) <= O(g) /\ O(g) <= O(x))
  BY DEF Mended, Jumps
<1>5. O(j) = O(a) + 1 /\ O(g) <= O(a) /\ x # j
  OBVIOUS
<1>5a. O(h) \in Int
  <2>1. t[x].key \in Keys
    BY DEF Gapped
  <2>2. h \in Slots(n)
    BY <2>1, HomeIs DEF Slots
  <2> QED BY <1>2, <2>2
<1>6. ~(O(h) <= O(g) /\ O(g) <= O(x))
  <2> HIDE DEF O, h
  <2> QED BY <1>1, <1>2, <1>3, <1>4, <1>5, <1>5a
<1> QED BY <1>6 DEF Jumps

\* An entry whose way leads over the gap moves into it and leaves a new gap.
LEMMA GapMoves ==
    ASSUME Hashes, NEW n \in Sizes, NEW t, NEW g, NEW f, NEW k, NEW z, Gapped(t, g, n, f, k, z),
           NEW a \in Slots(n), NEW j \in Slots(n), Used(t, j), Off(z, n, j) = Off(z, n, a) + 1,
           Off(z, n, g) <= Off(z, n, a), Mended(t, g, n, z, a), Jumps(t, g, n, z, j)
    PROVE  Gapped(With(t, g, t[j]), j, n, f, k, z) /\ Mended(With(t, g, t[j]), j, n, z, j)
<1> DEFINE O(y) == Off(z, n, y)
           H(y) == O(pkHome(t[y].key, n))
           u == With(t, g, t[j])
<1>1. n \in Nat /\ t \in Table(n) /\ g \in Slots(n) /\ Used(t, g) /\ z \in Slots(n) /\ ~Used(t, z)
  BY PkMapBounds DEF Sizes, Gapped
<1>2. (\A y \in Slots(n) : O(y) \in 0..(n - 1)) /\ \A x, y \in Slots(n) : O(x) = O(y) => x = y
  BY <1>1, OffIs
<1>3. O(g) < O(j) /\ j # g /\ j # z
  <2>1. O(j) = O(a) + 1 /\ O(g) <= O(a)
    OBVIOUS
  <2> HIDE DEF O
  <2> QED BY <1>1, <1>2, <2>1
<1>4. u \in Table(n) /\ u[g] = t[j] /\ \A x \in Slots(n) : x # g => u[x] = t[x]
  BY <1>1 DEF Table, With
<1> HIDE DEF u
<1>5. \A x \in Slots(n) : Used(u, x) <=> Used(t, x)
  BY <1>1, <1>4 DEF Used
<1>6. \A x \in Slots(n) : Used(t, x) /\ x # g =>
        /\ t[x].key \in Keys /\ t[x].key # k /\ t[x].ref = f[t[x].key]
        /\ H(x) <= O(x) /\ \A y \in Slots(n) : H(x) <= O(y) /\ O(y) <= O(x) => Used(t, y)
  BY DEF Gapped
<1>7. \A x, y \in Slots(n) : Used(t, x) /\ Used(t, y) /\ x # g /\ y # g /\ t[x].key = t[y].key => x = y
  BY DEF Gapped
<1>8. \A q \in Keys : q # k /\ f[q] # 0 => \E x \in Slots(n) : Used(t, x) /\ x # g /\ t[x].key = q
  BY DEF Gapped
<1>9. H(j) <= O(g)
  BY DEF Jumps
<1>10. \A x \in Slots(n) : Used(t, x) /\ x # g /\ O(x) <= O(a) => ~(H(x) <= O(g) /\ O(g) <= O(x))
  BY DEF Mended, Jumps
<1>11. \A x \in Slots(n) : Used(t, x) /\ x # g => H(x) \in Int
  <2> SUFFICES ASSUME NEW x \in Slots(n), Used(t, x), x # g PROVE H(x) \in Int
    OBVIOUS
  <2>1. t[x].key \in Keys
    BY <1>6
  <2>2. pkHome(t[x].key, n) \in Slots(n)
    BY <2>1, HomeIs DEF Slots
  <2> QED BY <1>1, <1>2, <2>2
<1> DEFINE G(y) == O(pkHome(u[y].key, n))
<1>12. G(g) = H(j) /\ \A x \in Slots(n) : x # g => G(x) = H(x)
  BY <1>4
<1>13. O(j) = O(a) + 1
  OBVIOUS
<1>14. \A x \in Slots(n) : Used(u, x) /\ x # j => u[x].key \in Keys /\ u[x].key # k /\ u[x].ref = f[u[x].key]
  BY <1>3, <1>4, <1>5, <1>6
<1>15. \A x, y \in Slots(n) : Used(u, x) /\ Used(u, y) /\ x # j /\ y # j /\ u[x].key = u[y].key => x = y
  BY <1>3, <1>4, <1>5, <1>7
<1>16. \A q \in Keys : q # k /\ f[q] # 0 => \E x \in Slots(n) : Used(u, x) /\ x # j /\ u[x].key = q
  <2> SUFFICES ASSUME NEW q \in Keys, q # k, f[q] # 0 PROVE \E x \in Slots(n) : Used(u, x) /\ x # j /\ u[x].key = q
    OBVIOUS
  <2>1. PICK x \in Slots(n) : Used(t, x) /\ x # g /\ t[x].key = q
    BY <1>8
  <2> QED BY <1>1, <1>3, <1>4, <1>5, <2>1
<1> HIDE DEF O, H, G
<1>17. \A x \in Slots(n) : Used(u, x) /\ x # j =>
         G(x) <= O(x) /\ \A y \in Slots(n) : G(x) <= O(y) /\ O(y) <= O(x) => Used(u, y)
  <2> SUFFICES ASSUME NEW x \in Slots(n), Used(u, x), x # j
               PROVE  G(x) <= O(x) /\ \A y \in Slots(n) : G(x) <= O(y) /\ O(y) <= O(x) => Used(t, y)
    BY <1>5
  <2>1. CASE x = g
    <3>1. H(j) \in Int /\ \A y \in Slots(n) : H(j) <= O(y) /\ O(y) <= O(j) => Used(t, y)
      BY <1>3, <1>6, <1>11
    <3> QED BY <1>1, <1>2, <1>3, <1>9, <1>12, <2>1, <3>1
  <2>2. CASE x # g
    BY <1>5, <1>6, <1>12, <2>2
  <2> QED BY <2>1, <2>2
<1>18. \A x \in Slots(n) : Used(u, x) /\ x # j /\ O(x) <= O(j) => ~(G(x) <= O(j) /\ O(j) <= O(x))
  BY <1>2
<1>19. Gapped(u, j, n, f, k, z)
  <2>1. Used(u, j) /\ ~Used(u, z)
    BY <1>1, <1>5
  <2> QED BY <1>1, <1>4, <1>14, <1>15, <1>16, <1>17, <2>1 DEF Gapped, G, O
<1>20. Mended(u, j, n, z, j)
  BY <1>18 DEF Mended, Jumps, G, O
<1> QED BY <1>19, <1>20 DEF u

\* The step of the walk.
LEMMA WalkedIs ==
    ASSUME Hashes, NEW n \in Sizes, NEW f, NEW k, NEW z, NEW d \in Nat, NEW w, Walking(w, n, f, k, z, d), NEW turn
    PROVE  Walking(Walked(w, turn), n, f, k, z, d + 1)
<1> DEFINE t == w.slots
           g == w.gap
           a == w.at
           j == (a + 1) % n
           e == t[j]
<1>1. /\ n \in Nat /\ n >= 2 /\ w \in Walks /\ Gapped(t, g, n, f, k, z) /\ t \in Table(n)
      /\ g \in Slots(n) /\ z \in Slots(n) /\ ~Used(t, z)
  BY PkMapBounds DEF Sizes, Walking, Gapped
<1>2. Cardinality(DOMAIN t) = n
  BY <1>1, SizeIs DEF Table
<1>3. CASE w.stop
  <2>1. Walked(w, turn) = w
    BY <1>1, <1>3 DEF Walked, Walks
  <2> QED BY <1>1, <1>3, <2>1 DEF Walking
<1>4. CASE ~w.stop
  <2>1. /\ a \in Slots(n) /\ Used(t, a) /\ d <= Off(z, n, a) /\ Off(z, n, g) <= Off(z, n, a)
        /\ Mended(t, g, n, z, a)
    BY <1>4 DEF Walking
  <2>2. j \in Slots(n) /\ Off(z, n, j) = Off(z, n, a) + 1
    BY <1>1, <2>1, OffNext
  <2>2a. j \in Nat /\ Off(z, n, a) \in Nat /\ Off(z, n, g) \in Nat /\ e \in Slot
    <3>1. Off(z, n, a) \in Nat /\ Off(z, n, g) \in Nat
      BY <1>1, <2>1, OffIs
    <3> HIDE DEF j
    <3> QED BY <1>1, <2>2, <3>1 DEF Slots, Table
  <2>3. CASE e.ref = 0
    <3> DEFINE v == [w EXCEPT !.stop = TRUE]
    <3>1. Walked(w, turn) = v
      BY <1>2, <2>3 DEF Walked
    <3>2. v \in Walks /\ v.slots = t /\ v.gap = g /\ v.stop
      BY <1>1 DEF Walks
    <3> HIDE DEF v, j
    <3>3. ~Used(t, j)
      BY <2>3 DEF Used
    <3>4. \A x \in Slots(n) : Used(t, x) /\ x # g => ~Jumps(t, g, n, z, x)
      BY <1>1, <2>1, <2>2, <3>3, WalkStops
    <3> QED BY <1>1, <3>1, <3>2, <3>4 DEF Walking
  <2>4. ASSUME e.ref # 0
        PROVE  /\ Used(t, j) /\ j # z /\ j # g
               /\ Off(z, n, g) < Off(z, n, j) /\ d + 1 <= Off(z, n, j)
               /\ Shifts(pkHome(e.key, n), g, j) <=> Jumps(t, g, n, z, j)
    <3> HIDE DEF j
    <3>1. Used(t, j) /\ Off(z, n, g) < Off(z, n, j) /\ d + 1 <= Off(z, n, j)
      BY <2>1, <2>2, <2>2a, <2>4 DEF Used
    <3>2. j # z /\ j # g
      BY <1>1, <2>2a, <3>1
    <3>3. e.key \in Keys /\ Off(z, n, pkHome(e.key, n)) <= Off(z, n, j)
      BY <1>1, <2>2, <3>1, <3>2 DEF Gapped
    <3>4. pkHome(e.key, n) \in Slots(n)
      BY <3>3, HomeIs DEF Slots
    <3>5. Shifts(pkHome(e.key, n), g, j) <=> Off(z, n, pkHome(e.key, n)) <= Off(z, n, g)
      BY <1>1, <2>2, <3>1, <3>2, <3>3, <3>4, ShiftsIs
    <3>6. Off(z, n, g) <= Off(z, n, j)
      BY <2>2, <2>2a, <3>1
    <3> QED BY <3>1, <3>2, <3>5, <3>6 DEF Jumps
  <2>5. CASE e.ref # 0 /\ Jumps(t, g, n, z, j)
    <3> DEFINE u == With(t, g, e)
               v == [slots |-> u, gap |-> j, at |-> j, stop |-> FALSE]
    <3>1. Walked(w, turn) = v
      BY <1>2, <1>4, <2>4, <2>5 DEF Walked
    <3> HIDE DEF j
    <3>2. Gapped(u, j, n, f, k, z) /\ Mended(u, j, n, z, j)
      BY <1>1, <2>1, <2>2, <2>4, <2>5, GapMoves
    <3>3. u \in UNION {Table(c) : c \in Nat \ {0}} /\ Used(u, j)
      BY <1>1, <3>2 DEF Gapped
    <3> HIDE DEF u
    <3>4. v \in Walks /\ v.slots = u /\ v.gap = j /\ v.at = j /\ v.stop = FALSE
      BY <2>2a, <3>3 DEF Walks
    <3> HIDE DEF v
    <3>5. Off(z, n, j) <= Off(z, n, j)
      BY <2>2, <2>2a
    <3> QED BY <2>2, <2>4, <2>5, <3>1, <3>2, <3>3, <3>4, <3>5 DEF Walking
  <2>6. CASE e.ref # 0 /\ ~Jumps(t, g, n, z, j)
    <3> DEFINE v == [w EXCEPT !.at = j]
    <3>1. Walked(w, turn) = v
      BY <1>2, <1>4, <2>4, <2>6 DEF Walked
    <3> HIDE DEF j
    <3>2. v \in Walks /\ v.slots = t /\ v.gap = g /\ v.at = j /\ v.stop = FALSE
      BY <1>1, <1>4, <2>2a DEF Walks
    <3> HIDE DEF v
    <3>3. Mended(t, g, n, z, j)
      <4> SUFFICES ASSUME NEW x \in Slots(n), Used(t, x), x # g, Off(z, n, x) <= Off(z, n, j) PROVE ~Jumps(t, g, n, z, x)
        BY DEF Mended
      <4>1. CASE x = j
        BY <2>6, <4>1
      <4>2. CASE x # j
        <5>1. Off(z, n, x) \in Nat /\ Off(z, n, x) # Off(z, n, j)
          BY <1>1, <2>2, <4>2, OffIs
        <5>2. Off(z, n, x) <= Off(z, n, a)
          BY <2>2, <2>2a, <5>1
        <5> QED BY <2>1, <5>2 DEF Mended
      <4> QED BY <4>1, <4>2
    <3>4. Off(z, n, g) <= Off(z, n, j)
      BY <2>2, <2>2a, <2>4, <2>6
    <3> QED BY <1>1, <2>2, <2>4, <2>6, <3>1, <3>2, <3>3, <3>4 DEF Walking
  <2> QED BY <2>3, <2>5, <2>6
<1> QED BY <1>3, <1>4

WalkFold == INSTANCE LeftFold WITH op <- Walked, V <- Walks, E <- Nat

\* The walk is a fold of its turns.
LEMMA WalksRun ==
    WalkFold!Closed /\ \A w, l : FoldLeft(Walked, w, l) = WalkFold!Run(w, l)
<1>1. ASSUME NEW w \in Walks, NEW turn \in Nat PROVE Walked(w, turn) \in Walks
  <2> DEFINE j == (w.at + 1) % Cardinality(DOMAIN w.slots)
             e == w.slots[j]
             u == With(w.slots, w.gap, e)
  <2>1. PICK n \in Nat \ {0} : w.slots \in Table(n)
    BY DEF Walks
  <2>2. DOMAIN w.slots = Slots(n) /\ Cardinality(DOMAIN w.slots) = n
    BY <2>1, SizeIs DEF Table
  <2>3. j \in Slots(n) /\ j \in Nat
    BY <2>2 DEF Walks, Slots
  <2> HIDE DEF j
  <2>4. u \in Table(n)
    BY <2>1, <2>3 DEF Table, With
  <2> HIDE DEF u
  <2>5. /\ [w EXCEPT !.stop = TRUE] \in Walks /\ [w EXCEPT !.at = j] \in Walks
        /\ [slots |-> u, gap |-> j, at |-> j, stop |-> FALSE] \in Walks
    BY <2>3, <2>4 DEF Walks
  <2> QED BY <2>5 DEF Walked, j, u
<1>2. WalkFold!Closed
  BY <1>1 DEF WalkFold!Closed
<1>3. \A w, l : FoldLeft(Walked, w, l) = WalkFold!Run(w, l)
  BY DEF WalkFold!Run, FoldLeft, WalkFold!FoldLeft, MapThenFoldSet, WalkFold!MapThenFoldSet, Max, WalkFold!Max
<1> QED BY <1>2, <1>3

\* As many turns as there are other slots end the walk, and the gap can be emptied.
LEMMA ClosedGood ==
    ASSUME Hashes, NEW n \in Sizes, NEW m, NEW f, Good(m.slots, n, f), HasRoom(m.slots, n),
           NEW i \in Slots(n), Used(m.slots, i)
    PROVE  Good(Closed(m, i), n, [f EXCEPT ![m.slots[i].key] = 0])
<1> DEFINE s == m.slots
           k == s[i].key
           from == [slots |-> s, gap |-> i, at |-> i, stop |-> FALSE]
           l == [turn \in 1..(n - 1) |-> turn]
           T(d) == WalkFold!Run(from, SubSeq(l, 1, d))
           end == FoldLeft(Walked, from, l)
<1>1. n \in Nat \ {0} /\ s \in Table(n) /\ f \in Refs /\ k \in Keys
  <2>1. n \in Nat \ {0} /\ s \in Table(n) /\ f \in Refs
    BY PkMapBounds DEF Sizes, Good
  <2> QED BY <2>1 DEF Good, Stores
<1>2. PICK z \in Slots(n) : ~Used(s, z)
  BY DEF HasRoom
<1> DEFINE X == {d \in Nat : d <= n - 1 => Walking(T(d), n, f, k, z, d)}
<1>3. from \in Walks /\ l \in Seq(Nat) /\ Len(l) = n - 1
  BY <1>1 DEF Walks, Slots
<1>4. Walking(from, n, f, k, z, 0)
  <2>1. Gapped(s, i, n, f, k, z) /\ Mended(s, i, n, z, i)
    BY <1>2, GapOpens
  <2>2. Off(z, n, i) \in Nat
    BY <1>1, <1>2, OffIs
  <2>3. from.slots = s /\ from.gap = i /\ from.at = i /\ from.stop = FALSE
    OBVIOUS
  <2> HIDE DEF from
  <2> QED BY <1>3, <2>1, <2>2, <2>3 DEF Walking
<1>5. 0 \in X
  <2>1. SubSeq(l, 1, 0) = <<>>
    BY <1>3
  <2> HIDE DEF from
  <2>2. T(0) = from
    BY <1>3, <2>1, WalksRun, WalkFold!RunEmpty
  <2> QED BY <1>4, <2>2
<1>6. \A d \in Nat : d \in X => d + 1 \in X
  <2>0. \A d \in Nat : d + 1 \in Nat
    OBVIOUS
  <2> SUFFICES ASSUME NEW d \in Nat, d \in X, d + 1 <= n - 1 PROVE Walking(T(d + 1), n, f, k, z, d + 1)
    BY <2>0, Zenon
  <2>1. d + 1 \in 1..Len(l) /\ (d + 1) - 1 = d /\ d <= n - 1
    BY <1>1, <1>3
  <2>2. Walking(T(d), n, f, k, z, d)
    BY <2>1
  <2>3. T(d + 1) = Walked(T(d), l[d + 1])
    <3> HIDE DEF from, l
    <3>1. T(d + 1) = Walked(T((d + 1) - 1), l[d + 1])
      BY <1>3, <2>1, WalksRun, WalkFold!RunPrefix, Zenon
    <3> QED BY <2>1, <3>1
  <2> HIDE DEF T
  <2> QED BY <2>2, <2>3, WalkedIs
<1>7. Walking(end, n, f, k, z, n - 1)
  <2>1. SubSeq(l, 1, n - 1) = l
    <3> HIDE DEF l
    <3> QED BY <1>3
  <2>2. n - 1 \in Nat /\ n - 1 <= n - 1
    BY <1>1
  <2>3. n - 1 \in X
    <3> HIDE DEF X
    <3> QED BY <1>5, <1>6, <2>2, NatSetInduction
  <2>4. Walking(T(n - 1), n, f, k, z, n - 1)
    BY <2>2, <2>3
  <2> QED BY <2>1, <2>4, WalksRun
<1>8. Closed(m, i) = With(end.slots, end.gap, Empty)
  <2>1. Size(m) = n
    BY <1>1, HoldsSize
  <2> QED BY <2>1 DEF Closed
<1> HIDE DEF end, k
<1>9. end.stop
  <2> SUFFICES ASSUME ~end.stop PROVE FALSE
    OBVIOUS
  <2>1. end.at \in Slots(n) /\ Used(end.slots, end.at) /\ n - 1 <= Off(z, n, end.at) /\ ~Used(end.slots, z)
    BY <1>7 DEF Walking, Gapped
  <2>2. end.at # z
    BY <2>1
  <2>3. Off(z, n, end.at) < n - 1 /\ Off(z, n, end.at) \in 0..(n - 1)
    BY <1>1, <1>2, <2>1, <2>2, OffIs
  <2> QED BY <1>1, <2>1, <2>3
<1>10. Good(With(end.slots, end.gap, Empty), n, [f EXCEPT ![k] = 0])
  BY <1>1, <1>7, <1>9, GapCloses DEF Walking
<1> QED BY <1>8, <1>10 DEF k

\* A deletion removes the key it found.
LEMMA DeleteHolds ==
    ASSUME Hashes, NEW m, NEW n, NEW f, Holds(m, n, f), NEW k \in Keys, f[k] # 0
    PROVE  Holds(delAt(m, Probe(m.slots, k)), n, [f EXCEPT ![k] = 0])
<1> DEFINE s == m.slots
           i == Probe(s, k)
           e == [f EXCEPT ![k] = 0]
           c == Closed(m, i)
<1>1. n \in Nat /\ s \in Table(n) /\ f \in Refs /\ m.used \in Nat /\ Good(s, n, f)
  BY HoldsNumbers DEF Holds
<1>2. n # 0
  <2> SUFFICES ASSUME n = 0 PROVE FALSE
    OBVIOUS
  <2>1. Slots(n) = {}
    BY DEF Slots
  <2> QED BY <1>1, <2>1 DEF Good, Stores
<1>3. n \in Sizes /\ HasRoom(s, n)
  BY <1>2, HoldsNumbers
<1>4. Ends(s, n, k, i)
  BY <1>1, <1>3, ProbeEnds
<1>5. s[i].ref = f[k]
  BY <1>1, <1>3, <1>4, ProbeFinds
<1>6. i \in Slots(n) /\ Used(s, i) /\ s[i].key = k
  BY <1>4, <1>5 DEF Ends, Used
<1> HIDE DEF i
<1>7. Good(c, n, e)
  BY <1>1, <1>3, <1>6, ClosedGood
<1>8. Cardinality(Stored(e)) = Cardinality(Stored(f)) - 1
  BY <1>1, StoredLess
<1>9. delAt(m, i) = [slots |-> c, used |-> m.used - 1]
  BY DEF delAt
<1>10. c \in Tables /\ Cardinality(Stored(e)) \in Nat
  BY <1>1, <1>7, StoredCount DEF Good, Tables
<1> HIDE DEF c, e
<1>11. m.used = Cardinality(Stored(f)) /\ 4 * m.used <= 3 * n
  BY DEF Holds
<1>12. m.used - 1 = Cardinality(Stored(e)) /\ m.used - 1 \in Nat /\ 4 * (m.used - 1) <= 3 * n
  BY <1>1, <1>8, <1>10, <1>11
<1> DEFINE v == delAt(m, i)
<1>13. v \in Maps /\ v.slots = c /\ v.used = m.used - 1
  BY <1>9, <1>10, <1>12 DEF Maps
<1> HIDE DEF v
<1> QED BY <1>3, <1>7, <1>12, <1>13 DEF Holds, v, i, e

----------------------------------------------------------------------------
(* New maps, and compaction.                                               *)

NoRows == [k \in Keys |-> 0]

\* A map made for a hint is empty and has room for that many rows.
LEMMA InitHolds ==
    ASSUME NEW hint \in Nat, NEW n \in Sizes, 4 * hint <= 3 * n
    PROVE  \E c \in Sizes : Holds(init(hint), c, NoRows) /\ 4 * hint <= 3 * c
<1> DEFINE T == {s \in Sizes : 4 * hint <= 3 * s}
           c == Min(T)
<1>1. T \in SUBSET Nat /\ T # {}
  BY PkMapBounds DEF Sizes
<1>2. c \in T
  <2> HIDE DEF T
  <2> QED BY <1>1, MinPicks
<1>3. c \in Sizes /\ 4 * hint <= 3 * c /\ c \in Nat
  BY <1>1, <1>2
<1>4. init(hint) = [slots |-> Fresh(c), used |-> 0]
  BY DEF init
<1> HIDE DEF c
<1>5. Good(Fresh(c), c, NoRows)
  BY <1>3, FreshGood DEF NoRows
<1>6. Fresh(c) \in Tables
  BY <1>3, <1>5 DEF Good, Tables
<1>7. Cardinality(Stored(NoRows)) = 0
  <2>1. Stored(NoRows) = {}
    BY DEF Stored, NoRows
  <2> QED BY <2>1, FS_EmptySet
<1> DEFINE v == init(hint)
<1>8. v \in Maps /\ v.slots = Fresh(c) /\ v.used = 0
  BY <1>4, <1>6 DEF Maps
<1> HIDE DEF v
<1>9. Holds(v, c, NoRows)
  BY <1>3, <1>5, <1>7, <1>8 DEF Holds
<1> QED BY <1>3, <1>9 DEF v

EnterFold == INSTANCE LeftFold WITH op <- Entered, V <- Maps, E <- Slot

\* The copy of a compaction is a fold of Entered.
LEMMA EntersRun ==
    EnterFold!Closed /\ \A m, l : FoldLeft(Entered, m, l) = EnterFold!Run(m, l)
<1>1. ASSUME NEW m \in Maps PROVE grow(m) \in Maps
  <2> DEFINE c == IF Size(m) * 2 < MinSlots THEN MinSlots ELSE Size(m) * 2
             l == [i \in 1..Size(m) |-> m.slots[i - 1]]
             t == FoldLeft(Moved, Fresh(c), l)
  <2>1. PICK n \in Nat : m.slots \in Table(n)
    BY DEF Maps, Tables
  <2>2. Size(m) = n
    BY <2>1, HoldsSize
  <2>3. c \in Nat
    BY <2>2, PkMapBounds
  <2>4. l \in Seq(Slot)
    BY <2>1, <2>2 DEF Table, Slots
  <2>5. Fresh(c) \in Tables
    BY <2>3, FreshGood DEF Tables, Good
  <2> HIDE DEF l, c
  <2>6. t \in Tables
    BY <2>4, <2>5, MovesRun, MoveFold!RunType
  <2>7. grow(m) = [m EXCEPT !.slots = t]
    BY DEF grow, l, c
  <2> HIDE DEF t
  <2> QED BY <2>6, <2>7 DEF Maps
<1>2. ASSUME NEW m \in Maps, NEW e \in Slot PROVE Entered(m, e) \in Maps
  <2> DEFINE g == Reserved(m)
             i == Probe(g.slots, e.key)
             t == With(g.slots, i, [key |-> e.key, ref |-> e.ref])
             u == IF g.slots[i].ref = 0 THEN g.used + 1 ELSE g.used
  <2>1. g \in Maps
    BY <1>1 DEF Reserved
  <2>2. Entered(m, e) = [slots |-> t, used |-> u]
    BY DEF Entered, put
  <2> HIDE DEF g, i
  <2>3. PICK n \in Nat : g.slots \in Table(n)
    BY <2>1 DEF Maps, Tables
  <2>4. t \in Table(n)
    BY <2>3 DEF Table, With, Slot
  <2>5. u \in Nat /\ t \in Tables
    BY <2>1, <2>4 DEF Maps, Tables
  <2> HIDE DEF t, u
  <2> QED BY <2>2, <2>5 DEF Maps
<1>3. EnterFold!Closed
  BY <1>2 DEF EnterFold!Closed
<1>4. \A m, l : FoldLeft(Entered, m, l) = EnterFold!Run(m, l)
  BY DEF EnterFold!Run, FoldLeft, EnterFold!FoldLeft, MapThenFoldSet, EnterFold!MapThenFoldSet, Max, EnterFold!Max
<1> QED BY <1>3, <1>4

\* The keys of S in some order.
Ordering(present, S) ==
    /\ present \in [1..Cardinality(S) -> S]
    /\ \A i, j \in 1..Cardinality(S) : present[i] = present[j] => i = j
    /\ \A k \in S : \E i \in 1..Cardinality(S) : present[i] = k

\* SetToSeqs gives the orders of a finite set.
LEMMA SeqsAreOrderings ==
    ASSUME NEW S, IsFiniteSet(S), NEW present \in SetToSeqs(S)
    PROVE  Ordering(present, S) /\ Len(present) = Cardinality(S) /\ DOMAIN present = 1..Cardinality(S)
<1> DEFINE n == Cardinality(S)
<1>1. n \in Nat /\ IsFiniteSet(1..n) /\ Cardinality(1..n) = n
  <2>1. n \in Nat
    BY FS_CardinalityType
  <2> HIDE DEF n
  <2> QED BY <2>1, FS_Interval
<1>2. present \in [1..n -> S] /\ \A i, j \in 1..n : present[i] = present[j] => i = j
  BY DEF SetToSeqs
<1>3. present \in Injection(1..n, S)
  <2> HIDE DEF n
  <2> QED BY <1>2 DEF Injection, IsInjective
<1>4. present \in Surjection(1..n, S)
  BY <1>1, <1>3, FS_Injection
<1>5. \A k \in S : \E i \in 1..n : present[i] = k
  <2> HIDE DEF n
  <2> QED BY <1>4 DEF Surjection
<1>6. Len(present) = n /\ DOMAIN present = 1..n
  <2> HIDE DEF n
  <2> QED BY <1>1, <1>2
<1> QED BY <1>2, <1>5, <1>6 DEF Ordering

\* The rows with a number of at most i.
UpTo(f, i) == [k \in Keys |-> IF f[k] <= i THEN f[k] ELSE 0]

\* The next row has the next number.
LEMMA UpToNext ==
    ASSUME NEW f \in Refs, NEW i \in Nat, NEW k \in Keys, f[k] = i + 1, \A q \in Keys : f[q] = i + 1 => q = k
    PROVE  /\ UpTo(f, i) \in Refs /\ UpTo(f, i)[k] = 0
           /\ UpTo(f, i + 1) = [UpTo(f, i) EXCEPT ![k] = i + 1]
<1>1. UpTo(f, i) \in Refs /\ UpTo(f, i + 1) \in Refs
  BY DEF UpTo, Refs
<1>2. UpTo(f, i)[k] = 0 /\ UpTo(f, i + 1)[k] = i + 1
  BY DEF UpTo, Refs
<1>3. \A q \in Keys : q # k => UpTo(f, i + 1)[q] = UpTo(f, i)[q]
  BY DEF UpTo, Refs
<1> DEFINE a == UpTo(f, i)
           b == UpTo(f, i + 1)
<1> HIDE DEF a, b
<1>4. b = [a EXCEPT ![k] = i + 1]
  BY <1>1, <1>2, <1>3 DEF Refs, a, b
<1> QED BY <1>1, <1>2, <1>4 DEF a, b

\* The rows of g are numbered in the order of present, and l lists them.
Numbered(g, present, N, l) ==
    /\ g \in Refs /\ l \in Seq(Slot) /\ Len(l) = N
    /\ \A i \in 1..N : present[i] \in Keys /\ g[present[i]] = i /\ l[i].key = present[i] /\ l[i].ref = i
    /\ \A k \in Keys : g[k] # 0 => g[k] \in 1..N /\ present[g[k]] = k

\* A compaction numbers the rows by their place in the order.
LEMMA CompactNumbers ==
    ASSUME NEW f \in Refs, NEW present \in SetToSeqs(Stored(f)), NEW N, N = Cardinality(Stored(f))
    PROVE  Numbered([k \in Keys |-> IF f[k] = 0 THEN 0 ELSE CHOOSE i \in DOMAIN present : present[i] = k],
                    present, N, [i \in 1..Len(present) |-> [key |-> present[i], ref |-> i]])
<1> DEFINE g == [k \in Keys |-> IF f[k] = 0 THEN 0 ELSE CHOOSE i \in DOMAIN present : present[i] = k]
           l == [i \in 1..Len(present) |-> [key |-> present[i], ref |-> i]]
<1>1. N \in Nat /\ IsFiniteSet(Stored(f))
  BY StoredCount
<1>2. Ordering(present, Stored(f)) /\ Len(present) = N /\ DOMAIN present = 1..N
  BY <1>1, SeqsAreOrderings
<1>5. /\ g \in Refs
      /\ \A i \in 1..N : present[i] \in Keys /\ g[present[i]] = i
      /\ \A k \in Keys : g[k] # 0 => g[k] \in 1..N /\ present[g[k]] = k
  <2>1. \A k \in Keys : f[k] # 0 => \E i \in 1..N : present[i] = k
    BY <1>1, <1>2 DEF Ordering, Stored
  <2>2. \A k \in Keys : f[k] # 0 => (CHOOSE i \in 1..N : present[i] = k) \in 1..N /\ present[CHOOSE i \in 1..N : present[i] = k] = k
    BY <2>1
  <2>3. \A k \in Keys : g[k] = IF f[k] = 0 THEN 0 ELSE CHOOSE i \in 1..N : present[i] = k
    BY <1>2
  <2>4. \A k \in Keys : (f[k] = 0 => g[k] = 0) /\ (f[k] # 0 => g[k] \in 1..N /\ present[g[k]] = k)
    BY <2>2, <2>3
  <2>5. g \in Refs
    <3>1. \A k \in Keys : g[k] \in Nat
      <4> HIDE DEF g
      <4> QED BY <1>1, <2>4
    <3> QED BY <3>1 DEF Refs
  <2>6. \A i \in 1..N : present[i] \in Keys /\ f[present[i]] # 0
    BY <1>1, <1>2 DEF Ordering, Stored
  <2>7. \A i \in 1..N : g[present[i]] = i
    BY <1>1, <1>2, <2>4, <2>6 DEF Ordering
  <2> QED BY <2>4, <2>5, <2>6, <2>7
<1>6. /\ l \in Seq(Slot) /\ Len(l) = N
      /\ \A i \in 1..N : l[i].key = present[i] /\ l[i].ref = i
  <2>1. \A i \in 1..N : [key |-> present[i], ref |-> i] \in Slot
    BY <1>5 DEF Slot
  <2>2. l = [i \in 1..N |-> [key |-> present[i], ref |-> i]]
    BY <1>2
  <2> QED BY <1>1, <2>1, <2>2
<1> HIDE DEF g, l
<1>7. Numbered(g, present, N, l)
  BY <1>5, <1>6 DEF Numbered
<1> QED BY <1>7 DEF g, l

\* A compaction copies every row under its number, and never grows.
LEMMA CompactHolds ==
    ASSUME Hashes, NEW m, NEW n, NEW f, Holds(m, n, f), NEW g, NEW present, NEW l, Numbered(g, present, m.used, l)
    PROVE  \E c \in Sizes : Holds(FoldLeft(Entered, init(m.used), l), c, g)
<1> DEFINE N == m.used
           T(i) == EnterFold!Run(init(N), SubSeq(l, 1, i))
<1>1. n \in Nat /\ N \in Nat
  BY HoldsNumbers
<1>2. Numbered(g, present, N, l)
  OBVIOUS
<1> HIDE DEF N
<1>3. PICK c \in Sizes : Holds(init(N), c, NoRows) /\ 4 * N <= 3 * c
  <2>1. \E s \in Sizes : 4 * N <= 3 * s
    <3>1. CASE n = 0
      <4>1. N = 0
        BY <1>1, <3>1 DEF Holds, N
      <4>2. MinSlots \in Sizes /\ MinSlots \in Nat
        BY PkMapBounds
      <4> QED BY <4>1, <4>2
    <3>2. CASE n # 0
      BY <3>2 DEF Holds, N
    <3> QED BY <3>1, <3>2
  <2>2. PICK s \in Sizes : 4 * N <= 3 * s
    BY <2>1
  <2> QED BY <1>1, <2>2, InitHolds
<1>4. c \in Nat
  BY PkMapBounds DEF Sizes
<1>5. /\ g \in Refs
      /\ \A i \in 1..N : present[i] \in Keys /\ g[present[i]] = i
      /\ \A k \in Keys : g[k] # 0 => g[k] \in 1..N /\ present[g[k]] = k
  BY <1>2 DEF Numbered
<1>6. l \in Seq(Slot) /\ Len(l) = N /\ \A i \in 1..N : l[i].key = present[i] /\ l[i].ref = i
  BY <1>2 DEF Numbered
<1> DEFINE Copied(i) == Holds(T(i), c, UpTo(g, i)) /\ T(i).used = i
           X == {i \in Nat : i <= N => Copied(i)}
<1>7. 0 \in X
  <2>1. SubSeq(l, 1, 0) = <<>>
    BY <1>6
  <2>2. init(N) \in Maps
    BY <1>3 DEF Holds
  <2>3. T(0) = init(N)
    BY <2>1, <2>2, EntersRun, EnterFold!RunEmpty
  <2>4. UpTo(g, 0) = NoRows
    <3>1. \A k \in Keys : UpTo(g, 0)[k] = 0
      BY <1>5 DEF UpTo, Refs
    <3> QED BY <3>1 DEF UpTo, NoRows
  <2>5. init(N).used = 0
    BY DEF init
  <2> QED BY <1>3, <2>3, <2>4, <2>5
<1>8. \A i \in Nat : i \in X => i + 1 \in X
  <2>0. \A i \in Nat : i + 1 \in Nat
    OBVIOUS
  <2> SUFFICES ASSUME NEW i \in Nat, i \in X, i + 1 <= N PROVE Copied(i + 1)
    BY <2>0, Zenon
  <2> DEFINE j == i + 1
             u == T(i)
             k == present[j]
  <2>1. j \in 1..N /\ j - 1 = i /\ i <= N /\ j \in Nat \ {0}
    BY <1>1
  <2>2. Holds(u, c, UpTo(g, i)) /\ u.used = i
    BY <2>1
  <2>3. init(N) \in Maps
    BY <1>3 DEF Holds
  <2>4. T(j) = put(u, k, j)
    <3>1. T(j) = Entered(T(j - 1), l[j])
      <4> HIDE DEF j
      <4> QED BY <1>6, <2>1, <2>3, EntersRun, EnterFold!RunPrefix, Zenon
    <3>2. T(j) = Entered(u, l[j])
      BY <2>1, <3>1
    <3>3. l[j].key = k /\ l[j].ref = j
      BY <1>6, <2>1
    <3> HIDE DEF T, u, j, k
    <3> QED BY <3>2, <3>3 DEF Entered
  <2> HIDE DEF T, u
  <2>5. Reserved(u) = u
    <3>1. Size(u) = c
      BY <2>2, HoldsNumbers
    <3> QED BY <1>1, <1>3, <1>4, <2>1, <2>2, <3>1 DEF Reserved
  <2>6. k \in Keys /\ g[k] = i + 1 /\ \A q \in Keys : g[q] = i + 1 => q = k
    BY <1>5, <2>1
  <2>7. UpTo(g, i) \in Refs /\ UpTo(g, i)[k] = 0 /\ UpTo(g, j) = [UpTo(g, i) EXCEPT ![k] = j]
    <3> HIDE DEF k
    <3> QED BY <1>5, <2>6, UpToNext
  <2> HIDE DEF j, k
  <2>8. Holds(T(j), c, UpTo(g, j))
    <3>1. 4 * (u.used + 1) <= 3 * c
      BY <1>1, <1>3, <1>4, <2>1, <2>2
    <3>2. Holds(put(u, k, j), c, [UpTo(g, i) EXCEPT ![k] = j])
      BY <2>1, <2>2, <2>5, <2>6, <3>1, PutFills
    <3> QED BY <2>4, <2>7, <3>2
  <2>9. T(j).used = j
    <3>1. Cardinality(Stored([UpTo(g, i) EXCEPT ![k] = j])) = Cardinality(Stored(UpTo(g, i))) + 1
      BY <2>1, <2>6, <2>7, StoredMore
    <3>2. T(j).used = Cardinality(Stored(UpTo(g, j))) /\ u.used = Cardinality(Stored(UpTo(g, i)))
      BY <2>2, <2>8 DEF Holds
    <3> QED BY <2>1, <2>2, <2>7, <3>1, <3>2
  <2> QED BY <2>8, <2>9 DEF j
<1>9. N \in X
  <2> HIDE DEF X
  <2> QED BY <1>1, <1>7, <1>8, NatSetInduction
<1>10. Holds(T(N), c, UpTo(g, N))
  BY <1>1, <1>9
<1>11. T(N) = FoldLeft(Entered, init(N), l)
  <2>1. SubSeq(l, 1, N) = l
    BY <1>1, <1>6
  <2> QED BY <2>1, EntersRun
<1>12. UpTo(g, N) = g
  <2>1. \A k \in Keys : UpTo(g, N)[k] = g[k]
    BY <1>1, <1>5 DEF UpTo
  <2>2. UpTo(g, N) \in Refs
    BY <1>5 DEF UpTo, Refs
  <2> QED BY <1>5, <2>1, <2>2 DEF Refs
<1> QED BY <1>10, <1>11, <1>12 DEF N

----------------------------------------------------------------------------
(* The invariant: the map holds the rows last stored.                      *)

MapSound == Hashes /\ Holds(map, Size(map), rowOf)

\* Every call starts from a map of some size.
LEMMA SoundIs ==
    ASSUME NEW m, NEW n, NEW f, Holds(m, n, f)
    PROVE  Holds(m, Size(m), f)
BY HoldsNumbers

\* The zero map, and one made by newTable, hold nothing.
LEMMA InitSound == Init => MapSound
<1> SUFFICES ASSUME Init PROVE MapSound
  OBVIOUS
<1>1. Hashes /\ rowOf = NoRows
  BY DEF Init, Hashes, NoRows
<1>2. CASE map = Zero
  <2>1. Zero.slots = Fresh(0) /\ Zero.used = 0
    BY DEF Zero, Fresh
  <2>2. Good(Fresh(0), 0, NoRows)
    BY FreshGood DEF NoRows
  <2>3. Cardinality(Stored(NoRows)) = 0
    <3>1. Stored(NoRows) = {}
      BY DEF Stored, NoRows
    <3> QED BY <3>1, FS_EmptySet
  <2>4. Zero \in Maps
    BY <2>1, <2>2 DEF Zero, Maps, Good, Tables
  <2>5. Holds(map, 0, rowOf)
    BY <1>1, <1>2, <2>1, <2>2, <2>3, <2>4 DEF Holds
  <2> QED BY <1>1, <2>5, SoundIs DEF MapSound
<1>3. CASE map = init(0)
  <2>1. MinSlots \in Sizes /\ 0 \in Nat /\ 4 * 0 <= 3 * MinSlots
    BY PkMapBounds
  <2>2. PICK c \in Sizes : Holds(init(0), c, NoRows)
    BY <2>1, InitHolds
  <2> QED BY <1>1, <1>3, <2>2, SoundIs DEF MapSound
<1> QED BY <1>2, <1>3 DEF Init

\* Each call keeps the invariant.
LEMMA NextSound == MapSound /\ [Next]_vars => MapSound'
<1> SUFFICES ASSUME MapSound, [Next]_vars PROVE MapSound'
  OBVIOUS
<1> DEFINE n == Size(map)
<1>1. Hashes /\ Holds(map, n, rowOf) /\ rowOf \in Refs
  <2>1. Hashes /\ Holds(map, n, rowOf)
    BY DEF MapSound
  <2> QED BY <2>1, HoldsNumbers
<1>2. ASSUME UNCHANGED hash, NEW c, Holds(map', c, rowOf') PROVE MapSound'
  <2>1. Hashes'
    BY <1>1, <1>2 DEF Hashes
  <2>2. ASSUME NEW u, NEW g, u = map', g = rowOf' PROVE Holds(map', Size(map'), rowOf')
    BY <1>2, SoundIs
  <2>3. Holds(map', Size(map'), rowOf')
    BY <2>2
  <2>4. Holds(map, Size(map), rowOf)'
    BY <1>2, <2>3 DEF Holds, Size, Maps, Tables, Table, Slots, Good, Stores, Chained, Refs, Stored, Used, pkHome
  <2> QED BY <2>1, <2>4 DEF MapSound
<1>3. ASSUME NEW k \in Keys, NEW r \in Rows, Insert(k, r) PROVE MapSound'
  <2>1. Size(Reserved(map)) <= MaxSlots /\ UNCHANGED hash
    BY <1>3 DEF Insert
  <2>2. PICK c \in Sizes : Holds(Reserved(map), c, rowOf) /\ 4 * (Reserved(map).used + 1) <= 3 * c
    BY <1>1, <2>1, ReservedHolds
  <2>3. CASE map' = put(map, k, r) /\ rowOf' = [rowOf EXCEPT ![k] = r]
    <3>1. r \in Nat \ {0}
      BY RowsFromOne
    <3>2. Holds(put(map, k, r), c, [rowOf EXCEPT ![k] = r])
      BY <1>1, <2>2, <3>1, PutFills
    <3> QED BY <1>2, <2>1, <2>3, <3>2
  <2>4. CASE map' = Reserved(map) /\ UNCHANGED rowOf
    BY <1>2, <2>1, <2>2, <2>4
  <2> QED BY <1>3, <2>3, <2>4 DEF Insert
<1>4. ASSUME NEW k \in Keys, NEW r \in Rows, Put(k, r) PROVE MapSound'
  <2>1. /\ Size(Reserved(map)) <= MaxSlots /\ UNCHANGED hash
        /\ map' = put(map, k, r) /\ rowOf' = [rowOf EXCEPT ![k] = r]
    BY <1>4 DEF Put
  <2>2. PICK c \in Sizes : Holds(Reserved(map), c, rowOf) /\ 4 * (Reserved(map).used + 1) <= 3 * c
    BY <1>1, <2>1, ReservedHolds
  <2>3. r \in Nat \ {0}
    BY RowsFromOne
  <2>4. Holds(put(map, k, r), c, [rowOf EXCEPT ![k] = r])
    BY <1>1, <2>2, <2>3, PutFills
  <2> QED BY <1>2, <2>1, <2>4
<1>5. ASSUME NEW k \in Keys, Delete(k) PROVE MapSound'
  <2>1. /\ get(map, k) # 0 /\ UNCHANGED hash
        /\ map' = delAt(map, Probe(map.slots, k)) /\ rowOf' = [rowOf EXCEPT ![k] = 0]
    BY <1>5 DEF Delete
  <2>2. rowOf[k] # 0
    BY <1>1, <2>1, GetIs
  <2>3. Holds(delAt(map, Probe(map.slots, k)), n, [rowOf EXCEPT ![k] = 0])
    BY <1>1, <2>2, DeleteHolds
  <2> QED BY <1>2, <2>1, <2>3
<1>6. ASSUME Compact PROVE MapSound'
  <2>1. {k \in Keys : rowOf[k] # 0} = Stored(rowOf)
    BY DEF Stored
  <2>2. PICK present \in SetToSeqs({k \in Keys : rowOf[k] # 0}) :
          /\ map' = FoldLeft(Entered, init(map.used), [i \in 1..Len(present) |-> [key |-> present[i], ref |-> i]])
          /\ rowOf' = [k \in Keys |-> IF rowOf[k] = 0 THEN 0 ELSE CHOOSE i \in DOMAIN present : present[i] = k]
          /\ UNCHANGED hash
    BY <1>6 DEF Compact
  <2> DEFINE l == [i \in 1..Len(present) |-> [key |-> present[i], ref |-> i]]
             g == [k \in Keys |-> IF rowOf[k] = 0 THEN 0 ELSE CHOOSE i \in DOMAIN present : present[i] = k]
  <2>3. map.used = Cardinality(Stored(rowOf))
    BY <1>1 DEF Holds
  <2>4. Numbered(g, present, map.used, l)
    BY <1>1, <2>1, <2>3, CompactNumbers
  <2>5. map' = FoldLeft(Entered, init(map.used), l) /\ rowOf' = g
    BY <2>2
  <2> HIDE DEF l, g
  <2>6. PICK c \in Sizes : Holds(FoldLeft(Entered, init(map.used), l), c, g)
    BY <1>1, <2>4, CompactHolds
  <2> QED BY <1>2, <2>2, <2>5, <2>6
<1>7. ASSUME UNCHANGED vars PROVE MapSound'
  BY <1>1, <1>2, <1>7 DEF vars
<1> QED BY <1>3, <1>4, <1>5, <1>6, <1>7 DEF Next

(* The map holds exactly the rows last stored, each key once and on an      *)
(* unbroken chain from its home slot, with the count of entries within the *)
(* load: the contract of pkMap between any two calls of the store.         *)
THEOREM MapKeepsItsRows == Spec => []MapSound
<1>1. Init => MapSound
  BY InitSound
<1>2. MapSound /\ [Next]_vars => MapSound'
  BY NextSound
<1> QED BY <1>1, <1>2, PTL DEF Spec

(* pkMap.get finds every stored key under its last row number and no other *)
(* key, whatever was inserted, rejected, overwritten, deleted, grown or    *)
(* compacted before, for every hash.                                       *)
THEOREM LookupFindsTheRows == Spec => []LookupIsRight
<1>1. MapSound => LookupIsRight
  <2> SUFFICES ASSUME MapSound, NEW k \in Keys PROVE get(map, k) = rowOf[k]
    BY DEF LookupIsRight
  <2> QED BY GetIs DEF MapSound
<1> QED BY <1>1, MapKeepsItsRows, PTL

\* The distance along the table, back to the home slot.
LEMMA WrapsBack ==
    ASSUME NEW n \in Nat \ {0}, NEW h \in 0..(n - 1), NEW j \in 0..(n - 1)
    PROVE  (j - h + n) % n = IF h <= j THEN j - h ELSE j - h + n
OBVIOUS

\* NoHoles counts along the chain what Chained says of the slots on it.
LEMMA ChainedIsNoHoles == MapSound => NoHoles
<1> SUFFICES ASSUME MapSound PROVE NoHoles
  OBVIOUS
<1> DEFINE n == Size(map)
           s == map.slots
<1>1. /\ Hashes /\ n \in Nat /\ DOMAIN s = Slots(n) /\ (n # 0 => n \in Sizes)
      /\ Good(s, n, rowOf)
  <2>1. Hashes /\ Holds(map, n, rowOf)
    BY DEF MapSound
  <2>2. n \in Nat /\ s \in Table(n) /\ (n # 0 => n \in Sizes)
    BY <2>1, HoldsNumbers
  <2> QED BY <2>1, <2>2, HoldsSize DEF Holds
<1> SUFFICES ASSUME NEW j \in Slots(n), s[j].ref # 0,
                    NEW d \in 0..((j - pkHome(s[j].key, n) + n) % n)
             PROVE  s[(pkHome(s[j].key, n) + d) % n].ref # 0
  BY <1>1 DEF NoHoles
<1> DEFINE h == pkHome(s[j].key, n)
           x == (h + d) % n
<1>2. n \in Nat \ {0} /\ j \in 0..(n - 1)
  BY <1>1 DEF Slots
<1>3. h \in 0..(n - 1) /\ \A y \in Slots(n) : InArc(h, y, j) => Used(s, y)
  <2>1. s[j].key \in Keys
    BY <1>1 DEF Good, Stores, Used
  <2>2. h \in 0..(n - 1)
    BY <1>1, <1>2, <2>1, HomeIs
  <2> QED BY <1>1, <2>2 DEF Good, Chained, Used
<1>4. d \in 0..(IF h <= j THEN j - h ELSE j - h + n)
  <2> HIDE DEF h, n
  <2>1. (j - h + n) % n = IF h <= j THEN j - h ELSE j - h + n
    BY <1>2, <1>3, WrapsBack
  <2>2. d \in 0..((j - h + n) % n)
    BY DEF h, n
  <2> QED BY <2>1, <2>2
<1> HIDE DEF h, n, s
<1>5. d \in 0..(n - 1)
  BY <1>2, <1>3, <1>4
<1>6. x = IF h + d < n THEN h + d ELSE h + d - n
  BY <1>2, <1>3, <1>5, WrapsOnce
<1>7. x \in Slots(n) /\ InArc(h, x, j)
  BY <1>2, <1>3, <1>4, <1>5, <1>6 DEF Slots, InArc
<1>8. s[x].ref # 0
  BY <1>3, <1>7 DEF Used
<1> QED BY <1>8 DEF h, n, s

----------------------------------------------------------------------------
(* Runs of taken slots, and how a growth shortens them.                    *)

\* The greatest of a bounded set of numbers.
LEMMA MaxIs ==
    ASSUME NEW n \in Nat, NEW T \in SUBSET (0..n), T # {}
    PROVE  Max(T) \in T /\ \A y \in T : y <= Max(T)
<1> DEFINE R == {m \in Nat : n - m \in T}
<1>1. R # {} /\ R \subseteq Nat
  <2>1. PICK y \in T : TRUE
    OBVIOUS
  <2>2. y \in 0..n /\ n - (n - y) = y /\ n - y \in Nat
    OBVIOUS
  <2>3. n - y \in R
    BY <2>1, <2>2
  <2> QED BY <2>3
<1>2. PICK m \in R : \A k \in R : m <= k
  BY <1>1, NatMin
<1>3. \A y \in T : n - m >= y
  <2> SUFFICES ASSUME NEW y \in T PROVE n - m >= y
    OBVIOUS
  <2>1. y \in 0..n /\ n - (n - y) = y /\ n - y \in Nat
    OBVIOUS
  <2>2. n - y \in R
    BY <2>1
  <2> QED BY <1>2, <2>1, <2>2
<1>4. n - m \in T
  BY <1>2
<1>5. \E x \in T : \A y \in T : x >= y
  BY <1>3, <1>4
<1>6. Max(T) \in T /\ \A y \in T : Max(T) >= y
  BY <1>5 DEF Max
<1>7. T \subseteq Int
  OBVIOUS
<1> QED BY <1>6, <1>7

\* A home slot of the doubled table is one of the two its old home became.
LEMMA HomesHalve ==
    ASSUME Hashes, NEW n \in Sizes, 2 * n \in Sizes, NEW k \in Keys
    PROVE  pkHome(k, n) = pkHome(k, 2 * n) \div 2
<1> DEFINE c == HashRange \div (2 * n)
<1>1. n \in Nat \ {0} /\ HashRange \in Nat /\ 2 * n \in Nat \ {0} /\ HashRange % (2 * n) = 0 /\ 2 * n <= HashRange
  BY PkMapBounds DEF Sizes
<1>2. c \in Nat /\ HashRange = (2 * n) * c
  <2> DEFINE d == 2 * n
  <2>1. d \in Nat \ {0} /\ HashRange % d = 0
    BY <1>1
  <2> HIDE DEF d
  <2> DEFINE q == HashRange \div d
  <2>2. q \in Nat /\ HashRange = d * q + (HashRange % d)
    BY <1>1, <2>1, DivisionIs
  <2> HIDE DEF q
  <2>3. q \in Nat /\ HashRange = d * q
    <3>1. d * q \in Nat
      BY <2>1, <2>2
    <3> QED BY <2>1, <2>2, <3>1
  <2> QED BY <2>3 DEF d, q
<1>3. c # 0
  BY <1>1, <1>2
<1> HIDE DEF c
<1>4. HashRange = n * (c * 2) + 0 /\ c * 2 \in Nat /\ 0 \in 0..n - 1
  BY <1>1, <1>2
<1>5. HashRange \div n = c * 2
  <2> DEFINE q == c * 2
  <2>1. q \in Nat /\ HashRange = n * q + 0 /\ 0 \in 0..n - 1
    BY <1>4
  <2> HIDE DEF q
  <2>2. HashRange \div n = q
    BY <1>1, <2>1, QuotientIs
  <2> QED BY <2>2 DEF q
<1>6. hash[k] \in Nat
  BY <1>1 DEF Hashes
<1>7. hash[k] \div (c * 2) = (hash[k] \div c) \div 2
  BY <1>2, <1>3, <1>6, QuotientOfQuotient
<1> QED BY <1>5, <1>7 DEF pkHome, c

\* How far slot x is behind slot a, around the table.
Behind(a, n, x) == IF x >= a THEN x - a ELSE x - a + n

\* The slot d slots behind slot a.
SlotBehind(a, n, d) == IF a + d < n THEN a + d ELSE a + d - n

LEMMA BehindIs ==
    ASSUME NEW n \in Nat, NEW a \in Slots(n)
    PROVE  /\ \A x \in Slots(n) : Behind(a, n, x) \in Slots(n)
           /\ \A x, y \in Slots(n) : Behind(a, n, x) = Behind(a, n, y) => x = y
           /\ \A d \in Slots(n) : SlotBehind(a, n, d) \in Slots(n) /\ Behind(a, n, SlotBehind(a, n, d)) = d
BY DEF Behind, SlotBehind, Slots

\* A way that avoids slot y and begins less far behind a than y ends so, too.
LEMMA WayEndsBefore ==
    ASSUME NEW n \in Nat, NEW a \in Slots(n), NEW y \in Slots(n), NEW h \in Slots(n), NEW x \in Slots(n),
           ~InArc(h, y, x), Behind(a, n, h) <= Behind(a, n, y)
    PROVE  Behind(a, n, x) < Behind(a, n, y)
BY DEF Behind, InArc, Slots

\* The slot behind z.
After(z, n) == IF z + 1 < n THEN z + 1 ELSE 0

\* Halving the slot numbers brings no slot further behind.
LEMMA HalvesAreNear ==
    ASSUME NEW n \in Nat, NEW b \in Slots(2 * n), NEW h \in Slots(2 * n)
    PROVE  /\ b \div 2 \in Slots(n) /\ h \div 2 \in Slots(n)
           /\ Behind(b \div 2, n, h \div 2) <= Behind(b, 2 * n, h)
<1> DEFINE p == b \div 2
           q == h \div 2
<1>1. b \in Nat /\ h \in Nat /\ b < 2 * n /\ h < 2 * n
  BY DEF Slots
<1>2. p \in Nat /\ q \in Nat /\ \E r, s \in 0..1 : b = 2 * p + r /\ h = 2 * q + s
  <2>1. p \in Nat /\ b % 2 \in 0..2 - 1 /\ b = 2 * p + (b % 2)
    BY <1>1, DivisionIs
  <2>2. q \in Nat /\ h % 2 \in 0..2 - 1 /\ h = 2 * q + (h % 2)
    BY <1>1, DivisionIs
  <2> QED BY <2>1, <2>2
<1> HIDE DEF p, q
<1>3. PICK r, s \in 0..1 : b = 2 * p + r /\ h = 2 * q + s
  BY <1>2
<1>4. p \in Slots(n) /\ q \in Slots(n)
  BY <1>1, <1>2, <1>3 DEF Slots
<1>5. Behind(p, n, q) <= Behind(b, 2 * n, h)
  BY <1>1, <1>2, <1>3 DEF Behind
<1> QED BY <1>4, <1>5 DEF p, q

\* If the first slots behind an empty one are taken in the doubled table, as
\* many are taken in the old one, behind the half of where they begin: else as
\* many keys would have to share one slot less.
LEMMA RunsWereThere ==
    ASSUME Hashes, NEW n \in Sizes, 2 * n \in Sizes, NEW f, NEW s, NEW t,
           Good(s, n, f), Good(t, 2 * n, f), NEW z \in Slots(2 * n), ~Used(t, z), NEW e \in Slots(n),
           \A x \in Slots(2 * n) : Behind(After(z, 2 * n), 2 * n, x) <= e => Used(t, x)
    PROVE  Used(s, SlotBehind(After(z, 2 * n) \div 2, n, e))
<1> DEFINE N == 2 * n
           b == After(z, N)
           a == b \div 2
           y == SlotBehind(a, n, e)
           at(d) == SlotBehind(b, N, d)
           key(d) == t[at(d)].key
           D(x) == Behind(a, n, x)
<1> SUFFICES ASSUME ~Used(s, y) PROVE FALSE
  OBVIOUS
<1>1. n \in Nat /\ N \in Nat /\ e \in Nat /\ e < n /\ e < N /\ f \in Refs
  BY PkMapBounds DEF Sizes, Slots, Good
<1>2. b \in Slots(N)
  BY <1>1 DEF After, Slots
<1>3. a \in Slots(n)
  BY <1>1, <1>2, HalvesAreNear
<1>4. y \in Slots(n) /\ D(y) = e
  BY <1>1, <1>3, BehindIs
<1>5. \A d \in Slots(e + 1) : at(d) \in Slots(N) /\ Behind(b, N, at(d)) = d /\ Used(t, at(d)) /\ key(d) \in Keys /\ f[key(d)] # 0
  <2> SUFFICES ASSUME NEW d \in Slots(e + 1)
               PROVE  at(d) \in Slots(N) /\ Behind(b, N, at(d)) = d /\ Used(t, at(d)) /\ key(d) \in Keys /\ f[key(d)] # 0
    OBVIOUS
  <2>1. d \in Slots(N) /\ d <= e
    BY <1>1 DEF Slots
  <2>2. at(d) \in Slots(N) /\ Behind(b, N, at(d)) = d
    <3> HIDE DEF b, N
    <3> QED BY <1>1, <1>2, <2>1, BehindIs
  <2>3. Used(t, at(d))
    BY <2>1, <2>2
  <2> QED BY <2>2, <2>3 DEF Good, Stores, Used
<1> DEFINE Place(k, x) == x \in Slots(n) /\ Used(s, x) /\ s[x].key = k
           was(d) == CHOOSE x : Place(key(d), x)
<1>6. \A d \in Slots(e + 1) : Place(key(d), was(d))
  <2> SUFFICES ASSUME NEW d \in Slots(e + 1) PROVE Place(key(d), was(d))
    OBVIOUS
  <2>1. \E x : Place(key(d), x)
    BY <1>5 DEF Good, Stores
  <2> QED BY <2>1
<1>7. \A d \in Slots(e + 1) : was(d) \in Slots(n) /\ D(was(d)) < e
  <2> SUFFICES ASSUME NEW d \in Slots(e + 1) PROVE was(d) \in Slots(n) /\ D(was(d)) < e
    OBVIOUS
  <2> DEFINE k == key(d)
             h == pkHome(k, N)
             x == was(d)
             j == at(d)
  <2>1. k \in Keys /\ j \in Slots(N) /\ Used(t, j) /\ t[j].key = k /\ Behind(b, N, j) = d /\ d <= e /\ d \in Nat
    BY <1>1, <1>5 DEF Slots
  <2>2. x \in Slots(n) /\ Used(s, x) /\ s[x].key = k
    BY <1>6
  <2> HIDE DEF k, x, j, was, at, key, D, a, y, b
  <2>3. h \in Slots(N) /\ pkHome(k, n) \in Slots(n) /\ pkHome(k, n) = h \div 2
    BY <2>1, HomeIs, HomesHalve DEF Slots
  <2>4. \A v \in Slots(N) : InArc(h, v, j) => Used(t, v)
    BY <2>1 DEF Good, Chained
  <2>5. \A v \in Slots(n) : InArc(h \div 2, v, x) => Used(s, v)
    BY <2>2, <2>3 DEF Good, Chained
  <2>6. Behind(b, N, h) <= Behind(b, N, j)
    <3>1. ~InArc(h, z, j)
      BY <2>4
    <3> HIDE DEF h, N
    <3> QED BY <1>1, <2>1, <2>3, <3>1 DEF InArc, Behind, After, Slots, b
  <2>7. D(h \div 2) <= e
    <3>1. D(h \div 2) <= Behind(b, N, h)
      BY <1>1, <1>2, <2>3, HalvesAreNear DEF D, a
    <3>2. D(h \div 2) \in Nat /\ Behind(b, N, h) \in Nat
      <4> HIDE DEF h, N
      <4>1. Behind(a, n, h \div 2) \in Slots(n) /\ Behind(b, N, h) \in Slots(N)
        BY <1>1, <1>2, <1>3, <2>3, BehindIs
      <4> QED BY <4>1 DEF D, Slots
    <3> QED BY <1>1, <2>1, <2>6, <3>1, <3>2
  <2>8. ~InArc(h \div 2, y, x)
    BY <1>4, <2>5
  <2>9. D(x) < e
    <3>1. Behind(a, n, h \div 2) <= Behind(a, n, y)
      BY <1>4, <2>7 DEF D
    <3>2. h \div 2 \in Slots(n)
      BY <2>3
    <3> HIDE DEF h
    <3>3. Behind(a, n, x) < Behind(a, n, y)
      BY <1>1, <1>3, <1>4, <2>2, <2>8, <3>1, <3>2, WayEndsBefore
    <3> QED BY <1>4, <3>3 DEF D
  <2> QED BY <2>2, <2>9 DEF x
<1> DEFINE F == [d \in Slots(e + 1) |-> D(was(d))]
<1>8. F \in [Slots(e + 1) -> Slots(e)]
  <2> SUFFICES ASSUME NEW d \in Slots(e + 1) PROVE D(was(d)) \in Slots(e)
    OBVIOUS
  <2>1. D(was(d)) \in Slots(n) /\ D(was(d)) < e
    BY <1>1, <1>3, <1>7, BehindIs
  <2> HIDE DEF D, was
  <2> QED BY <1>1, <2>1 DEF Slots
<1>9. PICK c, d \in Slots(e + 1) : c # d /\ F[c] = F[d]
  <2>1. IsFiniteSet(Slots(e + 1)) /\ Cardinality(Slots(e + 1)) = e + 1 /\ IsFiniteSet(Slots(e)) /\ Cardinality(Slots(e)) = e
    BY <1>1, SizeIs
  <2>2. Cardinality(Slots(e)) < Cardinality(Slots(e + 1))
    BY <1>1, <2>1
  <2> HIDE DEF F
  <2> QED BY <1>8, <2>1, <2>2, FS_PigeonHole
<1>10. was(c) = was(d)
  <2>1. D(was(c)) = D(was(d)) /\ was(c) \in Slots(n) /\ was(d) \in Slots(n)
    BY <1>7, <1>9
  <2> HIDE DEF was, a
  <2> QED BY <1>1, <1>3, <2>1, BehindIs
<1>11. key(c) = key(d)
  <2>1. s[was(c)].key = key(c) /\ s[was(d)].key = key(d)
    BY <1>6, <1>9
  <2> HIDE DEF was, key
  <2> QED BY <1>10, <2>1
<1>12. at(c) = at(d)
  <2>1. at(c) \in Slots(N) /\ at(d) \in Slots(N) /\ Used(t, at(c)) /\ Used(t, at(d)) /\ t[at(c)].key = t[at(d)].key
    BY <1>5, <1>9, <1>11
  <2> HIDE DEF at, N
  <2> QED BY <2>1 DEF Good, Stores, N
<1> QED BY <1>5, <1>9, <1>12

\* A run of taken slots of the table s, from slot i on.
IsRun(s, n, i, d) == \A e \in 0..(d - 1) : s[(i + e) % n].ref # 0

\* Where some slot is empty, a run can be found behind an empty slot.
LEMMA RunBehindEmpty ==
    ASSUME NEW n \in Nat, NEW s, HasRoom(s, n), NEW i \in Slots(n), NEW d \in 1..n, IsRun(s, n, i, d)
    PROVE  \E z \in Slots(n) : ~Used(s, z) /\ \A x \in Slots(n) : Behind(After(z, n), n, x) < d => Used(s, x)
<1> DEFINE O(z) == Off(z, n, i)
           T == {O(z) : z \in {z \in Slots(n) : ~Used(s, z)}}
<1>1. \A z \in Slots(n) : O(z) \in Nat
  BY DEF Off, Slots
<1>2. T \in SUBSET Nat /\ T # {}
  BY <1>1 DEF HasRoom
<1>3. PICK m \in T : \A y \in T : m <= y
  <2> HIDE DEF T
  <2> QED BY <1>2, NatMin
<1>4. PICK z \in Slots(n) : ~Used(s, z) /\ m = O(z)
  BY <1>3
<1>5. \A y \in Slots(n) : ~Used(s, y) => O(z) <= O(y)
  BY <1>3, <1>4
<1>6. ASSUME NEW x \in Slots(n), Behind(After(z, n), n, x) < d, ~Used(s, x) PROVE FALSE
  <2>1. O(z) <= O(x)
    BY <1>5, <1>6
  <2>2. n \in Nat \ {0} /\ d \in Nat /\ d <= n /\ i \in 0..n - 1 /\ x \in 0..n - 1
    BY DEF Slots
  <2>3. Used(s, i)
    <3>1. 0 \in 0..(d - 1) /\ 0 \in 0..(n - 1) /\ i + 0 = i
      BY <2>2
    <3>2. (i + 0) % n = i
      <4>1. (i + 0) % n = IF i + 0 < n THEN i + 0 ELSE i + 0 - n
        BY <2>2, <3>1, WrapsOnce
      <4> QED BY <2>2, <3>1, <4>1
    <3> QED BY <3>1, <3>2 DEF IsRun, Used
  <2>4. x # i /\ z # i
    BY <1>4, <1>6, <2>3
  <2>5. Behind(i, n, x) < d
    BY <1>6, <2>1, <2>2, <2>4 DEF Off, Behind, After, Slots
  <2> DEFINE e == Behind(i, n, x)
  <2>6. e \in 0..(d - 1) /\ e \in 0..(n - 1)
    BY <2>2, <2>5 DEF Behind
  <2>7. (IF i + e < n THEN i + e ELSE i + e - n) = x
    BY <2>2 DEF Behind
  <2> HIDE DEF e
  <2>8. (i + e) % n = x
    BY <2>2, <2>6, <2>7, WrapsOnce
  <2> QED BY <1>6, <2>6, <2>8 DEF IsRun, Used
<1> QED BY <1>4, <1>6

\* What the longest run is.
LEMMA RunIs ==
    ASSUME NEW m, NEW n \in Nat, m.slots \in Table(n)
    PROVE  /\ Run(m) \in 0..n
           /\ Run(m) # 0 => \E i \in Slots(n) : IsRun(m.slots, n, i, Run(m))
           /\ \A d \in 1..n : (\E i \in Slots(n) : IsRun(m.slots, n, i, d)) => d <= Run(m)
<1> DEFINE T == {0} \cup {d \in 1..n : \E i \in Slots(n) : IsRun(m.slots, n, i, d)}
<1>1. Run(m) = Max(T)
  BY HoldsSize DEF Run, IsRun
<1>2. T \in SUBSET (0..n) /\ T # {}
  OBVIOUS
<1>3. Max(T) \in T /\ \A y \in T : y <= Max(T)
  <2> HIDE DEF T
  <2> QED BY <1>2, MaxIs
<1> QED BY <1>1, <1>2, <1>3

\* grow: chains only shorten.
LEMMA GrowthShortens == MapSound => GrowthShortensChains
<1> DEFINE n == Size(map)
           s == map.slots
           t == grow(map).slots
           L == Run(grow(map))
<1> SUFFICES ASSUME MapSound, n \in 1..(HashRange \div 2) PROVE L <= Run(map)
  BY DEF GrowthShortensChains
<1>1. Hashes /\ Holds(map, n, rowOf) /\ n \in Nat /\ n # 0 /\ s \in Table(n)
  <2>1. Hashes /\ Holds(map, n, rowOf)
    BY DEF MapSound
  <2> QED BY <2>1, HoldsNumbers
<1>2. n \in Sizes /\ HasRoom(s, n)
  BY <1>1, HoldsNumbers
<1> HIDE DEF n
<1>3. 2 * n \in Sizes /\ 2 * n \in Nat /\ Doubled(n) = 2 * n
  <2>1. HashRange \in Nat /\ MinSlots \in Nat /\ MinSlots <= n
    BY <1>2, PkMapBounds DEF Sizes
  <2>2. HashRange \div 2 \in Nat /\ HashRange % 2 \in 0..2 - 1 /\ HashRange = 2 * (HashRange \div 2) + (HashRange % 2)
    BY <2>1, DivisionIs
  <2>3. 2 * n <= HashRange
    BY <1>1, <2>1, <2>2
  <2>4. Doubled(n) = 2 * n
    BY <1>1, <2>1 DEF Doubled
  <2> QED BY <1>1, <1>2, <2>3, <2>4, DoubledSize
<1>4. Holds(grow(map), 2 * n, rowOf)
  BY <1>1, <1>3, GrowHolds
<1>5. t \in Table(2 * n) /\ HasRoom(t, 2 * n) /\ Good(t, 2 * n, rowOf) /\ Good(s, n, rowOf)
  <2>1. Good(t, 2 * n, rowOf) /\ Good(s, n, rowOf)
    BY <1>1, <1>4 DEF Holds
  <2>2. 2 * n # 0
    BY <1>1
  <2> QED BY <1>4, <2>1, <2>2, HoldsNumbers
<1>6. L \in 0..(2 * n) /\ (L # 0 => \E i \in Slots(2 * n) : IsRun(t, 2 * n, i, L))
  BY <1>3, <1>5, RunIs
<1>7. Run(map) \in 0..n /\ \A d \in 1..n : (\E i \in Slots(n) : IsRun(s, n, i, d)) => d <= Run(map)
  BY <1>1, RunIs
<1> HIDE DEF L, s, t
<1>8. CASE L = 0
  BY <1>1, <1>7, <1>8
<1>9. CASE L # 0
  <2>1. PICK z \in Slots(2 * n) : ~Used(t, z) /\ \A x \in Slots(2 * n) : Behind(After(z, 2 * n), 2 * n, x) < L => Used(t, x)
    <3>1. PICK i \in Slots(2 * n) : IsRun(t, 2 * n, i, L)
      BY <1>6, <1>9
    <3>2. L \in 1..(2 * n)
      BY <1>3, <1>6, <1>9
    <3> QED BY <1>3, <1>5, <3>1, <3>2, RunBehindEmpty
  <2> DEFINE b == After(z, 2 * n)
             a == b \div 2
  <2>2. b \in Slots(2 * n) /\ a \in Slots(n)
    <3>1. b \in Slots(2 * n)
      BY <1>3 DEF After, Slots
    <3> QED BY <1>1, <3>1, HalvesAreNear
  <2>3. ASSUME NEW e \in Slots(n), e < L PROVE Used(s, SlotBehind(a, n, e))
    <3>1. \A x \in Slots(2 * n) : Behind(b, 2 * n, x) <= e => Used(t, x)
      <4> SUFFICES ASSUME NEW x \in Slots(2 * n), Behind(b, 2 * n, x) <= e PROVE Used(t, x)
        OBVIOUS
      <4>1. Behind(b, 2 * n, x) \in Slots(2 * n)
        BY <1>3, <2>2, BehindIs
      <4>2. Behind(b, 2 * n, x) < L
        BY <1>3, <1>6, <2>3, <4>1 DEF Slots
      <4> QED BY <2>1, <4>2
    <3> QED BY <1>1, <1>2, <1>3, <1>5, <2>1, <3>1, RunsWereThere
  <2> HIDE DEF b, a
  <2>4. L <= n
    <3> SUFFICES ASSUME n < L PROVE FALSE
      BY <1>1, <1>6, <1>3
    <3>1. PICK y \in Slots(n) : ~Used(s, y)
      BY <1>2 DEF HasRoom
    <3> DEFINE e == Behind(a, n, y)
    <3>2. e \in Slots(n) /\ SlotBehind(a, n, e) = y
      BY <1>1, <2>2 DEF Behind, SlotBehind, Slots
    <3> HIDE DEF e
    <3>3. e < L
      BY <1>1, <1>3, <1>6, <3>2 DEF Slots
    <3> QED BY <2>3, <3>1, <3>2, <3>3
  <2>5. IsRun(s, n, a, L)
    <3> SUFFICES ASSUME NEW e \in 0..(L - 1) PROVE s[(a + e) % n].ref # 0
      BY DEF IsRun
    <3>1. e \in Slots(n) /\ e < L /\ e \in 0..(n - 1) /\ a \in 0..(n - 1) /\ n \in Nat \ {0}
      BY <1>1, <1>3, <1>6, <2>2, <2>4 DEF Slots
    <3>2. (a + e) % n = SlotBehind(a, n, e)
      BY <3>1, WrapsOnce DEF SlotBehind
    <3> QED BY <2>3, <3>1, <3>2 DEF Used
  <2>6. L \in 1..n
    BY <1>3, <1>6, <1>9, <2>4
  <2> QED BY <1>7, <2>2, <2>5, <2>6
<1> QED BY <1>8, <1>9 DEF L

(* The table is well formed after every call: no chain has a hole, which   *)
(* is what the backward shift of delAt restores; the count is exact and    *)
(* the load within 3/4, which is why every probe loop of pkmap.go ends;    *)
(* and to double the table would make no run of taken slots longer than    *)
(* the longest there is, for every hash, which is the comment of grow.     *)
THEOREM TableKeepsItsShape == Spec => []MapInv
<1>1. MapSound => TypeOK /\ LoadIsBounded
  <2> SUFFICES ASSUME MapSound PROVE TypeOK /\ LoadIsBounded
    OBVIOUS
  <2> DEFINE n == Size(map)
  <2>1. Hashes /\ Holds(map, n, rowOf)
    BY DEF MapSound
  <2>2. n \in Nat /\ map.slots \in Table(n) /\ rowOf \in Refs /\ map.used \in Nat
    BY <2>1, HoldsNumbers
  <2>3. DOMAIN map.slots = Slots(n)
    BY <2>2, HoldsSize
  <2>4. n \in {0} \cup Sizes
    BY <2>1 DEF Holds
  <2>5. map.used = Cardinality({i \in Slots(n) : Used(map.slots, i)}) /\ 4 * map.used <= 3 * n
    BY <2>1, <2>2, EntriesAreKeys DEF Holds
  <2>6. TypeOK
    BY <2>1, <2>2, <2>3, <2>4 DEF TypeOK, Hashes, Table, Slots, Refs
  <2>7. LoadIsBounded
    BY <2>3, <2>5 DEF LoadIsBounded, Used
  <2> QED BY <2>6, <2>7
<1>2. MapSound => MapInv
  BY <1>1, ChainedIsNoHoles, GrowthShortens DEF MapInv
<1> QED BY <1>2, MapKeepsItsRows, PTL

----------------------------------------------------------------------------
(* The key generator.                                                      *)

\* The elements of a sequence.
LEMMA SeqElements ==
    ASSUME NEW S, NEW s \in Seq(S)
    PROVE  /\ Len(s) \in Nat /\ DOMAIN s = 1..Len(s)
           /\ \A i \in 1..Len(s) : s[i] \in S
OBVIOUS

\* A word taken apart.
LEMMA WordParts ==
    ASSUME NEW a \in Nat, NEW b \in 0..Field - 1
    PROVE  Ms(a * Field + b) = a /\ Ctr(a * Field + b) = b /\ a * Field + b \in Nat
BY ClockShape DEF Ms, Ctr

\* The shape of every word the generator stores: the counter never spills over.
IsWord(w) == \E m \in Nat, c \in 0..CMax : w = m * Field + c

\* A stored word keeps millisecond and counter apart, and is what a key is made of.
LEMMA WordHolds ==
    ASSUME NEW w, IsWord(w)
    PROVE  /\ w \in Nat /\ Ms(w) \in Nat /\ Ctr(w) \in 0..CMax
           /\ w = Ms(w) * Field + Ctr(w)
           /\ NewUUIDv7(w) = [ms |-> Ms(w), ctr |-> Ctr(w)]
<1>1. PICK m \in Nat, c \in 0..CMax : w = m * Field + c
  BY DEF IsWord
<1>2. Ms(w) = m /\ Ctr(w) = c /\ w \in Nat
  <2>1. c \in 0..Field - 1
    BY ClockShape
  <2> QED BY <1>1, <2>1, WordParts
<1>3. c % (CMax + 1) = c
  BY ClockShape
<1> QED BY <1>1, <1>2, <1>3 DEF NewUUIDv7

\* The next word: the clock's millisecond, or the next rank after the current word.
LEMMA AdvanceWord ==
    ASSUME NEW cur, IsWord(cur), NEW now \in Nat
    PROVE  LET nxt == Advance(cur, now) IN
           /\ IsWord(nxt)
           /\ \/ now > Ms(cur) /\ Ms(nxt) = now /\ Ctr(nxt) = 0
              \/ now <= Ms(cur) /\ Ms(nxt) = Ms(cur) /\ Ctr(nxt) = Ctr(cur) + 1
              \/ now <= Ms(cur) /\ Ms(nxt) = Ms(cur) + 1 /\ Ctr(nxt) = 0 /\ Ctr(cur) = CMax
<1> USE ClockShape
<1>0. /\ Ms(cur) \in Nat /\ Ctr(cur) \in 0..CMax
      /\ cur = Ms(cur) * Field + Ctr(cur)
  BY WordHolds
<1>1. CASE now > Ms(cur)
  <2>1. Advance(cur, now) = now * Field + 0
    BY <1>1 DEF Advance
  <2>2. IsWord(now * Field + 0)
    BY DEF IsWord
  <2> QED BY <1>1, <2>1, <2>2, WordParts
<1>2. CASE now <= Ms(cur)
  <2>1. cur + 1 = Ms(cur) * Field + (Ctr(cur) + 1) /\ Ctr(cur) + 1 \in 0..Field - 1
    BY <1>0
  <2>2. Ctr(cur + 1) = Ctr(cur) + 1 /\ Ms(cur + 1) = Ms(cur)
    BY <1>0, <2>1, WordParts
  <2>3. CASE Ctr(cur) = CMax
    <3>1. Advance(cur, now) = (Ms(cur) + 1) * Field + 0
      BY <1>0, <1>2, <2>2, <2>3 DEF Advance
    <3>3. Ms(cur) + 1 \in Nat /\ 0 \in 0..Field - 1 /\ 0 \in 0..CMax
      BY <1>0
    <3>2. IsWord((Ms(cur) + 1) * Field + 0)
      BY <3>3, Zenon DEF IsWord
    <3> QED BY <1>2, <2>3, <3>1, <3>2, <3>3, WordParts
  <2>4. CASE Ctr(cur) # CMax
    <3>1. Advance(cur, now) = cur + 1
      BY <1>0, <1>2, <2>2, <2>4 DEF Advance
    <3>2. IsWord(cur + 1)
      <4>1. Ctr(cur) + 1 \in 0..CMax
        BY <1>0, <2>4
      <4> QED BY <1>0, <2>1, <4>1, Zenon DEF IsWord
    <3> QED BY <1>2, <2>2, <3>1, <3>2
  <2> QED BY <2>3, <2>4
<1> QED BY <1>0, <1>1, <1>2

\* What the division in DriftIsEarned rounds.
LEMMA DivBound ==
    ASSUME NEW c \in Nat \ {0}, NEW a \in Nat, NEW n \in Nat, a * c <= n
    PROVE  a <= n \div c
OBVIOUS

\* The inductive part: the types with the exact shape of the word, and what relates
\* the word to the keys claimed.
ClockCore ==
    /\ ClockTypeOK
    /\ IsWord(uuidStamp)
    /\ StampIsLast
    /\ IdsIncrease
    /\ DriftIsCounted
    /\ \A i \in DOMAIN claimed : claimed[i].id.ms >= claimed[i].now

\* The zero word, before any key.
LEMMA ClockCoreInit == ClockInit => ClockCore
<1> SUFFICES ASSUME ClockInit PROVE ClockCore
  OBVIOUS
<1> USE ClockShape, ClockBounds DEF ClockInit, Idle
<1>1. IsWord(uuidStamp)
  BY DEF IsWord
<1>2. Ctr(uuidStamp) <= CMax
  BY <1>1, WordHolds
<1>3. ClockTypeOK
  BY <1>2 DEF ClockTypeOK
<1> QED BY <1>1, <1>3 DEF ClockCore, StampIsLast, IdsIncrease, DriftIsCounted

\* A key claimed with the new word is above the last one, and within one rank of it
\* or at the clock's millisecond.
LEMMA ClaimStep ==
    ASSUME ClockCore, NEW g \in Goroutines, CompareAndSwap(g), uuidStamp = gor[g].cur
    PROVE  ClockCore'
<1> USE ClockShape, ClockBounds
<1> DEFINE now == gor[g].now
           cur == uuidStamp
           nxt == Advance(cur, now)
           n == Len(claimed)
           new == [id |-> NewUUIDv7(nxt), now |-> now]
<1>1. now \in 1..MaxMs /\ now \in Nat
  <2>1. gor[g].at = "cas"
    BY DEF CompareAndSwap
  <2>2. gor[g] \in [at : {"idle", "load", "cas"}, now : 0..MaxMs, cur : Nat] /\ gor[g].now > 0
    BY <2>1 DEF ClockCore, ClockTypeOK
  <2> QED BY <2>2
<1>2. /\ IsWord(cur) /\ IsWord(nxt)
      /\ \/ now > Ms(cur) /\ Ms(nxt) = now /\ Ctr(nxt) = 0
         \/ now <= Ms(cur) /\ Ms(nxt) = Ms(cur) /\ Ctr(nxt) = Ctr(cur) + 1
         \/ now <= Ms(cur) /\ Ms(nxt) = Ms(cur) + 1 /\ Ctr(nxt) = 0 /\ Ctr(cur) = CMax
  BY <1>1, AdvanceWord DEF ClockCore
<1>3. /\ Ms(cur) \in Nat /\ Ctr(cur) \in 0..CMax /\ NewUUIDv7(cur) = [ms |-> Ms(cur), ctr |-> Ctr(cur)]
      /\ nxt \in Nat /\ Ms(nxt) \in Nat /\ Ctr(nxt) \in 0..CMax
      /\ NewUUIDv7(nxt) = [ms |-> Ms(nxt), ctr |-> Ctr(nxt)]
  BY <1>2, WordHolds
<1>4. /\ uuidStamp' = nxt
      /\ claimed' = Append(claimed, new)
      /\ gor' = [gor EXCEPT ![g] = Idle]
      /\ n < MaxClaims
  BY DEF CompareAndSwap
<1> HIDE DEF nxt
<1>5. /\ claimed \in Seq([id : [ms : Nat, ctr : 0..CMax], now : 1..MaxMs])
      /\ new \in [id : [ms : Nat, ctr : 0..CMax], now : 1..MaxMs]
      /\ n \in Nat
  BY <1>1, <1>3 DEF ClockCore, ClockTypeOK
<1>6. /\ DOMAIN claimed = 1..n /\ DOMAIN claimed' = 1..(n + 1)
      /\ Len(claimed') = n + 1
      /\ claimed'[n + 1] = new
      /\ \A i \in 1..n : claimed'[i] = claimed[i]
      /\ n \in Nat /\ n = Len(claimed)
  BY <1>4, <1>5
<1>a. \A i \in 1..n : /\ claimed[i].id.ms \in Nat /\ claimed[i].id.ctr \in 0..CMax
                       /\ claimed[i].now \in Nat
  <2>1. \A i \in 1..n : claimed[i] \in [id : [ms : Nat, ctr : 0..CMax], now : 1..MaxMs]
    BY <1>5, SeqElements
  <2> QED BY <2>1
<1>c. n \in Nat
  BY <1>5
<1>b. new.id.ms = Ms(nxt) /\ new.id.ctr = Ctr(nxt) /\ new.now = now
  BY <1>3
<1>7. ClockTypeOK'
  BY <1>3, <1>4, <1>5 DEF ClockCore, ClockTypeOK, Idle
<1>8. IsWord(uuidStamp)'
  BY <1>2, <1>4 DEF IsWord
<1>9. StampIsLast'
  <2>1. claimed' # << >> /\ claimed'[Len(claimed')].id = NewUUIDv7(nxt)
    BY <1>5, <1>6
  <2> QED BY <2>1, <1>4 DEF StampIsLast, NewUUIDv7, Ms, Ctr
<1> HIDE DEF n, new, now, cur
<1>10. n # 0 => /\ claimed[n].id.ms = Ms(cur) /\ claimed[n].id.ctr = Ctr(cur)
               /\ Before(claimed[n].id, new.id)
  <2> SUFFICES ASSUME n # 0
               PROVE  /\ claimed[n].id.ms = Ms(cur) /\ claimed[n].id.ctr = Ctr(cur)
                      /\ Before(claimed[n].id, new.id)
    OBVIOUS
  <2>1. claimed # << >>
    BY <1>6
  <2>2. claimed[n].id = [ms |-> Ms(cur), ctr |-> Ctr(cur)]
    BY <1>3, <1>6, <2>1 DEF ClockCore, StampIsLast, cur
  <2>3. claimed[n].id.ms = Ms(cur) /\ claimed[n].id.ctr = Ctr(cur)
    BY <2>2
  <2> QED BY <1>2, <1>3, <1>b, <2>3 DEF Before
<1>11. IdsIncrease'
  <2> SUFFICES ASSUME NEW i \in 1..(n + 1), NEW j \in 1..(n + 1), i < j
               PROVE  Before(claimed'[i].id, claimed'[j].id)
    BY <1>6 DEF IdsIncrease, Before
  <2>0. i \in 1..n
    BY <1>6
  <2>1. CASE j \in 1..n
    <3>1. Before(claimed[i].id, claimed[j].id)
      BY <1>6, <2>0, <2>1 DEF ClockCore, IdsIncrease
    <3> QED BY <1>6, <2>0, <2>1, <3>1
  <2>2. CASE j = n + 1
    <3>0. n \in 1..n /\ (i = n \/ i < n)
      BY <1>c, <2>0
    <3>1. i = n \/ Before(claimed[i].id, claimed[n].id)
      BY <1>6, <2>0, <3>0 DEF ClockCore, IdsIncrease
    <3>2. Before(claimed[i].id, new.id)
      BY <1>3, <1>a, <1>b, <1>10, <2>0, <3>0, <3>1 DEF Before
    <3> QED BY <1>6, <2>0, <2>2, <3>2
  <2> QED BY <1>6, <2>1, <2>2
<1>12. DriftIsCounted'
  <2> SUFFICES ASSUME NEW i \in 1..(n + 1)
               PROVE  \E j \in 1..i : Rank(claimed'[i].id) <= claimed'[j].now * (CMax + 1) + (i - j)
    BY <1>6 DEF DriftIsCounted, Rank
  <2>1. CASE i \in 1..n
    <3>1. PICK j \in 1..i : Rank(claimed[i].id) <= claimed[j].now * (CMax + 1) + (i - j)
      BY <1>6, <2>1 DEF ClockCore, DriftIsCounted
    <3>2. j \in 1..n /\ claimed'[i] = claimed[i] /\ claimed'[j] = claimed[j]
      BY <1>6, <2>1
    <3> QED BY <3>1, <3>2
  <2>2. CASE i = n + 1 /\ now > Ms(cur)
    <3>1. Rank(new.id) = now * (CMax + 1)
      BY <1>1, <1>2, <1>3, <1>b, <2>2 DEF Rank
    <3>2. Rank(claimed'[i].id) <= claimed'[i].now * (CMax + 1) + (i - i)
      BY <1>1, <1>6, <1>b, <2>2, <3>1
    <3>3. i \in 1..i
      BY <1>6
    <3> QED BY <3>2, <3>3
  <2>3. CASE i = n + 1 /\ ~(now > Ms(cur))
    <3>1. n \in 1..n
      <4>1. n = 0 => claimed = << >>
        BY <1>5, <1>6
      <4>2. 0 = 0 * Field + 0 /\ 0 \in 0..Field - 1
        OBVIOUS
      <4>5. Ms(0) = 0
        BY <4>2, WordParts
      <4>6. n = 0 => cur = 0
        BY <4>1 DEF ClockCore, StampIsLast, cur
      <4>3. n = 0 => Ms(cur) = 0
        BY <4>5, <4>6
      <4> QED BY <1>1, <1>6, <2>3, <4>3
    <3>2. Rank(new.id) <= Rank(claimed[n].id) + 1
      <4>1. \/ Ms(nxt) = Ms(cur) /\ Ctr(nxt) = Ctr(cur) + 1
            \/ Ms(nxt) = Ms(cur) + 1 /\ Ctr(nxt) = 0 /\ Ctr(cur) = CMax
        BY <1>2, <2>3
      <4>2. /\ Rank(new.id) = Ms(nxt) * (CMax + 1) + Ctr(nxt)
            /\ Rank(claimed[n].id) = Ms(cur) * (CMax + 1) + Ctr(cur)
        BY <1>b, <1>10, <3>1 DEF Rank
      <4> QED BY <1>3, <4>1, <4>2
    <3>3. PICK j \in 1..n : Rank(claimed[n].id) <= claimed[j].now * (CMax + 1) + (n - j)
      BY <1>6, <3>1 DEF ClockCore, DriftIsCounted
    <3>4. /\ Rank(new.id) \in Nat /\ Rank(claimed[n].id) \in Nat /\ claimed[j].now * (CMax + 1) \in Nat
      BY <1>3, <1>a, <1>b, <3>1 DEF Rank
    <3>5. Rank(new.id) <= claimed[j].now * (CMax + 1) + (i - j)
      BY SMTT(40), <1>6, <2>3, <3>2, <3>3, <3>4
    <3>6. j \in 1..i /\ claimed'[j].now = claimed[j].now /\ claimed'[i] = new
      BY <1>6, <2>3
    <3> QED BY <3>5, <3>6
  <2> QED BY <1>6, <2>1, <2>2, <2>3
<1>13. (\A i \in DOMAIN claimed : claimed[i].id.ms >= claimed[i].now)'
  BY <1>1, <1>2, <1>3, <1>6, <1>b DEF ClockCore
<1> QED BY <1>7, <1>8, <1>9, <1>11, <1>12, <1>13 DEF ClockCore

\* A goroutine that reads its clock or the word, or loses the swap, changes no key.
LEMMA NoClaimStep ==
    ASSUME ClockCore, NEW g \in Goroutines,
           \/ \E now \in 1..MaxMs : ReadClock(g, now)
           \/ LoadStamp(g)
           \/ CompareAndSwap(g) /\ uuidStamp # gor[g].cur
    PROVE  ClockCore'
<1>1. UNCHANGED <<uuidStamp, claimed>>
  BY DEF ReadClock, LoadStamp, CompareAndSwap
<1> DEFINE G == [at : {"idle", "load", "cas"}, now : 0..MaxMs, cur : Nat]
<1>2. gor[g] \in G /\ uuidStamp \in Nat /\ (gor[g].at # "idle" => gor[g].now > 0)
  BY DEF ClockCore, ClockTypeOK
<1>3. \E rec \in G : rec.now > 0 /\ gor' = [gor EXCEPT ![g] = rec]
  <2>1. CASE \E now \in 1..MaxMs : ReadClock(g, now)
    <3>1. PICK now \in 1..MaxMs : gor' = [gor EXCEPT ![g] = [at |-> "load", now |-> now, cur |-> 0]]
      BY <2>1 DEF ReadClock
    <3>2. [at |-> "load", now |-> now, cur |-> 0] \in G /\ now > 0
      BY ClockBounds
    <3> QED BY <3>1, <3>2
  <2>2. CASE LoadStamp(g)
    <3>1. gor' = [gor EXCEPT ![g] = [gor[g] EXCEPT !.at = "cas", !.cur = uuidStamp]] /\ gor[g].at # "idle"
      BY <2>2 DEF LoadStamp
    <3> QED BY <1>2, <3>1
  <2>3. CASE CompareAndSwap(g) /\ uuidStamp # gor[g].cur
    <3>1. gor' = [gor EXCEPT ![g] = [gor[g] EXCEPT !.at = "load", !.cur = 0]] /\ gor[g].at # "idle"
      BY <2>3 DEF CompareAndSwap
    <3> QED BY <1>2, <3>1
  <2> QED BY <2>1, <2>2, <2>3
<1>4. ClockTypeOK'
  BY <1>1, <1>3 DEF ClockCore, ClockTypeOK, Ctr
<1> QED BY <1>1, <1>4 DEF ClockCore, IsWord, StampIsLast, NewUUIDv7, Ms, Ctr, IdsIncrease, Before, DriftIsCounted, Rank

\* Every step of a goroutine preserves the inductive part.
LEMMA ClockCoreStep == ClockCore /\ [ClockNext]_clockVars => ClockCore'
<1> SUFFICES ASSUME ClockCore, [ClockNext]_clockVars PROVE ClockCore'
  OBVIOUS
<1>1. CASE ClockNext
  <2>1. PICK g \in Goroutines : \/ \E now \in 1..MaxMs : ReadClock(g, now)
                                \/ LoadStamp(g) \/ CompareAndSwap(g)
    BY <1>1 DEF ClockNext
  <2> QED BY <2>1, ClaimStep, NoClaimStep
<1>2. CASE UNCHANGED clockVars
  BY <1>2 DEF clockVars, ClockCore, ClockTypeOK, IsWord, StampIsLast, NewUUIDv7, Ms, Ctr, IdsIncrease, Before,
              DriftIsCounted, Rank
<1> QED BY <1>1, <1>2

\* Ranks divided by the counters of a millisecond are the drift in milliseconds.
LEMMA CoreGivesClockInv == ClockCore => ClockInv
<1> SUFFICES ASSUME ClockCore, NEW i \in DOMAIN claimed
             PROVE  \E j \in 1..i : claimed[i].id.ms <= claimed[j].now + (i - j) \div (CMax + 1)
  BY DEF ClockCore, ClockInv, DriftIsEarned
<1>1. claimed \in Seq([id : [ms : Nat, ctr : 0..CMax], now : 1..MaxMs])
  BY DEF ClockCore, ClockTypeOK
<1>2. PICK j \in 1..i : Rank(claimed[i].id) <= claimed[j].now * (CMax + 1) + (i - j)
  BY DEF ClockCore, DriftIsCounted
<1>3. /\ claimed[i].id.ms \in Nat /\ claimed[i].id.ctr \in Nat /\ claimed[j].now \in Nat
      /\ i \in Nat /\ j \in Nat /\ i - j \in Nat /\ CMax + 1 \in Nat \ {0}
  <2>1. i \in 1..Len(claimed) /\ j \in 1..Len(claimed) /\ i \in Nat /\ j \in Nat /\ i - j \in Nat
    <3>1. DOMAIN claimed = 1..Len(claimed) /\ Len(claimed) \in Nat
      BY <1>1
    <3> QED BY <3>1
  <2>2. \A k \in 1..Len(claimed) : claimed[k] \in [id : [ms : Nat, ctr : 0..CMax], now : 1..MaxMs]
    BY <1>1, SeqElements
  <2> QED BY SMTT(40), <2>1, <2>2, ClockShape
<1>4. CASE claimed[i].id.ms <= claimed[j].now
  <2>1. (i - j) \div (CMax + 1) \in Nat
    BY <1>3
  <2> QED BY <1>2, <1>3, <1>4, <2>1
<1>5. CASE claimed[i].id.ms > claimed[j].now
  <2> DEFINE a == claimed[i].id.ms - claimed[j].now
  <2>1. a \in Nat /\ a * (CMax + 1) <= i - j
    BY <1>2, <1>3, <1>5 DEF Rank
  <2>2. a <= (i - j) \div (CMax + 1)
    BY <1>3, <2>1, DivBound
  <2> QED BY <1>2, <1>3, <2>2
<1> QED BY <1>3, <1>4, <1>5

\* "IDs from this process sort by creation time, including inside one millisecond"
\* (uuid.go): for every number of goroutines and every
\* behaviour of their clocks, keys sort by the order of their claims and run ahead of
\* the clock only by the milliseconds they used up.
THEOREM ClockIsSound == ClockSpec => []ClockInv
<1>1. ClockSpec => []ClockCore
  BY ClockCoreInit, ClockCoreStep, PTL DEF ClockSpec
<1> QED BY <1>1, CoreGivesClockInv, PTL

----------------------------------------------------------------------------
(* Byte strings.                                                           *)

\* a is below b at a position that both have, and they agree up to there.
PartsAt(a, b, i) == i \in DOMAIN a \cap DOMAIN b /\ a[i] < b[i] /\ \A j \in 1..i - 1 : a[j] = b[j]
Parts(a, b) == \E i \in DOMAIN a \cap DOMAIN b : PartsAt(a, b, i)

\* What a position of a byte string is.
LEMMA PositionIs ==
    ASSUME NEW a \in Seq(Bytes), NEW i \in DOMAIN a
    PROVE  i \in 1..Len(a) /\ i \in Nat \ {0} /\ a[i] \in Nat /\ 0 <= a[i] /\ a[i] <= Top /\ Top \in Nat /\ Len(a) \in Nat
BY KeyShape DEF Bytes

\* A prefix, by its positions.
LEMMA PrefixIs ==
    ASSUME NEW S, NEW a \in Seq(S), NEW b \in Seq(S)
    PROVE  IsPrefix(a, b) <=> Len(a) <= Len(b) /\ \A i \in 1..Len(a) : a[i] = b[i]
<1>1. ASSUME Len(a) <= Len(b)
      PROVE  SubSeq(b, 1, Len(a)) \in Seq(S) /\ Len(SubSeq(b, 1, Len(a))) = Len(a)
             /\ \A i \in 1..Len(a) : SubSeq(b, 1, Len(a))[i] = b[i]
  BY <1>1
<1>2. ASSUME Len(a) <= Len(b), \A i \in 1..Len(a) : a[i] = b[i]
      PROVE  SubSeq(b, 1, Len(a)) = a
  BY <1>1, <1>2, SeqEqual
<1>3. SubSeq(a, 1, Len(a)) = a
  OBVIOUS
<1> QED BY <1>1, <1>2, <1>3 DEF IsPrefix

\* The order of byte strings: they part, or the one begins the other.
LEMMA BytesLessIs ==
    ASSUME NEW a \in Seq(Bytes), NEW b \in Seq(Bytes)
    PROVE  BytesLess(a, b) <=> Parts(a, b) \/ (IsPrefix(a, b) /\ a # b)
BY DEF BytesLess, Parts, PartsAt, IsStrictPrefix

\* Two strings that part do so one way only, and neither begins the other.
LEMMA PartsOneWay ==
    ASSUME NEW a \in Seq(Bytes), NEW b \in Seq(Bytes), Parts(a, b)
    PROVE  ~Parts(b, a) /\ ~IsPrefix(a, b) /\ ~IsPrefix(b, a) /\ a # b
<1>1. PICK i \in DOMAIN a \cap DOMAIN b : PartsAt(a, b, i)
  BY DEF Parts
<1>2. /\ i \in 1..Len(a) /\ i \in 1..Len(b) /\ a[i] \in Nat /\ b[i] \in Nat /\ a[i] < b[i]
      /\ \A j \in 1..i - 1 : a[j] = b[j]
  BY <1>1, PositionIs DEF PartsAt
<1>3. ~IsPrefix(a, b) /\ ~IsPrefix(b, a) /\ a # b
  BY <1>2, PrefixIs
<1>4. ASSUME NEW k \in DOMAIN b \cap DOMAIN a, PartsAt(b, a, k) PROVE FALSE
  <2>1. /\ k \in 1..Len(a) /\ a[k] \in Nat /\ b[k] \in Nat /\ b[k] < a[k]
        /\ \A j \in 1..k - 1 : a[j] = b[j]
    BY <1>4, PositionIs DEF PartsAt
  <2>2. i \in Nat /\ k \in Nat /\ 1 <= i /\ 1 <= k
    BY <1>2, <2>1
  <2> QED BY <1>2, <2>1, <2>2
<1> QED BY <1>3, <1>4 DEF Parts

LEMMA PartsLess ==
    ASSUME NEW a \in Seq(Bytes), NEW b \in Seq(Bytes), Parts(a, b)
    PROVE  BytesLess(a, b) /\ ~BytesLess(b, a)
BY PartsOneWay, BytesLessIs

\* Nothing is below itself.
LEMMA NotBelowItself ==
    ASSUME NEW a \in Seq(Bytes)
    PROVE  ~BytesLess(a, a)
BY PartsOneWay, BytesLessIs

\* Two strings are one, or they part, or the one begins the other.
LEMMA BytesTotal ==
    ASSUME NEW a \in Seq(Bytes), NEW b \in Seq(Bytes), a # b
    PROVE  BytesLess(a, b) \/ BytesLess(b, a)
<1> DEFINE D == {i \in DOMAIN a \cap DOMAIN b : a[i] # b[i]}
<1>0. DOMAIN a = 1..Len(a) /\ DOMAIN b = 1..Len(b) /\ Len(a) \in Nat /\ Len(b) \in Nat
  OBVIOUS
<1>1. CASE D = {}
  <2>1. CASE Len(a) <= Len(b)
    <3>1. IsPrefix(a, b)
      BY <1>0, <1>1, <2>1, PrefixIs
    <3> QED BY <3>1, BytesLessIs
  <2>2. CASE Len(b) <= Len(a)
    <3>1. IsPrefix(b, a)
      BY <1>0, <1>1, <2>2, PrefixIs
    <3> QED BY <3>1, BytesLessIs
  <2> QED BY <1>0, <2>1, <2>2
<1>2. CASE D # {}
  <2>1. D \in SUBSET Nat
    BY <1>0
  <2>2. PICK i \in D : \A j \in D : i <= j
    BY <1>2, <2>1, NatMin
  <2>3. i \in 1..Len(a) /\ i \in 1..Len(b) /\ \A j \in 1..i - 1 : a[j] = b[j]
    BY <1>0, <2>2
  <2>4. a[i] \in Nat /\ b[i] \in Nat /\ a[i] # b[i]
    BY <2>2, PositionIs
  <2>5. PartsAt(a, b, i) \/ PartsAt(b, a, i)
    BY <1>0, <2>3, <2>4 DEF PartsAt
  <2>6. Parts(a, b) \/ Parts(b, a)
    BY <1>0, <2>3, <2>5 DEF Parts
  <2> QED BY <2>6, PartsLess
<1> QED BY <1>1, <1>2

\* What follows does not matter to strings that have parted, nor does what both began with.
LEMMA PartsOnwards ==
    ASSUME NEW a \in Seq(Bytes), NEW b \in Seq(Bytes), Parts(a, b),
           NEW u \in Seq(Bytes), NEW v \in Seq(Bytes)
    PROVE  Parts(a \o u, b \o v)
<1>1. PICK i \in DOMAIN a \cap DOMAIN b : PartsAt(a, b, i)
  BY DEF Parts
<1>2. i \in 1..Len(a) /\ i \in 1..Len(b) /\ a[i] < b[i] /\ \A j \in 1..i - 1 : a[j] = b[j]
  BY <1>1 DEF PartsAt
<1>3. /\ DOMAIN (a \o u) = 1..Len(a) + Len(u) /\ DOMAIN (b \o v) = 1..Len(b) + Len(v)
      /\ Len(u) \in Nat /\ Len(v) \in Nat /\ Len(a) \in Nat /\ Len(b) \in Nat
      /\ \A j \in 1..Len(a) : (a \o u)[j] = a[j]
      /\ \A j \in 1..Len(b) : (b \o v)[j] = b[j]
  OBVIOUS
<1>4. i \in DOMAIN (a \o u) \cap DOMAIN (b \o v)
  BY <1>2, <1>3
<1>5. PartsAt(a \o u, b \o v, i)
  BY <1>2, <1>3, <1>4 DEF PartsAt
<1> QED BY <1>4, <1>5 DEF Parts

LEMMA PartsOnRight ==
    ASSUME NEW a \in Seq(Bytes), NEW b \in Seq(Bytes), Parts(a, b), NEW v \in Seq(Bytes)
    PROVE  Parts(a, b \o v)
<1>1. <<>> \in Seq(Bytes) /\ a \o <<>> = a
  BY EmptySeq, ConcatEmptySeq
<1>2. Parts(a \o <<>>, b \o v)
  BY <1>1, PartsOnwards
<1> QED BY <1>1, <1>2

LEMMA PartsAfter ==
    ASSUME NEW a \in Seq(Bytes), NEW b \in Seq(Bytes), Parts(a, b), NEW u \in Seq(Bytes)
    PROVE  Parts(u \o a, u \o b)
<1>1. PICK i \in DOMAIN a \cap DOMAIN b : PartsAt(a, b, i)
  BY DEF Parts
<1>2. i \in 1..Len(a) /\ i \in 1..Len(b) /\ a[i] < b[i] /\ \A j \in 1..i - 1 : a[j] = b[j]
  BY <1>1 DEF PartsAt
<1>3. /\ DOMAIN (u \o a) = 1..Len(u) + Len(a) /\ DOMAIN (u \o b) = 1..Len(u) + Len(b)
      /\ Len(u) \in Nat /\ Len(a) \in Nat /\ Len(b) \in Nat
      /\ \A j \in 1..Len(u) + Len(a) : (u \o a)[j] = IF j <= Len(u) THEN u[j] ELSE a[j - Len(u)]
      /\ \A j \in 1..Len(u) + Len(b) : (u \o b)[j] = IF j <= Len(u) THEN u[j] ELSE b[j - Len(u)]
  OBVIOUS
<1> DEFINE k == Len(u) + i
<1>4. k \in DOMAIN (u \o a) \cap DOMAIN (u \o b)
  BY <1>2, <1>3
<1>5. (u \o a)[k] = a[i] /\ (u \o b)[k] = b[i]
  BY <1>2, <1>3
<1>6. \A j \in 1..k - 1 : (u \o a)[j] = (u \o b)[j]
  BY <1>2, <1>3
<1>7. PartsAt(u \o a, u \o b, k)
  BY <1>2, <1>4, <1>5, <1>6 DEF PartsAt
<1> QED BY <1>4, <1>7 DEF Parts

----------------------------------------------------------------------------
(* The two searches.                                                       *)

\* The bound above a prefix: the prefix up to its last byte that can grow, grown.
LEMMA BoundIs ==
    ASSUME NEW p \in Seq(Bytes)
    PROVE  \/ prefixUpperBound(p) = <<>> /\ \A j \in DOMAIN p : p[j] = Top
           \/ \E i \in DOMAIN p :
                /\ p[i] < Top /\ \A j \in DOMAIN p : j > i => p[j] = Top
                /\ prefixUpperBound(p) \in Seq(Bytes) /\ Len(prefixUpperBound(p)) = i
                /\ prefixUpperBound(p)[i] = p[i] + 1
                /\ \A j \in 1..i - 1 : prefixUpperBound(p)[j] = p[j]
<1> DEFINE below == {j \in DOMAIN p : p[j] # Top}
           i == CHOOSE k \in below : \A j \in below : j <= k
           ub == [SubSeq(p, 1, i) EXCEPT ![i] = @ + 1]
<1>0. prefixUpperBound(p) = IF below = {} THEN <<>> ELSE ub
  BY DEF prefixUpperBound
<1>1. CASE below = {}
  BY <1>0, <1>1
<1>2. CASE below # {}
  <2>1. \E k \in below : \A j \in below : j <= k
    <3> DEFINE S == {n \in Nat : \E j \in below : n = Len(p) - j}
    <3>1. Len(p) \in Nat /\ below \subseteq 1..Len(p)
      OBVIOUS
    <3> HIDE DEF below
    <3>2. \A j \in below : Len(p) - j \in Nat
      BY <3>1
    <3>a. S \in SUBSET Nat /\ S # {} /\ \A j \in below : Len(p) - j \in S
      BY <1>2, <3>2
    <3> HIDE DEF S
    <3>3. PICK n \in S : \A m \in S : n <= m
      BY <3>a, NatMin
    <3>4. PICK k \in below : n = Len(p) - k
      BY <3>3 DEF S
    <3>5. \A j \in below : n <= Len(p) - j
      BY <3>a, <3>3
    <3>6. \A j \in below : j <= k
      BY <3>1, <3>4, <3>5
    <3> QED BY <3>6
  <2>2. i \in below /\ \A j \in below : j <= i
    BY <2>1
  <2> HIDE DEF i
  <2>3. i \in 1..Len(p) /\ p[i] \in Nat /\ p[i] < Top /\ Top \in Nat /\ \A j \in DOMAIN p : j > i => p[j] = Top
    BY <2>2, PositionIs
  <2> DEFINE s == SubSeq(p, 1, i)
  <2>4. s \in Seq(Bytes) /\ Len(s) = i /\ \A j \in 1..i : s[j] = p[j]
    BY <2>3
  <2> HIDE DEF s
  <2>5. p[i] + 1 \in Bytes
    BY <2>3 DEF Bytes
  <2>6. s[i] + 1 \in Bytes /\ i \in 1..Len(s)
    BY <2>3, <2>4, <2>5
  <2>7. ub = [s EXCEPT ![i] = s[i] + 1]
    BY DEF s
  <2> HIDE DEF ub
  <2>8. ub \in Seq(Bytes) /\ Len(ub) = i /\ ub[i] = p[i] + 1 /\ \A j \in 1..i - 1 : ub[j] = p[j]
    <3>1. ub \in Seq(Bytes) /\ Len(ub) = Len(s) /\ \A j \in 1..Len(s) : ub[j] = IF j = i THEN s[i] + 1 ELSE s[j]
      BY <2>4, <2>6, <2>7, ExceptSeq
    <3> QED BY <2>3, <2>4, <3>1
  <2>9. prefixUpperBound(p) = ub
    BY <1>0, <1>2
  <2>10. i \in DOMAIN p
    BY <2>3
  <2> QED BY <2>3, <2>8, <2>9, <2>10
<1> QED BY <1>1, <1>2

\* A search that keys only part with, or go on from, ends with the keys that go on.
LEMMA SearchesFindThePrefix ==
    ASSUME NEW p \in Seq(Bytes), NEW key \in Seq(Bytes),
           IsPrefix(p, key) \/ Parts(p, key) \/ Parts(key, p)
    PROVE  (InSnapshotPrefix(key, p) <=> IsPrefix(p, key)) /\ (InPrefixLookup(key, p) <=> IsPrefix(p, key))
<1> DEFINE ub == prefixUpperBound(p)
<1>0. /\ InSnapshotPrefix(key, p) <=> ~BytesLess(key, p) /\ (ub = <<>> \/ BytesLess(key, ub))
      /\ InPrefixLookup(key, p) <=> ~BytesLess(key, p) /\ IsPrefix(p, key)
  BY DEF InSnapshotPrefix, InPrefixLookup
<1>d. DOMAIN p = 1..Len(p) /\ DOMAIN key = 1..Len(key) /\ Len(p) \in Nat /\ Len(key) \in Nat
  OBVIOUS
<1>1. ASSUME IsPrefix(p, key) PROVE ~BytesLess(key, p)
  <2> SUFFICES ASSUME BytesLess(key, p) PROVE FALSE
    OBVIOUS
  <2>1. ~Parts(key, p)
    BY <1>1, PartsOneWay
  <2>2. IsPrefix(key, p) /\ key # p
    BY <2>1, BytesLessIs
  <2>a. Len(key) <= Len(p) /\ \A i \in 1..Len(key) : key[i] = p[i]
    BY <2>2, PrefixIs
  <2>b. Len(p) <= Len(key)
    BY <1>1, PrefixIs
  <2>3. Len(key) = Len(p) /\ \A i \in 1..Len(key) : key[i] = p[i]
    <3>1. \A m, n \in Nat : m <= n /\ n <= m => m = n
      OBVIOUS
    <3>2. Len(key) = Len(p)
      BY <1>d, <2>a, <2>b, <3>1, Zenon
    <3> QED BY <2>a, <3>2, Zenon
  <2> QED BY <2>2, <2>3, SeqEqual
<1>2. CASE Parts(key, p)
  <2>1. BytesLess(key, p) /\ ~IsPrefix(p, key)
    BY <1>2, PartsLess, PartsOneWay
  <2> QED BY <1>0, <2>1
<1>3. CASE IsPrefix(p, key)
  <2>1. ub = <<>> \/ BytesLess(key, ub)
    <3> SUFFICES ASSUME ub # <<>> PROVE BytesLess(key, ub)
      OBVIOUS
    <3>1. PICK i \in DOMAIN p : /\ ub \in Seq(Bytes) /\ Len(ub) = i /\ ub[i] = p[i] + 1
                                /\ \A j \in 1..i - 1 : ub[j] = p[j]
      BY BoundIs
    <3> HIDE DEF ub
    <3>2. Len(p) <= Len(key) /\ \A j \in 1..Len(p) : p[j] = key[j]
      BY <1>3, PrefixIs
    <3>3. i \in 1..Len(p) /\ p[i] \in Nat
      BY PositionIs
    <3>4. i \in DOMAIN key \cap DOMAIN ub /\ key[i] < ub[i] /\ \A j \in 1..i - 1 : key[j] = ub[j]
      BY <1>d, <3>1, <3>2, <3>3
    <3>5. Parts(key, ub)
      BY <3>4 DEF Parts, PartsAt
    <3> QED BY <3>1, <3>5, PartsLess
  <2> QED BY <1>0, <1>1, <1>3, <2>1
<1>4. CASE Parts(p, key)
  <2>0. ~IsPrefix(p, key)
    BY <1>4, PartsOneWay
  <2>1. PICK j \in DOMAIN p \cap DOMAIN key : PartsAt(p, key, j)
    BY <1>4 DEF Parts
  <2>2. /\ j \in 1..Len(p) /\ j \in 1..Len(key) /\ p[j] \in Nat /\ key[j] \in Nat /\ p[j] < key[j] /\ key[j] <= Top
        /\ Top \in Nat /\ \A k \in 1..j - 1 : p[k] = key[k]
    BY <2>1, PositionIs DEF PartsAt
  <2>3. PICK i \in DOMAIN p : /\ p[i] < Top /\ \A k \in DOMAIN p : k > i => p[k] = Top
                              /\ ub \in Seq(Bytes) /\ Len(ub) = i /\ ub[i] = p[i] + 1
                              /\ \A k \in 1..i - 1 : ub[k] = p[k]
    <3>1. ~\A k \in DOMAIN p : p[k] = Top
      BY <2>1, <2>2
    <3> QED BY <3>1, BoundIs
  <2>4. i \in 1..Len(p) /\ p[i] \in Nat /\ j <= i /\ ub # <<>>
    <3>1. i \in 1..Len(p) /\ p[i] \in Nat
      BY <2>3, PositionIs
    <3>2. j > i => p[j] = Top
      BY <2>1, <2>3
    <3>3. ub # <<>>
      <4> HIDE DEF ub
      <4> QED BY <2>3, <3>1
    <3> QED BY <1>d, <2>2, <3>1, <3>2, <3>3
  <2> HIDE DEF ub
  <2>5. ~BytesLess(key, ub)
    <3>1. CASE j < i \/ key[i] # p[i] + 1
      <4>1. j \in DOMAIN ub \cap DOMAIN key /\ ub[j] < key[j] /\ \A k \in 1..j - 1 : ub[k] = key[k]
        BY <1>d, <2>2, <2>3, <2>4, <3>1
      <4>2. Parts(ub, key)
        BY <4>1 DEF Parts, PartsAt
      <4> QED BY <2>3, <4>2, PartsLess
    <3>2. CASE j = i /\ key[i] = p[i] + 1
      <4>1. Len(ub) <= Len(key) /\ \A k \in 1..Len(ub) : ub[k] = key[k]
        BY <2>2, <2>3, <2>4, <3>2
      <4>2. IsPrefix(ub, key)
        BY <2>3, <4>1, PrefixIs
      <4> SUFFICES ASSUME BytesLess(key, ub) PROVE FALSE
        OBVIOUS
      <4>3. ~Parts(key, ub)
        BY <2>3, <4>2, PartsOneWay
      <4>4. IsPrefix(key, ub) /\ key # ub
        BY <2>3, <4>3, BytesLessIs
      <4>5. Len(key) = Len(ub)
        BY <1>d, <2>3, <2>4, <4>1, <4>4, PrefixIs
      <4> QED BY <2>3, <4>1, <4>4, <4>5, SeqEqual
    <3> QED BY <2>4, <3>1, <3>2
  <2> QED BY <1>0, <2>0, <2>4, <2>5
<1> QED BY <1>2, <1>3, <1>4

----------------------------------------------------------------------------
(* Numbers and their bytes.                                                *)

SpanFold == INSTANCE LeftFold WITH op <- Times, V <- Nat, E <- Nat

\* One byte more makes Top + 1 times as many numbers.
LEMMA SpanIs ==
    ASSUME NEW n \in Nat
    PROVE  Span(n) \in Nat /\ Span(n) > 0 /\ Span(0) = 1 /\ Span(n + 1) = Span(n) * (Top + 1)
<1> DEFINE d(k) == [i \in 1..k |-> Top + 1]
           X == {k \in Nat : Span(k) \in Nat /\ Span(k) > 0}
<1>0. Top \in Nat /\ Top + 1 \in Nat /\ Top + 1 > 0
  BY KeyShape
<1>c. \A x, y \in Nat : x * y \in Nat /\ (x > 0 /\ y > 0 => x * y > 0)
  OBVIOUS
<1>1. SpanFold!Closed
  BY <1>c, Zenon DEF SpanFold!Closed, Times
<1>2. \A k : Span(k) = SpanFold!Run(1, d(k))
  BY DEF Span, SpanFold!Run, FoldLeft, SpanFold!FoldLeft, MapThenFoldSet, SpanFold!MapThenFoldSet,
         Max, SpanFold!Max
<1>3. \A k \in Nat : d(k) \in Seq(Nat) /\ d(k + 1) = Append(d(k), Top + 1)
  BY <1>0
<1>4. d(0) = <<>>
  OBVIOUS
<1> HIDE DEF d
<1>5. Span(0) = 1
  BY <1>1, <1>2, <1>4, SpanFold!RunEmpty
<1>6. \A k \in Nat : Span(k + 1) = Span(k) * (Top + 1)
  <2> SUFFICES ASSUME NEW k \in Nat PROVE Span(k + 1) = Span(k) * (Top + 1)
    OBVIOUS
  <2>1. SpanFold!Run(1, Append(d(k), Top + 1)) = Times(SpanFold!Run(1, d(k)), Top + 1)
    BY <1>0, <1>1, <1>3, SpanFold!RunAppend
  <2> QED BY <1>2, <1>3, <2>1 DEF Times
<1>7. 0 \in X
  BY <1>5
<1>8. \A k \in Nat : k \in X => k + 1 \in X
  <2> SUFFICES ASSUME NEW k \in Nat, k \in X PROVE k + 1 \in X
    OBVIOUS
  <2>1. Span(k) \in Nat /\ Span(k) > 0 /\ Span(k + 1) = Span(k) * (Top + 1)
    BY <1>6
  <2>2. Span(k + 1) \in Nat /\ Span(k + 1) > 0
    BY <1>0, <1>c, <2>1
  <2> QED BY <2>2
<1>9. Nat \subseteq X
  <2> HIDE DEF X
  <2> QED BY <1>7, <1>8, NatSetInduction
<1> QED BY <1>5, <1>6, <1>9

\* What is left of a number when its last bytes are taken off.
Leading(n, k) == n \div Span(Width - k)

\* The fronts of a number, from none of its bytes to all of them.
LEMMA LeadingIs ==
    ASSUME NEW n \in Nat, n < Span(Width)
    PROVE  /\ Leading(n, 0) = 0 /\ Leading(n, Width) = n
           /\ \A k \in 0..Width : Leading(n, k) \in Nat
           /\ \A k \in 1..Width : /\ BigEndian(n)[k] \in Bytes
                                  /\ BigEndian(n)[k] = Leading(n, k) % (Top + 1)
                                  /\ Leading(n, k) = (Top + 1) * Leading(n, k - 1) + BigEndian(n)[k]
<1>0. Width \in Nat /\ Top \in Nat /\ Top + 1 \in Nat \ {0}
  BY KeyShape
<1>1. \A k \in Nat : Span(k) \in Nat \ {0}
  BY SpanIs
<1>2. Leading(n, 0) = 0
  <2>1. n = Span(Width) * 0 + n /\ n \in 0..Span(Width) - 1 /\ Width - 0 = Width /\ Span(Width) \in Nat \ {0}
    BY <1>0, <1>1
  <2>2. n \div Span(Width) = 0
    BY <2>1, QuotientIs
  <2> QED BY <2>1, <2>2 DEF Leading
<1>3. Leading(n, Width) = n
  <2>1. Width - Width = 0 /\ Span(0) = 1
    BY <1>0, SpanIs
  <2>2. n \div 1 = n
    OBVIOUS
  <2> QED BY <2>1, <2>2 DEF Leading
<1>4. \A k \in 0..Width : Leading(n, k) \in Nat
  <2> SUFFICES ASSUME NEW k \in 0..Width PROVE Leading(n, k) \in Nat
    OBVIOUS
  <2>1. Width - k \in Nat
    BY <1>0
  <2> QED BY <1>1, <2>1, DivisionIs DEF Leading
<1>5. ASSUME NEW k \in 1..Width
      PROVE  /\ BigEndian(n)[k] \in Bytes
             /\ BigEndian(n)[k] = Leading(n, k) % (Top + 1)
             /\ Leading(n, k) = (Top + 1) * Leading(n, k - 1) + BigEndian(n)[k]
  <2> DEFINE d == Span(Width - k)
             f == Leading(n, k)
  <2>1. BigEndian(n)[k] = f % (Top + 1)
    BY DEF BigEndian, Leading
  <2>2. Width - k \in Nat /\ Width - (k - 1) = (Width - k) + 1 /\ k \in 0..Width
    BY <1>0
  <2>3. d \in Nat \ {0} /\ Span((Width - k) + 1) = d * (Top + 1)
    BY <2>2, SpanIs
  <2>4. Leading(n, k - 1) = f \div (Top + 1)
    <3> HIDE DEF d
    <3>1. n \div (d * (Top + 1)) = (n \div d) \div (Top + 1)
      BY <1>0, <2>3, QuotientOfQuotient
    <3> QED BY <2>2, <2>3, <3>1 DEF Leading, d
  <2>5. f \in Nat
    BY <1>4, <2>2
  <2> HIDE DEF f
  <2>6. f % (Top + 1) \in 0..(Top + 1) - 1 /\ f = (Top + 1) * (f \div (Top + 1)) + (f % (Top + 1))
    BY <1>0, <2>5, DivisionIs
  <2>7. f % (Top + 1) \in Bytes
    BY <1>0, <2>6 DEF Bytes
  <2> QED BY <2>1, <2>4, <2>6, <2>7 DEF f
<1> QED BY <1>2, <1>3, <1>4, <1>5

LEMMA BigEndianIs ==
    ASSUME NEW n \in Nat, n < Span(Width)
    PROVE  BigEndian(n) \in Seq(Bytes) /\ Len(BigEndian(n)) = Width
<1>1. Width \in Nat /\ \A k \in 1..Width : (n \div Span(Width - k)) % (Top + 1) \in Bytes
  BY KeyShape, LeadingIs DEF Leading
<1> DEFINE b(k) == (n \div Span(Width - k)) % (Top + 1)
<1>2. \A k \in 1..Width : b(k) \in Bytes
  BY <1>1
<1>3. BigEndian(n) = [k \in 1..Width |-> b(k)]
  BY DEF BigEndian
<1> HIDE DEF b
<1> QED BY <1>1, <1>2, <1>3

\* The bytes of a number below another part from the other's.
LEMMA BigEndianKeepsOrder ==
    ASSUME NEW n \in Nat, NEW m \in Nat, n < m, m < Span(Width)
    PROVE  Parts(BigEndian(n), BigEndian(m))
<1> DEFINE D == {k \in 0..Width : Leading(n, k) # Leading(m, k)}
<1>0. Width \in Nat /\ Top \in Nat /\ Span(Width) \in Nat
  BY KeyShape, SpanIs
<1>a. n < Span(Width)
  BY <1>0
<1>1. Width \in D
  BY <1>0, <1>a, LeadingIs
<1>2. PICK k \in D : \A j \in D : k <= j
  <2>1. D \in SUBSET Nat /\ D # {}
    BY <1>1
  <2> QED BY <2>1, NatMin
<1>d. \A j : j \in D <=> j \in 0..Width /\ Leading(n, j) # Leading(m, j)
  OBVIOUS
<1> HIDE DEF D
<1>3. k # 0
  <2>1. Leading(n, 0) = 0 /\ Leading(m, 0) = 0
    BY <1>a, LeadingIs
  <2> QED BY <1>d, <2>1, Zenon
<1>4. k \in 1..Width /\ k \in 0..Width /\ k - 1 \in 0..Width /\ k - 1 \notin D
  BY <1>0, <1>2, <1>3, <1>d
<1>5. \A j \in 1..k - 1 : j \in 1..Width /\ Leading(n, j) = Leading(m, j)
  BY <1>0, <1>2, <1>4, <1>d
<1>6. \A j \in 1..k - 1 : BigEndian(n)[j] = BigEndian(m)[j]
  BY <1>a, <1>5, LeadingIs
<1>7. Leading(n, k) < Leading(m, k)
  <2>1. Width - k \in Nat
    BY <1>0, <1>4
  <2>2. Span(Width - k) \in Nat \ {0}
    BY <2>1, SpanIs
  <2>3. Leading(n, k) <= Leading(m, k)
    BY <2>2, QuotientsGrow DEF Leading
  <2>4. Leading(n, k) \in Nat /\ Leading(m, k) \in Nat /\ Leading(n, k) # Leading(m, k)
    BY <1>a, <1>4, <1>d, LeadingIs
  <2> QED BY <2>3, <2>4
<1>8. BigEndian(n)[k] < BigEndian(m)[k]
  <2>1. /\ Leading(n, k) = (Top + 1) * Leading(n, k - 1) + BigEndian(n)[k]
        /\ Leading(m, k) = (Top + 1) * Leading(m, k - 1) + BigEndian(m)[k]
        /\ BigEndian(n)[k] \in Nat /\ BigEndian(m)[k] \in Nat
        /\ Leading(n, k - 1) \in Nat
    BY <1>0, <1>a, <1>4, LeadingIs DEF Bytes
  <2>2. Leading(n, k - 1) = Leading(m, k - 1)
    BY <1>4, <1>d
  <2>3. (Top + 1) * Leading(n, k - 1) \in Nat
    BY <1>0, <2>1
  <2> QED BY <1>7, <2>1, <2>2, <2>3
<1>9. k \in DOMAIN BigEndian(n) \cap DOMAIN BigEndian(m)
  BY <1>4 DEF BigEndian
<1>10. PartsAt(BigEndian(n), BigEndian(m), k)
  BY <1>6, <1>8, <1>9 DEF PartsAt
<1> QED BY <1>9, <1>10 DEF Parts

\* The remainder of a number near zero.
LEMMA NearZero ==
    ASSUME NEW n \in Nat \ {0}, NEW v \in Int, -n <= v, v < n
    PROVE  v % n = IF v < 0 THEN v + n ELSE v
OBVIOUS

\* Flipping the sign bit moves the integers, in order, to the numbers from 0 on.
LEMMA FlippedIs ==
    ASSUME NEW v \in -SignBit..SignBit - 1
    PROVE  /\ ((v % Span(Width)) + SignBit) % Span(Width) = v + SignBit
           /\ SignBit \in Nat /\ v + SignBit \in Nat /\ v + SignBit < Span(Width)
<1> DEFINE S == Span(Width)
<1>1. S \in Nat \ {0}
  BY KeyShape, SpanIs
<1>2. SignBit \in Nat /\ 2 * SignBit <= S
  <2> HIDE DEF S
  <2>1. S \div 2 \in Nat /\ 2 * (S \div 2) <= S
    BY <1>1
  <2> QED BY <2>1 DEF SignBit, S
<1> HIDE DEF S
<1>3. v \in Int /\ -S <= v /\ v < S
  BY <1>1, <1>2
<1>4. v % S = IF v < 0 THEN v + S ELSE v
  BY <1>1, <1>3, NearZero
<1>5. CASE v < 0
  <2> DEFINE w == v + S + SignBit
  <2>1. w \in Nat /\ w = S * 1 + (v + SignBit) /\ v + SignBit \in 0..S - 1
    BY <1>1, <1>2, <1>3, <1>5
  <2>2. (v % S) + SignBit = w
    BY <1>4, <1>5
  <2> HIDE DEF w
  <2>3. w % S = v + SignBit
    BY <1>1, <2>1, QuotientIs
  <2> QED BY <1>1, <1>2, <2>1, <2>2, <2>3 DEF S
<1>6. CASE v >= 0
  <2>1. v + SignBit \in Nat /\ v + SignBit < S
    BY <1>1, <1>2, <1>3, <1>6
  <2>2. (v + SignBit) % S = v + SignBit
    BY <1>1, <2>1, NearZero
  <2>3. v % S = v
    BY <1>3, <1>4, <1>6
  <2> QED BY <1>2, <2>1, <2>2, <2>3 DEF S
<1> QED BY <1>3, <1>5, <1>6

----------------------------------------------------------------------------
(* Strings.                                                                *)

EscapeFold == INSTANCE LeftFold WITH op <- appendEscaped, V <- Seq(Bytes), E <- Bytes

Escape == [b \in Bytes |-> IF b = 0 THEN <<0, Top>> ELSE <<b>>]
Escaped(s) == EscapeFold!Run(<<>>, s)

\* Escaping is a fold that appends to the buffer.
LEMMA EscapeIs ==
    /\ \A b \in Bytes : Escape[b] \in Seq(Bytes) /\ Escape[b] = IF b = 0 THEN <<0, Top>> ELSE <<b>>
    /\ \A buf \in Seq(Bytes), b \in Bytes : appendEscaped(buf, b) = buf \o Escape[b]
    /\ EscapeFold!Closed /\ EscapeFold!Appends(Bytes, Escape) /\ <<>> \in Seq(Bytes) /\ <<0, 0>> \in Seq(Bytes)
    /\ \A buf, s : FoldLeft(appendEscaped, buf, s) = EscapeFold!Run(buf, s)
<1>0. 0 \in Bytes /\ Top \in Bytes
  BY KeyShape DEF Bytes
<1>1. \A b \in Bytes : Escape[b] \in Seq(Bytes) /\ Escape[b] = IF b = 0 THEN <<0, Top>> ELSE <<b>>
  BY <1>0 DEF Escape
<1>2. \A buf \in Seq(Bytes), b \in Bytes : appendEscaped(buf, b) = buf \o Escape[b]
  BY DEF appendEscaped, Escape
<1>3. EscapeFold!Closed
  <2>1. ASSUME NEW buf \in Seq(Bytes), NEW b \in Bytes PROVE appendEscaped(buf, b) \in Seq(Bytes)
    BY <1>1, <1>2, ConcatProperties
  <2> QED BY <2>1 DEF EscapeFold!Closed
<1>a. EscapeFold!Appends(Bytes, Escape)
  BY <1>1, <1>2, Zenon DEF EscapeFold!Appends
<1>4. \A buf, s : FoldLeft(appendEscaped, buf, s) = EscapeFold!Run(buf, s)
  BY DEF EscapeFold!Run, FoldLeft, EscapeFold!FoldLeft, MapThenFoldSet, EscapeFold!MapThenFoldSet,
         Max, EscapeFold!Max
<1>5. <<>> \in Seq(Bytes) /\ <<0, 0>> \in Seq(Bytes)
  BY <1>0
<1> QED BY <1>1, <1>2, <1>3, <1>4, <1>5, <1>a

\* A string is written after the buffer, its escape between.
LEMMA TerminatedIs ==
    ASSUME NEW buf \in Seq(Bytes), NEW s \in Seq(Bytes)
    PROVE  /\ Escaped(s) \in Seq(Bytes)
           /\ appendEscapedTerminated(buf, s) = buf \o (Escaped(s) \o <<0, 0>>)
<1>1. EscapeFold!Run(buf, s) = buf \o Escaped(s)
  BY EscapeIs, EscapeFold!RunAppends DEF Escaped
<1>2. Escaped(s) \in Seq(Bytes) /\ <<0, 0>> \in Seq(Bytes)
  BY EscapeIs, EscapeFold!RunType DEF Escaped
<1>3. appendEscapedTerminated(buf, s) = EscapeFold!Run(buf, s) \o <<0, 0>>
  BY EscapeIs DEF appendEscapedTerminated
<1> DEFINE e == Escaped(s)
           z == <<0, 0>>
<1> HIDE DEF e, z
<1>4. (buf \o e) \o z = buf \o (e \o z)
  <2>1. e \in Seq(Bytes) /\ z \in Seq(Bytes)
    BY <1>2 DEF e, z
  <2> QED BY <2>1, ConcatAssociative
<1> QED BY <1>1, <1>2, <1>3, <1>4, Zenon DEF e, z

\* The escape of a byte parts from that of a higher one, the terminator from any.
LEMMA EscapesPart ==
    ASSUME NEW c \in Bytes
    PROVE  Parts(<<0, 0>>, Escape[c]) /\ \A b \in Bytes : b < c => Parts(Escape[b], Escape[c])
<1>0. Top \in Nat /\ Top > 0 /\ c \in Nat
  BY KeyShape DEF Bytes
<1>1. Parts(<<0, 0>>, Escape[c])
  <2>1. CASE c = 0
    <3>1. Escape[c] = <<0, Top>>
      BY <2>1, EscapeIs
    <3>2. PartsAt(<<0, 0>>, <<0, Top>>, 2)
      BY <1>0 DEF PartsAt
    <3> QED BY <3>1, <3>2 DEF Parts, PartsAt
  <2>2. CASE c # 0
    <3>1. Escape[c] = <<c>>
      BY <2>2, EscapeIs
    <3>2. PartsAt(<<0, 0>>, <<c>>, 1)
      BY <1>0, <2>2 DEF PartsAt
    <3> QED BY <3>1, <3>2 DEF Parts, PartsAt
  <2> QED BY <2>1, <2>2
<1>2. ASSUME NEW b \in Bytes, b < c PROVE Parts(Escape[b], Escape[c])
  <2>0. b \in Nat /\ c # 0
    BY <1>0, <1>2 DEF Bytes
  <2>1. Escape[c] = <<c>> /\ Escape[b] = IF b = 0 THEN <<0, Top>> ELSE <<b>>
    BY <2>0, EscapeIs
  <2>2. PartsAt(Escape[b], Escape[c], 1)
    BY <1>2, <2>0, <2>1 DEF PartsAt
  <2> QED BY <2>2 DEF Parts, PartsAt
<1> QED BY <1>1, <1>2

\* The escape of a string, up to a byte of it.
LEMMA EscapedUpTo ==
    ASSUME NEW s \in Seq(Bytes), NEW i \in 1..Len(s)
    PROVE  /\ Escaped(SubSeq(s, 1, i - 1)) \in Seq(Bytes) /\ Escape[s[i]] \in Seq(Bytes)
           /\ Escaped(SubSeq(s, 1, i)) = Escaped(SubSeq(s, 1, i - 1)) \o Escape[s[i]]
           /\ \E u \in Seq(Bytes) : Escaped(s) = Escaped(SubSeq(s, 1, i)) \o u
<1>1. EscapeFold!Appends(Bytes, Escape)
  BY EscapeIs
<1>2. /\ EscapeFold!Run(<<>>, SubSeq(s, 1, i - 1)) \in Seq(Bytes) /\ Escape[s[i]] \in Seq(Bytes)
      /\ EscapeFold!Run(<<>>, SubSeq(s, 1, i)) = EscapeFold!Run(<<>>, SubSeq(s, 1, i - 1)) \o Escape[s[i]]
      /\ \E u \in Seq(Bytes) : EscapeFold!Run(<<>>, s) = EscapeFold!Run(<<>>, SubSeq(s, 1, i)) \o u
  BY <1>1, EscapeFold!RunReaches
<1> QED BY <1>2 DEF Escaped

\* Terminated strings part as the strings are ordered.
LEMMA StringsPart ==
    ASSUME NEW s \in Seq(Bytes), NEW t \in Seq(Bytes), BytesLess(s, t)
    PROVE  Parts(Escaped(s) \o <<0, 0>>, Escaped(t) \o <<0, 0>>)
<1> DEFINE z == <<0, 0>>
<1>z. z \in Seq(Bytes)
  BY EscapeIs
<1>1. CASE Parts(s, t)
  <2>1. PICK i \in DOMAIN s \cap DOMAIN t : PartsAt(s, t, i)
    BY <1>1 DEF Parts
  <2>2. /\ i \in 1..Len(s) /\ i \in 1..Len(t) /\ s[i] \in Bytes /\ t[i] \in Bytes /\ s[i] < t[i]
        /\ \A j \in 1..i - 1 : s[j] = t[j]
    BY <2>1 DEF PartsAt
  <2>3. SubSeq(s, 1, i - 1) = SubSeq(t, 1, i - 1)
    <3>1. /\ SubSeq(s, 1, i - 1) \in Seq(Bytes) /\ Len(SubSeq(s, 1, i - 1)) = i - 1
          /\ SubSeq(t, 1, i - 1) \in Seq(Bytes) /\ Len(SubSeq(t, 1, i - 1)) = i - 1
          /\ \A j \in 1..i - 1 : SubSeq(s, 1, i - 1)[j] = s[j] /\ SubSeq(t, 1, i - 1)[j] = t[j]
      BY <2>2
    <3> QED BY <2>2, <3>1, SeqEqual
  <2> DEFINE p == Escaped(SubSeq(s, 1, i - 1))
             x == Escape[s[i]]
             y == Escape[t[i]]
             a == Escaped(SubSeq(s, 1, i))
             b == Escaped(SubSeq(t, 1, i))
  <2>4. p \in Seq(Bytes) /\ x \in Seq(Bytes) /\ a = p \o x /\ \E u \in Seq(Bytes) : Escaped(s) = a \o u
    BY <2>2, EscapedUpTo
  <2>5. y \in Seq(Bytes) /\ b = p \o y /\ \E v \in Seq(Bytes) : Escaped(t) = b \o v
    BY <2>2, <2>3, EscapedUpTo
  <2>6. Parts(x, y)
    BY <2>2, EscapesPart
  <2> HIDE DEF p, x, y, a, b, z
  <2>7. Parts(a, b) /\ a \in Seq(Bytes) /\ b \in Seq(Bytes)
    BY <2>4, <2>5, <2>6, PartsAfter, ConcatProperties
  <2>8. Parts(Escaped(s), Escaped(t)) /\ Escaped(s) \in Seq(Bytes) /\ Escaped(t) \in Seq(Bytes)
    <3>1. PICK u \in Seq(Bytes) : Escaped(s) = a \o u
      BY <2>4
    <3>2. PICK v \in Seq(Bytes) : Escaped(t) = b \o v
      BY <2>5
    <3>3. Parts(a \o u, b \o v) /\ a \o u \in Seq(Bytes) /\ b \o v \in Seq(Bytes)
      BY <2>7, PartsOnwards, ConcatProperties
    <3> QED BY <3>1, <3>2, <3>3, Zenon
  <2>9. Parts(Escaped(s) \o z, Escaped(t) \o z)
    BY <1>z, <2>8, PartsOnwards
  <2> QED BY <2>9 DEF z
<1>2. CASE IsPrefix(s, t) /\ s # t
  <2> DEFINE n == Len(s)
  <2>1. Len(s) \in Nat /\ Len(t) \in Nat /\ Len(s) <= Len(t) /\ \A j \in 1..Len(s) : s[j] = t[j]
    BY <1>2, PrefixIs
  <2>2. Len(s) # Len(t)
    BY <1>2, <2>1, SeqEqual
  <2>3. n + 1 \in 1..Len(t) /\ (n + 1) - 1 = n /\ t[n + 1] \in Bytes
    BY <2>1, <2>2
  <2>4. SubSeq(t, 1, n) = s
    <3>1. SubSeq(t, 1, n) \in Seq(Bytes) /\ Len(SubSeq(t, 1, n)) = n /\ \A j \in 1..n : SubSeq(t, 1, n)[j] = t[j]
      BY <2>1
    <3> QED BY <2>1, <3>1, SeqEqual
  <2> DEFINE p == Escaped(s)
             y == Escape[t[n + 1]]
             b == Escaped(SubSeq(t, 1, n + 1))
  <2>5. p \in Seq(Bytes) /\ y \in Seq(Bytes) /\ b = p \o y /\ \E v \in Seq(Bytes) : Escaped(t) = b \o v
    <3> DEFINE k == n + 1
    <3>1. k \in 1..Len(t) /\ k - 1 = n
      BY <2>3
    <3> HIDE DEF k
    <3>2. /\ Escaped(SubSeq(t, 1, k - 1)) \in Seq(Bytes) /\ Escape[t[k]] \in Seq(Bytes)
          /\ Escaped(SubSeq(t, 1, k)) = Escaped(SubSeq(t, 1, k - 1)) \o Escape[t[k]]
          /\ \E v \in Seq(Bytes) : Escaped(t) = Escaped(SubSeq(t, 1, k)) \o v
      BY <3>1, EscapedUpTo
    <3> QED BY <2>4, <3>1, <3>2 DEF k
  <2>6. Parts(z, y)
    BY <2>3, EscapesPart
  <2> HIDE DEF p, y, z, b
  <2>7. Parts(p \o z, b) /\ p \o z \in Seq(Bytes) /\ b \in Seq(Bytes)
    BY <1>z, <2>5, <2>6, PartsAfter, ConcatProperties
  <2>8. Parts(p \o z, Escaped(t)) /\ Escaped(t) \in Seq(Bytes)
    BY <2>5, <2>7, PartsOnRight, ConcatProperties
  <2>9. Parts(p \o z, Escaped(t) \o z)
    BY <1>z, <2>7, <2>8, PartsOnRight
  <2> QED BY <2>9 DEF z, p
<1> QED BY <1>1, <1>2, BytesLessIs

----------------------------------------------------------------------------
(* Cells.                                                                  *)

Cells == UNION {CellsOf(kind) : kind \in Kinds}
Code == [cell \in Cells |-> appendOrderedColumn(<<>>, cell)]

\* A cell is of a kind, and has what the kind allows.
LEMMA CellIs ==
    ASSUME NEW kind \in Kinds, NEW cell \in CellsOf(kind)
    PROVE  /\ cell \in Cells /\ cell = [kind |-> kind, v |-> cell.v] /\ cell.kind = kind /\ cell.v \in Payloads(kind)
           /\ kind = "int" => cell.v \in -SignBit..SignBit - 1
           /\ kind = "bool" => cell.v \in BOOLEAN
           /\ kind = "uuid" => cell.v \in Seq(Bytes) /\ Len(cell.v) = IdWidth
           /\ kind = "string" => cell.v \in Seq(Bytes)
<1>1. cell \in Cells /\ cell = [kind |-> kind, v |-> cell.v] /\ cell.kind = kind /\ cell.v \in Payloads(kind)
  BY DEF Cells, CellsOf
<1>2. kind = "int" => cell.v \in -SignBit..SignBit - 1
  BY <1>1 DEF Payloads
<1>3. kind = "bool" => cell.v \in BOOLEAN
  BY <1>1 DEF Payloads
<1>4. kind = "uuid" => cell.v \in Seq(Bytes) /\ Len(cell.v) = IdWidth
  <2> SUFFICES ASSUME kind = "uuid" PROVE cell.v \in Seq(Bytes) /\ Len(cell.v) = IdWidth
    OBVIOUS
  <2>1. cell.v \in [1..IdWidth -> Bytes] /\ IdWidth \in Nat
    BY <1>1, KeyShape DEF Payloads
  <2> QED BY <2>1
<1>5. kind = "string" => cell.v \in Seq(Bytes)
  <2> SUFFICES ASSUME kind = "string" PROVE cell.v \in Seq(Bytes)
    OBVIOUS
  <2>1. cell.v \in UNION {[1..n -> Bytes] : n \in 0..MaxLen} /\ MaxLen \in Nat
    BY <1>1, KeyShape DEF Payloads
  <2>2. PICK n \in 0..MaxLen : cell.v \in [1..n -> Bytes]
    BY <2>1
  <2> QED BY <2>1, <2>2
<1> QED BY <1>1, <1>2, <1>3, <1>4, <1>5

\* What is written for a cell.
LEMMA CodeOf ==
    ASSUME NEW kind \in Kinds, NEW cell \in CellsOf(kind), NEW buf \in Seq(Bytes)
    PROVE  /\ Code[cell] \in Seq(Bytes) /\ appendOrderedColumn(buf, cell) = buf \o Code[cell]
           /\ kind = "int" => Code[cell] = BigEndian(cell.v + SignBit)
           /\ kind = "bool" => Code[cell] = IF cell.v THEN <<1>> ELSE <<0>>
           /\ kind = "uuid" => Code[cell] = cell.v
           /\ kind = "string" => Code[cell] = Escaped(cell.v) \o <<0, 0>>
<1>0. 0 \in Bytes /\ 1 \in Bytes /\ <<>> \in Seq(Bytes)
  BY KeyShape DEF Bytes
<1>1. Code[cell] = appendOrderedColumn(<<>>, cell) /\ cell.kind = kind
  BY CellIs DEF Code
<1>2. \A a \in Seq(Bytes) : <<>> \o a = a
  BY ConcatEmptySeq
<1>3. CASE kind = "int"
  <2>1. ((cell.v % Span(Width)) + SignBit) % Span(Width) = cell.v + SignBit
    BY <1>3, CellIs, FlippedIs
  <2>2. BigEndian(cell.v + SignBit) \in Seq(Bytes)
    BY <1>3, CellIs, FlippedIs, BigEndianIs
  <2>3. \A b : appendOrderedColumn(b, cell) = b \o BigEndian(cell.v + SignBit)
    BY <1>1, <1>3, <2>1 DEF appendOrderedColumn
  <2> QED BY <1>1, <1>2, <1>3, <2>2, <2>3
<1>4. CASE kind = "bool"
  <2> DEFINE c == IF cell.v THEN <<1>> ELSE <<0>>
  <2>1. c \in Seq(Bytes)
    BY <1>0
  <2>2. \A b : appendOrderedColumn(b, cell) = b \o c
    BY <1>1, <1>4 DEF appendOrderedColumn
  <2>3. Code[cell] = c
    <3> HIDE DEF c
    <3> QED BY <1>1, <1>2, <2>1, <2>2
  <2> QED BY <1>4, <2>1, <2>2, <2>3
<1>5. CASE kind = "uuid"
  <2>1. \A b : appendOrderedColumn(b, cell) = b \o cell.v
    BY <1>1, <1>5 DEF appendOrderedColumn
  <2>2. cell.v \in Seq(Bytes)
    BY <1>5, CellIs
  <2> QED BY <1>1, <1>2, <1>5, <2>1, <2>2
<1>6. CASE kind = "string"
  <2> DEFINE c == Escaped(cell.v) \o <<0, 0>>
  <2>1. cell.v \in Seq(Bytes)
    BY <1>6, CellIs
  <2>2. c \in Seq(Bytes)
    BY <1>0, <2>1, TerminatedIs, EscapeIs, ConcatProperties
  <2>3. \A b \in Seq(Bytes) : appendOrderedColumn(b, cell) = b \o c
    <3>1. \A b : appendOrderedColumn(b, cell) = appendEscapedTerminated(b, cell.v)
      BY <1>1, <1>6 DEF appendOrderedColumn
    <3>2. \A b \in Seq(Bytes) : appendEscapedTerminated(b, cell.v) = b \o c
      BY <2>1, TerminatedIs
    <3> QED BY <3>1, <3>2, Zenon
  <2>4. Code[cell] = c
    <3> HIDE DEF c
    <3> QED BY <1>0, <1>1, <1>2, <2>2, <2>3
  <2> QED BY <1>6, <2>2, <2>3, <2>4
<1> QED BY <1>3, <1>4, <1>5, <1>6 DEF Kinds

\* The codes of two cells of a kind part as the cells are ordered, and the cells are.
LEMMA CellsPart ==
    ASSUME NEW kind \in Kinds, NEW c \in CellsOf(kind), NEW d \in CellsOf(kind), CellLess(c, d)
    PROVE  Parts(Code[c], Code[d])
<1>0. c.kind = kind /\ d.kind = kind /\ <<>> \in Seq(Bytes)
  BY CellIs, EmptySeq
<1>1. CASE kind = "int"
  <2> DEFINE m == c.v + SignBit
             n == d.v + SignBit
  <2>1. c.v \in -SignBit..SignBit - 1 /\ d.v \in -SignBit..SignBit - 1
    BY <1>1, CellIs
  <2>2. c.v < d.v
    BY <1>0, <1>1 DEF CellLess
  <2>3. m \in Nat /\ n \in Nat /\ n < Span(Width) /\ SignBit \in Nat
    BY <2>1, FlippedIs
  <2>4. m < n
    BY <2>1, <2>2, <2>3
  <2>5. Code[c] = BigEndian(m) /\ Code[d] = BigEndian(n)
    BY <1>0, <1>1, CodeOf
  <2> HIDE DEF m, n
  <2> QED BY <2>3, <2>4, <2>5, BigEndianKeepsOrder
<1>2. CASE kind = "bool"
  <2>1. ~c.v /\ d.v
    BY <1>0, <1>2 DEF CellLess
  <2>2. Code[c] = <<0>> /\ Code[d] = <<1>>
    BY <1>0, <1>2, <2>1, CodeOf
  <2>3. PartsAt(<<0>>, <<1>>, 1)
    BY DEF PartsAt
  <2> QED BY <2>2, <2>3 DEF Parts, PartsAt
<1>3. CASE kind = "uuid"
  <2>1. c.v \in Seq(Bytes) /\ d.v \in Seq(Bytes) /\ Len(c.v) = Len(d.v)
    BY <1>3, CellIs
  <2>2. BytesLess(c.v, d.v)
    BY <1>0, <1>3 DEF CellLess
  <2>3. IsPrefix(c.v, d.v) => c.v = d.v
    <3> SUFFICES ASSUME IsPrefix(c.v, d.v) PROVE c.v = d.v
      OBVIOUS
    <3>1. \A i \in 1..Len(c.v) : c.v[i] = d.v[i]
      BY <2>1, PrefixIs
    <3> QED BY <2>1, <3>1, SeqEqual
  <2>4. Parts(c.v, d.v)
    BY <2>1, <2>2, <2>3, BytesLessIs
  <2>5. Code[c] = c.v /\ Code[d] = d.v
    BY <1>0, <1>3, CodeOf
  <2> QED BY <2>4, <2>5
<1>4. CASE kind = "string"
  <2>1. c.v \in Seq(Bytes) /\ d.v \in Seq(Bytes)
    BY <1>4, CellIs
  <2>2. BytesLess(c.v, d.v)
    BY <1>0, <1>4 DEF CellLess
  <2>3. Code[c] = Escaped(c.v) \o <<0, 0>> /\ Code[d] = Escaped(d.v) \o <<0, 0>>
    BY <1>0, <1>4, CodeOf
  <2> QED BY <2>1, <2>2, <2>3, StringsPart
<1> QED BY <1>1, <1>2, <1>3, <1>4 DEF Kinds

LEMMA CellsTotal ==
    ASSUME NEW kind \in Kinds, NEW c \in CellsOf(kind), NEW d \in CellsOf(kind), c # d
    PROVE  CellLess(c, d) \/ CellLess(d, c)
<1>0. c.kind = kind /\ d.kind = kind /\ c.v # d.v
  BY CellIs
<1>1. CASE kind = "int"
  <2>1. c.v \in -SignBit..SignBit - 1 /\ d.v \in -SignBit..SignBit - 1 /\ SignBit \in Nat
    BY <1>1, CellIs, FlippedIs
  <2>2. c.v < d.v \/ d.v < c.v
    BY <1>0, <2>1
  <2> QED BY <1>0, <1>1, <2>2 DEF CellLess
<1>2. CASE kind = "bool"
  <2>1. c.v \in BOOLEAN /\ d.v \in BOOLEAN
    BY <1>2, CellIs
  <2> QED BY <1>0, <1>2, <2>1 DEF CellLess
<1>3. CASE kind = "uuid" \/ kind = "string"
  <2>1. c.v \in Seq(Bytes) /\ d.v \in Seq(Bytes)
    BY <1>3, CellIs
  <2>2. BytesLess(c.v, d.v) \/ BytesLess(d.v, c.v)
    BY <1>0, <2>1, BytesTotal
  <2> QED BY <1>0, <1>3, <2>2 DEF CellLess
<1> QED BY <1>1, <1>2, <1>3 DEF Kinds

----------------------------------------------------------------------------
(* Tuples of cells.                                                        *)

KeyFold == INSTANCE LeftFold WITH op <- appendOrderedColumn, V <- Seq(Bytes), E <- Cells
TupleFold == INSTANCE LeftFold WITH op <- Extend, V <- SUBSET Seq(Cells), E <- Kinds

\* The tuples of some columns have a cell of its kind for each.
TuplesOf(cols) == {x \in Seq(Cells) : Len(x) = Len(cols) /\ \A i \in 1..Len(cols) : x[i] \in CellsOf(cols[i])}

LEMMA TuplesAre ==
    ASSUME NEW cols \in Seq(Kinds)
    PROVE  Tuples(cols) = TuplesOf(cols)
<1> DEFINE X == {l \in Seq(Kinds) : TupleFold!Run({<<>>}, l) = TuplesOf(l)}
<1>0. \A l : Tuples(l) = TupleFold!Run({<<>>}, l)
  BY DEF Tuples, TupleFold!Run, FoldLeft, TupleFold!FoldLeft, MapThenFoldSet, TupleFold!MapThenFoldSet,
         Max, TupleFold!Max
<1>1. TupleFold!Closed
  <2>1. ASSUME NEW T \in SUBSET Seq(Cells), NEW kind \in Kinds PROVE Extend(T, kind) \in SUBSET Seq(Cells)
    <3>1. ASSUME NEW x \in T, NEW cell \in CellsOf(kind) PROVE Append(x, cell) \in Seq(Cells)
      <4>1. x \in Seq(Cells) /\ cell \in Cells
        BY CellIs
      <4> QED BY <4>1
    <3> QED BY <3>1 DEF Extend
  <2> QED BY <2>1 DEF TupleFold!Closed
<1>2. {<<>>} \in SUBSET Seq(Cells)
  BY EmptySeq
<1>3. <<>> \in X
  <2>1. TupleFold!Run({<<>>}, <<>>) = {<<>>}
    BY <1>1, <1>2, TupleFold!RunEmpty
  <2>2. TuplesOf(<<>>) = {<<>>}
    <3>1. \A x \in Seq(Cells) : Len(x) = 0 => x = <<>>
      BY EmptySeq
    <3>2. <<>> \in Seq(Cells) /\ Len(<<>>) = 0
      BY EmptySeq
    <3>3. \A x : x \in TuplesOf(<<>>) <=> x \in Seq(Cells) /\ Len(x) = 0
      BY <3>2 DEF TuplesOf
    <3> QED BY <3>1, <3>2, <3>3
  <2>3. <<>> \in Seq(Kinds)
    BY EmptySeq
  <2> QED BY <2>1, <2>2, <2>3
<1>4. ASSUME NEW l \in Seq(Kinds), NEW kind \in Kinds, l \in X PROVE Append(l, kind) \in X
  <2> DEFINE m == Append(l, kind)
             n == Len(l)
  <2>1. m \in Seq(Kinds) /\ n \in Nat /\ Len(m) = n + 1 /\ m[n + 1] = kind /\ \A i \in 1..n : m[i] = l[i]
    OBVIOUS
  <2>2. TupleFold!Run({<<>>}, m) = Extend(TuplesOf(l), kind)
    <3>1. TupleFold!Run({<<>>}, l) = TuplesOf(l)
      BY <1>4
    <3>2. TupleFold!Run({<<>>}, Append(l, kind)) = Extend(TupleFold!Run({<<>>}, l), kind)
      BY <1>1, <1>2, TupleFold!RunAppend
    <3> QED BY <3>1, <3>2
  <2> HIDE DEF m, X
  <2>3. ASSUME NEW x \in Seq(Cells), Len(x) = n, \A i \in 1..n : x[i] \in CellsOf(l[i]), NEW cell \in CellsOf(kind)
        PROVE  Append(x, cell) \in TuplesOf(m)
    <3>1. cell \in Cells
      BY CellIs
    <3>2. /\ Append(x, cell) \in Seq(Cells) /\ Len(Append(x, cell)) = n + 1 /\ Append(x, cell)[n + 1] = cell
          /\ \A i \in 1..n : Append(x, cell)[i] = x[i]
      BY <2>1, <2>3, <3>1
    <3>3. \A i \in 1..Len(m) : Append(x, cell)[i] \in CellsOf(m[i])
      BY <2>1, <2>3, <3>2
    <3> QED BY <2>1, <3>2, <3>3 DEF TuplesOf
  <2>4. ASSUME NEW y \in TuplesOf(m) PROVE y \in Extend(TuplesOf(l), kind)
    <3>1. y \in Seq(Cells) /\ Len(y) = n + 1 /\ \A i \in 1..n + 1 : y[i] \in CellsOf(m[i])
      BY <2>1 DEF TuplesOf
    <3> DEFINE x == SubSeq(y, 1, n)
               cell == y[n + 1]
    <3>2. x \in Seq(Cells) /\ Len(x) = n /\ (\A i \in 1..n : x[i] = y[i]) /\ y = Append(x, cell)
      BY <2>1, <3>1
    <3>3. cell \in CellsOf(kind) /\ \A i \in 1..n : x[i] \in CellsOf(l[i])
      BY <2>1, <3>1, <3>2
    <3> HIDE DEF x, cell
    <3>4. x \in TuplesOf(l)
      BY <3>2, <3>3 DEF TuplesOf
    <3> QED BY <3>2, <3>3, <3>4 DEF Extend
  <2>5. Extend(TuplesOf(l), kind) \subseteq TuplesOf(m)
    <3> SUFFICES ASSUME NEW e \in Extend(TuplesOf(l), kind) PROVE e \in TuplesOf(m)
      OBVIOUS
    <3>1. PICK x \in TuplesOf(l), cell \in CellsOf(kind) : e = Append(x, cell)
      BY DEF Extend
    <3>2. x \in Seq(Cells) /\ Len(x) = n /\ \A i \in 1..n : x[i] \in CellsOf(l[i])
      BY DEF TuplesOf
    <3> QED BY <2>3, <3>1, <3>2
  <2>6. TupleFold!Run({<<>>}, m) = TuplesOf(m)
    BY <2>2, <2>4, <2>5
  <2> QED BY <2>1, <2>6 DEF m, X
<1>5. Seq(Kinds) \subseteq X
  <2> HIDE DEF X
  <2> QED BY <1>3, <1>4, TupleFold!SeqInduction
<1> QED BY <1>0, <1>5

\* Encoding is a fold that appends to the buffer.
LEMMA EncodeIs ==
    /\ KeyFold!Closed /\ KeyFold!Appends(Bytes, Code)
    /\ \A x : encodeCompositeKey(x) = KeyFold!Run(<<>>, x)
    /\ \A x \in Seq(Cells) : encodeCompositeKey(x) \in Seq(Bytes)
<1>1. ASSUME NEW cell \in Cells
      PROVE  Code[cell] \in Seq(Bytes) /\ \A buf \in Seq(Bytes) : appendOrderedColumn(buf, cell) = buf \o Code[cell]
  <2>1. PICK kind \in Kinds : cell \in CellsOf(kind)
    BY DEF Cells
  <2>2. <<>> \in Seq(Bytes)
    BY EmptySeq
  <2> QED BY <2>1, <2>2, CodeOf
<1>2. KeyFold!Appends(Bytes, Code)
  BY <1>1, Zenon DEF KeyFold!Appends
<1>3. KeyFold!Closed
  <2>1. ASSUME NEW buf \in Seq(Bytes), NEW cell \in Cells PROVE appendOrderedColumn(buf, cell) \in Seq(Bytes)
    BY <1>1, ConcatProperties
  <2> QED BY <2>1 DEF KeyFold!Closed
<1>4. \A x : encodeCompositeKey(x) = KeyFold!Run(<<>>, x)
  BY DEF encodeCompositeKey, KeyFold!Run, FoldLeft, KeyFold!FoldLeft, MapThenFoldSet, KeyFold!MapThenFoldSet,
         Max, KeyFold!Max
<1>5. \A x \in Seq(Cells) : KeyFold!Run(<<>>, x) \in Seq(Bytes)
  BY <1>3, EmptySeq, KeyFold!RunType
<1> QED BY <1>2, <1>3, <1>4, <1>5

\* The encoding of a tuple, up to a cell of it and from there on.
LEMMA EncodeUpTo ==
    ASSUME NEW x \in Seq(Cells), NEW i \in 1..Len(x)
    PROVE  /\ encodeCompositeKey(SubSeq(x, 1, i - 1)) \in Seq(Bytes) /\ Code[x[i]] \in Seq(Bytes)
           /\ encodeCompositeKey(SubSeq(x, 1, i)) = encodeCompositeKey(SubSeq(x, 1, i - 1)) \o Code[x[i]]
           /\ \E u \in Seq(Bytes) : encodeCompositeKey(x) = encodeCompositeKey(SubSeq(x, 1, i)) \o u
<1>1. /\ KeyFold!Run(<<>>, SubSeq(x, 1, i - 1)) \in Seq(Bytes) /\ Code[x[i]] \in Seq(Bytes)
      /\ KeyFold!Run(<<>>, SubSeq(x, 1, i)) = KeyFold!Run(<<>>, SubSeq(x, 1, i - 1)) \o Code[x[i]]
      /\ \E u \in Seq(Bytes) : KeyFold!Run(<<>>, x) = KeyFold!Run(<<>>, SubSeq(x, 1, i)) \o u
  <2>1. KeyFold!Appends(Bytes, Code)
    BY EncodeIs
  <2> QED BY <2>1, KeyFold!RunReaches
<1> QED BY <1>1, EncodeIs, Zenon

\* The encodings of two tuples part as the tuples are ordered, and the tuples are.
LEMMA TuplesPart ==
    ASSUME NEW cols \in Seq(Kinds), NEW x \in TuplesOf(cols), NEW y \in TuplesOf(cols), TupleLess(x, y)
    PROVE  Parts(encodeCompositeKey(x), encodeCompositeKey(y))
<1>0. x \in Seq(Cells) /\ y \in Seq(Cells) /\ Len(x) = Len(cols) /\ Len(y) = Len(cols) /\ DOMAIN x = 1..Len(cols)
  BY DEF TuplesOf
<1>1. PICK i \in 1..Len(cols) : CellLess(x[i], y[i]) /\ \A j \in 1..i - 1 : x[j] = y[j]
  BY <1>0 DEF TupleLess
<1>2. cols[i] \in Kinds /\ x[i] \in CellsOf(cols[i]) /\ y[i] \in CellsOf(cols[i]) /\ i \in 1..Len(x) /\ i \in 1..Len(y)
  BY <1>0 DEF TuplesOf
<1>3. SubSeq(x, 1, i - 1) = SubSeq(y, 1, i - 1)
  <2>1. /\ SubSeq(x, 1, i - 1) \in Seq(Cells) /\ Len(SubSeq(x, 1, i - 1)) = i - 1
        /\ SubSeq(y, 1, i - 1) \in Seq(Cells) /\ Len(SubSeq(y, 1, i - 1)) = i - 1
        /\ \A j \in 1..i - 1 : SubSeq(x, 1, i - 1)[j] = x[j] /\ SubSeq(y, 1, i - 1)[j] = y[j]
    BY <1>0, <1>2
  <2> QED BY <1>1, <2>1, SeqEqual
<1> DEFINE p == encodeCompositeKey(SubSeq(x, 1, i - 1))
           c == Code[x[i]]
           d == Code[y[i]]
           a == encodeCompositeKey(SubSeq(x, 1, i))
           b == encodeCompositeKey(SubSeq(y, 1, i))
<1>4. p \in Seq(Bytes) /\ c \in Seq(Bytes) /\ a = p \o c /\ \E u \in Seq(Bytes) : encodeCompositeKey(x) = a \o u
  BY <1>0, <1>2, EncodeUpTo
<1>5. d \in Seq(Bytes) /\ b = p \o d /\ \E v \in Seq(Bytes) : encodeCompositeKey(y) = b \o v
  BY <1>0, <1>2, <1>3, EncodeUpTo
<1>6. Parts(c, d)
  BY <1>1, <1>2, CellsPart
<1> HIDE DEF p, c, d, a, b
<1>7. Parts(a, b) /\ a \in Seq(Bytes) /\ b \in Seq(Bytes)
  BY <1>4, <1>5, <1>6, PartsAfter, ConcatProperties
<1>8. PICK u \in Seq(Bytes) : encodeCompositeKey(x) = a \o u
  BY <1>4
<1>9. PICK v \in Seq(Bytes) : encodeCompositeKey(y) = b \o v
  BY <1>5
<1>10. Parts(a \o u, b \o v)
  BY <1>7, PartsOnwards
<1> QED BY <1>8, <1>9, <1>10, Zenon

LEMMA TuplesTotal ==
    ASSUME NEW cols \in Seq(Kinds), NEW x \in TuplesOf(cols), NEW y \in TuplesOf(cols), x # y
    PROVE  TupleLess(x, y) \/ TupleLess(y, x)
<1> DEFINE D == {i \in 1..Len(cols) : x[i] # y[i]}
<1>0. /\ x \in Seq(Cells) /\ y \in Seq(Cells) /\ Len(x) = Len(cols) /\ Len(y) = Len(cols)
      /\ DOMAIN x = 1..Len(cols) /\ DOMAIN y = 1..Len(cols) /\ Len(cols) \in Nat
  BY DEF TuplesOf
<1>1. D # {}
  BY <1>0, SeqEqual
<1>2. PICK i \in D : \A j \in D : i <= j
  <2>1. D \in SUBSET Nat
    BY <1>0
  <2> QED BY <1>1, <2>1, NatMin
<1>3. \A j \in 1..i - 1 : x[j] = y[j]
  BY <1>0, <1>2
<1>4. cols[i] \in Kinds /\ x[i] \in CellsOf(cols[i]) /\ y[i] \in CellsOf(cols[i]) /\ x[i] # y[i] /\ i \in 1..Len(cols)
  BY <1>2 DEF TuplesOf
<1>5. CellLess(x[i], y[i]) \/ CellLess(y[i], x[i])
  BY <1>4, CellsTotal
<1> QED BY <1>0, <1>3, <1>4, <1>5 DEF TupleLess

\* Tuples of other lengths than the index's: the beginning of a tuple is one of its first columns.
LEMMA BeginningIs ==
    ASSUME NEW cols \in Seq(Kinds), NEW x \in TuplesOf(cols), NEW n \in 1..Len(cols)
    PROVE  SubSeq(cols, 1, n) \in Seq(Kinds) /\ SubSeq(x, 1, n) \in TuplesOf(SubSeq(cols, 1, n))
<1>0. x \in Seq(Cells) /\ Len(x) = Len(cols) /\ (\A i \in 1..Len(cols) : x[i] \in CellsOf(cols[i])) /\ Len(cols) \in Nat
  BY DEF TuplesOf
<1>1. SubSeq(cols, 1, n) \in Seq(Kinds) /\ Len(SubSeq(cols, 1, n)) = n /\ \A i \in 1..n : SubSeq(cols, 1, n)[i] = cols[i]
  OBVIOUS
<1>2. SubSeq(x, 1, n) \in Seq(Cells) /\ Len(SubSeq(x, 1, n)) = n /\ \A i \in 1..n : SubSeq(x, 1, n)[i] = x[i]
  BY <1>0
<1> DEFINE k == SubSeq(cols, 1, n)
           y == SubSeq(x, 1, n)
<1>3. k \in Seq(Kinds) /\ y \in Seq(Cells) /\ Len(y) = Len(k)
  BY <1>1, <1>2
<1>4. \A i \in 1..Len(k) : y[i] \in CellsOf(k[i])
  BY <1>0, <1>1, <1>2
<1> HIDE DEF k, y
<1>5. y \in TuplesOf(k)
  BY <1>3, <1>4 DEF TuplesOf
<1> QED BY <1>3, <1>5 DEF k, y

\* Comparing two encodings is comparing the tuples.
LEMMA OrderIsKept ==
    ASSUME NEW cols \in Seq(Kinds)
    PROVE  EncodingKeepsOrder(cols)
<1> DEFINE enc == [x \in Tuples(cols) |-> encodeCompositeKey(x)]
<1> SUFFICES ASSUME NEW x \in Tuples(cols), NEW y \in Tuples(cols)
             PROVE  TupleLess(x, y) <=> BytesLess(enc[x], enc[y])
  BY DEF EncodingKeepsOrder
<1> DEFINE a == encodeCompositeKey(x)
           b == encodeCompositeKey(y)
<1>1. enc[x] = a /\ enc[y] = b
  OBVIOUS
<1>2. x \in TuplesOf(cols) /\ y \in TuplesOf(cols)
  BY TuplesAre
<1>3. a \in Seq(Bytes) /\ b \in Seq(Bytes)
  BY <1>2, EncodeIs DEF TuplesOf
<1>4. TupleLess(x, y) => Parts(a, b)
  BY <1>2, TuplesPart
<1>5. TupleLess(y, x) => Parts(b, a)
  BY <1>2, TuplesPart
<1>6. x = y => a = b
  OBVIOUS
<1> HIDE DEF enc, a, b
<1>7. TupleLess(x, y) => BytesLess(a, b)
  BY <1>3, <1>4, PartsLess
<1>8. TupleLess(y, x) => ~BytesLess(a, b)
  BY <1>3, <1>5, PartsLess
<1>9. x = y => ~BytesLess(a, b)
  BY <1>3, <1>6, NotBelowItself
<1> QED BY <1>1, <1>2, <1>7, <1>8, <1>9, TuplesTotal

\* A search for the first columns finds the tuples that have them.
LEMMA PrefixIsFound ==
    ASSUME NEW cols \in Seq(Kinds)
    PROVE  PrefixIsExact(cols)
<1> DEFINE enc == [x \in Tuples(cols) |-> encodeCompositeKey(x)]
<1> SUFFICES ASSUME NEW n \in 1..Len(cols), NEW c \in Tuples(SubSeq(cols, 1, n)), NEW x \in Tuples(cols)
             PROVE  /\ InSnapshotPrefix(enc[x], encodeCompositeKey(c)) <=> SubSeq(x, 1, n) = c
                    /\ InPrefixLookup(enc[x], encodeCompositeKey(c)) <=> SubSeq(x, 1, n) = c
  BY DEF PrefixIsExact
<1> DEFINE p == encodeCompositeKey(c)
           key == encodeCompositeKey(x)
           y == SubSeq(x, 1, n)
           q == encodeCompositeKey(y)
<1>1. enc[x] = key
  OBVIOUS
<1>2. x \in TuplesOf(cols) /\ SubSeq(cols, 1, n) \in Seq(Kinds) /\ y \in TuplesOf(SubSeq(cols, 1, n))
  BY TuplesAre, BeginningIs
<1>3. c \in TuplesOf(SubSeq(cols, 1, n))
  BY <1>2, TuplesAre
<1>4. p \in Seq(Bytes) /\ key \in Seq(Bytes) /\ q \in Seq(Bytes)
  BY <1>2, <1>3, EncodeIs DEF TuplesOf
<1>5. PICK u \in Seq(Bytes) : key = q \o u
  BY <1>2, EncodeUpTo DEF TuplesOf
<1>6. y = c => q = p
  OBVIOUS
<1>7. TupleLess(y, c) => Parts(q, p)
  BY <1>2, <1>3, TuplesPart
<1>8. TupleLess(c, y) => Parts(p, q)
  BY <1>2, <1>3, TuplesPart
<1>9. y # c => TupleLess(y, c) \/ TupleLess(c, y)
  BY <1>2, <1>3, TuplesTotal
<1> HIDE DEF enc, p, key, y, q
<1>10. CASE y = c
  <2>1. Len(p) \in Nat /\ Len(key) = Len(p) + Len(u) /\ Len(u) \in Nat /\ \A i \in 1..Len(p) : key[i] = p[i]
    BY <1>4, <1>5, <1>6, <1>10
  <2>2. IsPrefix(p, key)
    <3>1. Len(p) <= Len(key) /\ \A i \in 1..Len(p) : p[i] = key[i]
      BY <2>1
    <3> QED BY <1>4, <3>1, PrefixIs
  <2> QED BY <1>1, <1>4, <1>10, <2>2, SearchesFindThePrefix DEF p, y
<1>11. CASE y # c
  <2>1. Parts(q, p) \/ Parts(p, q)
    BY <1>7, <1>8, <1>9, <1>11
  <2>2. Parts(key, p) \/ Parts(p, key)
    <3>1. CASE Parts(q, p)
      <4>1. <<>> \in Seq(Bytes) /\ p \o <<>> = p
        BY <1>4, EmptySeq, ConcatEmptySeq
      <4>2. Parts(q \o u, p \o <<>>)
        BY <1>4, <3>1, <4>1, PartsOnwards
      <4> QED BY <1>5, <4>1, <4>2
    <3>2. CASE Parts(p, q)
      BY <1>4, <1>5, <3>2, PartsOnRight
    <3> QED BY <2>1, <3>1, <3>2
  <2>3. ~IsPrefix(p, key)
    BY <1>4, <2>2, PartsOneWay
  <2> QED BY <1>1, <1>4, <1>11, <2>2, <2>3, SearchesFindThePrefix DEF p, y
<1> QED BY <1>10, <1>11

(* Two composite keys compare as their tuples do, and each of the two       *)
(* searches of an index finds exactly the tuples that begin with the cells  *)
(* looked for (encodeCompositeKey, snapshotPrefix, prefixLookup), for any   *)
(* sizes of bytes, integers, UUIDs, strings and indexes.                    *)
THEOREM KeysStandForTuples == KeysSortLikeTuples
<1>1. ASSUME NEW cols \in Columns PROVE cols \in Seq(Kinds)
  <2>1. PICK n \in 1..MaxCols : cols \in [1..n -> Kinds]
    BY DEF Columns
  <2>2. n \in Nat
    BY KeyShape
  <2> QED BY <2>1, <2>2
<1> QED BY <1>1, OrderIsKept, PrefixIsFound DEF KeysSortLikeTuples
=============================================================================
