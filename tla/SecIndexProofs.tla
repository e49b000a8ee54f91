--------------------------- MODULE SecIndexProofs ---------------------------
(***************************************************************************)
(* Proofs about SecIndex, for every number of keys, shards, writers and    *)
(* readers and for both kinds of index.                                    *)
(***************************************************************************)
EXTENDS SecIndex, FoldFacts

----------------------------------------------------------------------------
(* Lists.                                                                  *)

\* What a list holds is what it holds between its ends.
LEMMA RangeIsBetween ==
    ASSUME NEW S, NEW l \in Seq(S)
    PROVE  Range(l) = Between(l, 1, Len(l)) /\ Len(l) \in Nat /\ Range(l) \subseteq S
BY DEF Range, Between

\* An append adds the last element and leaves what was there.
LEMMA BetweenAppend ==
    ASSUME NEW S, NEW l \in Seq(S), NEW e \in S
    PROVE  /\ Append(l, e) \in Seq(S) /\ Len(Append(l, e)) = Len(l) + 1
           /\ Append(l, e)[Len(l) + 1] = e
           /\ Range(Append(l, e)) = Range(l) \cup {e}
           /\ \A lo \in Nat \ {0}, hi \in Nat : lo <= Len(l) + 1 /\ hi <= Len(l) =>
                 /\ Between(Append(l, e), lo, hi) = Between(l, lo, hi)
                 /\ Between(Append(l, e), lo, Len(l) + 1) = Between(l, lo, Len(l)) \cup {e}
<1>1. Append(l, e) \in Seq(S) /\ Len(Append(l, e)) = Len(l) + 1 /\ Len(l) \in Nat
  OBVIOUS
<1>2. Append(l, e)[Len(l) + 1] = e /\ \A n \in 1..Len(l) : Append(l, e)[n] = l[n]
  OBVIOUS
<1>3. ASSUME NEW lo \in Nat \ {0}, NEW hi \in Nat, lo <= Len(l) + 1, hi <= Len(l)
      PROVE  /\ Between(Append(l, e), lo, hi) = Between(l, lo, hi)
             /\ Between(Append(l, e), lo, Len(l) + 1) = Between(l, lo, Len(l)) \cup {e}
  <2>1. Between(Append(l, e), lo, hi) = Between(l, lo, hi)
    BY <1>2, <1>3 DEF Between
  <2>2. lo..(Len(l) + 1) = (lo..Len(l)) \cup {Len(l) + 1}
    BY <1>3
  <2>3. Between(Append(l, e), lo, Len(l) + 1) = Between(l, lo, Len(l)) \cup {e}
    BY <1>2, <1>3, <2>2 DEF Between
  <2> QED BY <2>1, <2>3
<1>4. Range(Append(l, e)) = Range(l) \cup {e}
  <2>1. Between(Append(l, e), 1, Len(l) + 1) = Between(l, 1, Len(l)) \cup {e}
    BY <1>1, <1>3
  <2> QED BY <1>1, <2>1, RangeIsBetween
<1> QED BY <1>1, <1>2, <1>3, <1>4

\* Dropping a prefix leaves what was beyond it.
LEMMA BetweenDrop ==
    ASSUME NEW S, NEW l \in Seq(S), NEW k \in Nat, k <= Len(l)
    PROVE  /\ SubSeq(l, k + 1, Len(l)) \in Seq(S)
           /\ Len(SubSeq(l, k + 1, Len(l))) = Len(l) - k
           /\ Between(SubSeq(l, k + 1, Len(l)), 1, Len(l) - k) = Between(l, k + 1, Len(l))
<1> DEFINE m == SubSeq(l, k + 1, Len(l))
<1>1. m \in Seq(S) /\ Len(m) = Len(l) - k
  OBVIOUS
<1>2. \A n \in 1..(Len(l) - k) : m[n] = l[n + k]
  OBVIOUS
<1>3. \A n \in (k + 1)..Len(l) : m[n - k] = l[n] /\ n - k \in 1..(Len(l) - k)
  OBVIOUS
<1> HIDE DEF m
<1>4. Between(m, 1, Len(l) - k) = Between(l, k + 1, Len(l))
  BY <1>2, <1>3 DEF Between
<1> QED BY <1>1, <1>4 DEF m

\* A list holds what its parts hold.
LEMMA RangeSplits ==
    ASSUME NEW S, NEW l \in Seq(S), NEW m \in Seq(S)
    PROVE  /\ l \o m \in Seq(S)
           /\ Range(l \o m) = Range(l) \cup Range(m)
           /\ l # <<>> => /\ Head(l) \in S /\ Tail(l) \in Seq(S)
                          /\ Range(l) = {Head(l)} \cup Range(Tail(l))
<1>1. l \o m \in Seq(S) /\ Len(l \o m) = Len(l) + Len(m)
  OBVIOUS
<1>2. Range(l \o m) = Range(l) \cup Range(m)
  <2>1. \A n \in 1..Len(l) : (l \o m)[n] = l[n]
    OBVIOUS
  <2>2. \A n \in 1..Len(m) : (l \o m)[n + Len(l)] = m[n] /\ n + Len(l) \in 1..(Len(l) + Len(m))
    OBVIOUS
  <2>3. \A n \in 1..(Len(l) + Len(m)) : n \in 1..Len(l) \/ (n - Len(l) \in 1..Len(m) /\ (l \o m)[n] = m[n - Len(l)])
    OBVIOUS
  <2>4. Between(l \o m, 1, Len(l) + Len(m)) = Between(l, 1, Len(l)) \cup Between(m, 1, Len(m))
    <3>1. \A n \in 1..Len(l) : n \in 1..(Len(l) + Len(m))
      OBVIOUS
    <3>2. \A x : x \in Between(l \o m, 1, Len(l) + Len(m)) => x \in Between(l, 1, Len(l)) \cup Between(m, 1, Len(m))
      BY <2>1, <2>3 DEF Between
    <3>3. \A x : x \in Between(l, 1, Len(l)) \cup Between(m, 1, Len(m)) => x \in Between(l \o m, 1, Len(l) + Len(m))
      BY <2>1, <2>2, <3>1 DEF Between
    <3> QED BY <3>2, <3>3
  <2> QED BY <1>1, <2>4, RangeIsBetween
<1>3. ASSUME l # <<>>
      PROVE  /\ Head(l) \in S /\ Tail(l) \in Seq(S)
             /\ Range(l) = {Head(l)} \cup Range(Tail(l))
  <2>1. Head(l) \in S /\ Tail(l) \in Seq(S) /\ Len(Tail(l)) = Len(l) - 1 /\ Head(l) = l[1] /\ Len(l) >= 1
    BY <1>3
  <2>2. \A n \in 1..(Len(l) - 1) : Tail(l)[n] = l[n + 1] /\ n + 1 \in 1..Len(l)
    BY <1>3
  <2>3. \A n \in 1..Len(l) : n = 1 \/ (n - 1 \in 1..(Len(l) - 1) /\ Tail(l)[n - 1] = l[n])
    BY <1>3
  <2>4. Between(l, 1, Len(l)) = {Head(l)} \cup Between(Tail(l), 1, Len(l) - 1)
    <3>1. \A x : x \in Between(l, 1, Len(l)) => x = l[1] \/ x \in Between(Tail(l), 1, Len(l) - 1)
      BY <2>3 DEF Between
    <3>2. \A x : x \in Between(Tail(l), 1, Len(l) - 1) => x \in Between(l, 1, Len(l))
      BY <2>2 DEF Between
    <3>3. l[1] \in Between(l, 1, Len(l))
      BY <2>1 DEF Between
    <3> QED BY <2>1, <3>1, <3>2, <3>3
  <2> QED BY <2>1, <2>4, RangeIsBetween
<1> QED BY <1>1, <1>2, <1>3

----------------------------------------------------------------------------
(* What each action does to the lists, seen from a key.                    *)

\* The lists and their marks have their ranges.
LEMMA ListFacts ==
    ASSUME TypeOK, ListsFit, NEW s \in Shard
    PROVE  /\ dirtyRead[s] \in Seq(PK) /\ dirtyDel[s] \in Seq(PK)
           /\ Len(dirtyRead[s]) \in Nat /\ Len(dirtyDel[s]) \in Nat
           /\ taken[s].r \in Nat /\ taken[s].d \in Nat
           /\ Kept(s).r \in Nat /\ Kept(s).d \in Nat /\ Kept(s).r + 1 \in Nat \ {0} /\ Kept(s).d + 1 \in Nat \ {0}
           /\ Counted(s) \in Nat /\ Counted(s) <= Len(dirtyRead[s]) /\ Len(dirtyRead[s]) <= Counted(s) + 1
           /\ Kept(s).r <= Counted(s) /\ Kept(s).d <= Len(dirtyDel[s])
<1>1. /\ dirtyRead[s] \in Seq(PK) /\ dirtyDel[s] \in Seq(PK)
      /\ Len(dirtyRead[s]) \in Nat /\ Len(dirtyDel[s]) \in Nat
      /\ taken[s].r \in Nat /\ taken[s].d \in Nat
  BY DEF TypeOK
<1>2. Kept(s).r \in Nat /\ Kept(s).d \in Nat
  BY <1>1 DEF Kept, NoRange
<1>3. lock[s].kind = "read" => Len(dirtyRead[s]) >= 1
  BY <1>1 DEF ListsFit
<1>4. Kept(s).r <= Counted(s) /\ Kept(s).d <= Len(dirtyDel[s])
  BY DEF ListsFit
<1> QED BY <1>1, <1>2, <1>3, <1>4 DEF Counted

\* Nothing changes for a key when neither the lists nor the marks do.
LEMMA ViewsSame ==
    ASSUME ShardBounds, UNCHANGED <<dirtyRead, dirtyDel, lock>>,
           \A s \in Shard : Kept(s)' = Kept(s), NEW p \in PK
    PROVE  /\ LateRead(p)' = LateRead(p) /\ LateDel(p)' = LateDel(p) /\ Late(p)' = Late(p)
           /\ InRead(p)' = InRead(p) /\ InDel(p)' = InDel(p) /\ Covered(p)' = Covered(p)
           /\ Overlaid(p)' = Overlaid(p) /\ OverlaidLate(p)' = OverlaidLate(p)
<1>1. shardOf[p] \in Shard
  BY DEF ShardBounds
<1>2. Kept(shardOf[p])' = Kept(shardOf[p])
  BY <1>1
<1>3. Counted(shardOf[p])' = Counted(shardOf[p])
  BY DEF Counted
<1> HIDE DEF Kept, Counted
<1> QED BY <1>2, <1>3 DEF LateRead, LateDel, Late, InRead, InDel, Covered, Overlaid, OverlaidLate

\* A write of p puts p at the end of the overlay list and counts nothing yet.
LEMMA PutViews ==
    ASSUME ShardBounds, TypeOK, ListsFit, NEW p \in PK, NEW cell \in Cell, Put(p, cell)
    PROVE  /\ \A s \in Shard : Kept(s)' = Kept(s) /\ Counted(s)' = Counted(s)
           /\ \A q \in PK :
                /\ LateRead(q)' = (LateRead(q) \/ q = p) /\ LateDel(q)' = LateDel(q)
                /\ InRead(q)' = (InRead(q) \/ q = p) /\ InDel(q)' = InDel(q)
                /\ Covered(q)' = Covered(q)
                /\ Overlaid(q)' = Overlaid(q) /\ OverlaidLate(q)' = OverlaidLate(q)
<1> DEFINE t == shardOf[p]
<1>0. t \in Shard
  BY DEF ShardBounds
<1>1. /\ dirtyRead' = [dirtyRead EXCEPT ![t] = Append(@, p)] /\ UNCHANGED <<dirtyDel, taken, mpc, mshard>>
      /\ lock' = [lock EXCEPT ![t] = [kind |-> "read", pk |-> p]] /\ lock[t] = None
  BY DEF Put, Free, mergeVars
<1> DEFINE l == dirtyRead[t]
<1>2. l \in Seq(PK) /\ dirtyRead'[t] = Append(l, p) /\ \A s \in Shard \ {t} : dirtyRead'[s] = dirtyRead[s]
  BY <1>0, <1>1, ListFacts DEF TypeOK
<1>3. lock'[t].kind = "read" /\ lock[t].kind = "free" /\ \A s \in Shard \ {t} : lock'[s] = lock[s]
  BY <1>0, <1>1 DEF TypeOK, None
<1>4. Counted(t) = Len(l)
  BY <1>3 DEF Counted
<1>5. /\ Append(l, p) \in Seq(PK) /\ Len(Append(l, p)) = Len(l) + 1
      /\ Range(Append(l, p)) = Range(l) \cup {p}
      /\ \A lo \in Nat \ {0}, hi \in Nat : lo <= Len(l) + 1 /\ hi <= Len(l) =>
            /\ Between(Append(l, p), lo, hi) = Between(l, lo, hi)
            /\ Between(Append(l, p), lo, Len(l) + 1) = Between(l, lo, Len(l)) \cup {p}
  <2>1. l \in Seq(PK)
    BY <1>2
  <2> HIDE DEF l
  <2> QED BY <2>1, BetweenAppend, SMTT(30)
<1>6. \A s \in Shard : Kept(s)' = Kept(s)
  BY <1>1 DEF Kept
<1>7. \A s \in Shard : Counted(s)' = Counted(s)
  <2>1. Counted(t)' = Counted(t)
    BY <1>2, <1>3, <1>4, <1>5 DEF Counted
  <2> QED BY <1>2, <1>3, <2>1 DEF Counted
<1>9. ASSUME NEW q \in PK
      PROVE  /\ LateRead(q)' = (LateRead(q) \/ q = p) /\ LateDel(q)' = LateDel(q)
             /\ InRead(q)' = (InRead(q) \/ q = p) /\ InDel(q)' = InDel(q)
             /\ Covered(q)' = Covered(q)
             /\ Overlaid(q)' = Overlaid(q) /\ OverlaidLate(q)' = OverlaidLate(q)
  <2> DEFINE s == shardOf[q]
  <2>0. s \in Shard /\ Kept(s)' = Kept(s) /\ Counted(s)' = Counted(s)
    BY <1>6, <1>7 DEF ShardBounds
  <2>1. LateDel(q)' = LateDel(q) /\ InDel(q)' = InDel(q)
    BY <1>1, <2>0 DEF LateDel, InDel
  <2>2. CASE s # t
    <3>1. dirtyRead'[s] = dirtyRead[s] /\ q # p
      BY <1>2, <2>0, <2>2
    <3>2. LateRead(q)' = LateRead(q) /\ InRead(q)' = InRead(q)
      BY <2>0, <3>1 DEF LateRead, InRead
    <3>3. Covered(q)' = Covered(q)
      BY <1>1, <2>0, <3>1 DEF Covered
    <3>4. Overlaid(q)' = Overlaid(q) /\ OverlaidLate(q)' = OverlaidLate(q)
      BY <2>0, <3>1 DEF Overlaid, OverlaidLate
    <3>5. (LateRead(q) \/ q = p) = LateRead(q) /\ (InRead(q) \/ q = p) = InRead(q)
      BY <3>1 DEF LateRead, InRead
    <3> QED BY <2>1, <3>2, <3>3, <3>4, <3>5
  <2>3. CASE s = t
    <3>1. dirtyRead[s] = l /\ dirtyRead'[s] = Append(l, p)
      BY <1>2, <2>3
    <3>2. /\ Kept(s).r + 1 \in Nat \ {0} /\ Kept(s).r + 1 <= Len(l) + 1
          /\ Counted(s) \in Nat /\ Counted(s) <= Len(l) /\ Len(l) \in Nat
          /\ Kept(s).r \in Nat /\ Kept(s).r <= Len(l)
      BY <2>0, <2>3, ListFacts
    <3>3. LateRead(q)' = (LateRead(q) \/ q = p)
      BY <1>5, <2>0, <3>1, <3>2 DEF LateRead
    <3>4. InRead(q)' = (InRead(q) \/ q = p)
      BY <1>5, <3>1 DEF InRead
    <3>5. Overlaid(q)' = Overlaid(q) /\ OverlaidLate(q)' = OverlaidLate(q)
      BY <1>5, <2>0, <3>1, <3>2 DEF Overlaid, OverlaidLate
    <3>6. Covered(q)' = Covered(q)
      BY <1>1, <1>5, <2>0, <3>1, <3>2 DEF Covered
    <3> QED BY <2>1, <3>3, <3>4, <3>5, <3>6
  <2> QED BY <2>2, <2>3
<1> QED BY <1>6, <1>7, <1>9

\* A delete of p puts p at the end of the delete list.
LEMMA DeleteViews ==
    ASSUME ShardBounds, TypeOK, ListsFit, NEW p \in PK, Delete(p)
    PROVE  /\ \A s \in Shard : Kept(s)' = Kept(s) /\ Counted(s)' = Counted(s)
           /\ \A q \in PK :
                /\ LateDel(q)' = (LateDel(q) \/ q = p) /\ LateRead(q)' = LateRead(q)
                /\ InDel(q)' = (InDel(q) \/ q = p) /\ InRead(q)' = InRead(q)
                /\ Covered(q)' = Covered(q)
                /\ Overlaid(q)' = Overlaid(q) /\ OverlaidLate(q)' = OverlaidLate(q)
<1> DEFINE t == shardOf[p]
<1>0. t \in Shard
  BY DEF ShardBounds
<1>1. /\ dirtyDel' = [dirtyDel EXCEPT ![t] = Append(@, p)] /\ UNCHANGED <<dirtyRead, taken, mpc, mshard>>
      /\ lock' = [lock EXCEPT ![t] = [kind |-> "del", pk |-> p]] /\ lock[t] = None
  BY DEF Delete, Free, mergeVars
<1> DEFINE l == dirtyDel[t]
<1>2. l \in Seq(PK) /\ dirtyDel'[t] = Append(l, p) /\ \A s \in Shard \ {t} : dirtyDel'[s] = dirtyDel[s]
  BY <1>0, <1>1, ListFacts DEF TypeOK
<1>3. lock'[t].kind = "del" /\ lock[t].kind = "free" /\ \A s \in Shard \ {t} : lock'[s] = lock[s]
  BY <1>0, <1>1 DEF TypeOK, None
<1>5. /\ Append(l, p) \in Seq(PK) /\ Len(Append(l, p)) = Len(l) + 1
      /\ Range(Append(l, p)) = Range(l) \cup {p}
      /\ \A lo \in Nat \ {0}, hi \in Nat : lo <= Len(l) + 1 /\ hi <= Len(l) =>
            /\ Between(Append(l, p), lo, hi) = Between(l, lo, hi)
            /\ Between(Append(l, p), lo, Len(l) + 1) = Between(l, lo, Len(l)) \cup {p}
  <2>1. l \in Seq(PK)
    BY <1>2
  <2> HIDE DEF l
  <2> QED BY <2>1, BetweenAppend, SMTT(30)
<1>6. \A s \in Shard : Kept(s)' = Kept(s)
  BY <1>1 DEF Kept
<1>7. \A s \in Shard : Counted(s)' = Counted(s)
  <2>1. Counted(t)' = Counted(t)
    BY <1>1, <1>3 DEF Counted
  <2> QED BY <1>1, <1>3, <2>1 DEF Counted
<1>9. ASSUME NEW q \in PK
      PROVE  /\ LateDel(q)' = (LateDel(q) \/ q = p) /\ LateRead(q)' = LateRead(q)
             /\ InDel(q)' = (InDel(q) \/ q = p) /\ InRead(q)' = InRead(q)
             /\ Covered(q)' = Covered(q)
             /\ Overlaid(q)' = Overlaid(q) /\ OverlaidLate(q)' = OverlaidLate(q)
  <2> DEFINE s == shardOf[q]
  <2>0. s \in Shard /\ Kept(s)' = Kept(s) /\ Counted(s)' = Counted(s)
    BY <1>6, <1>7 DEF ShardBounds
  <2>1. LateRead(q)' = LateRead(q) /\ InRead(q)' = InRead(q)
    BY <1>1, <2>0 DEF LateRead, InRead
  <2>2. Overlaid(q)' = Overlaid(q) /\ OverlaidLate(q)' = OverlaidLate(q)
    BY <1>1, <2>0 DEF Overlaid, OverlaidLate
  <2>3. CASE s # t
    <3>1. dirtyDel'[s] = dirtyDel[s] /\ q # p
      BY <1>2, <2>0, <2>3
    <3>2. LateDel(q)' = LateDel(q) /\ InDel(q)' = InDel(q)
      BY <2>0, <3>1 DEF LateDel, InDel
    <3>3. Covered(q)' = Covered(q)
      BY <1>1, <2>0, <3>1 DEF Covered
    <3>4. (LateDel(q) \/ q = p) = LateDel(q) /\ (InDel(q) \/ q = p) = InDel(q)
      BY <3>1 DEF LateDel, InDel
    <3> QED BY <2>1, <2>2, <3>2, <3>3, <3>4
  <2>4. CASE s = t
    <3>1. dirtyDel[s] = l /\ dirtyDel'[s] = Append(l, p)
      BY <1>2, <2>4
    <3>2. /\ Kept(s).d + 1 \in Nat \ {0} /\ Kept(s).d + 1 <= Len(l) + 1
          /\ Kept(s).d \in Nat /\ Kept(s).d <= Len(l) /\ Len(l) \in Nat
      BY <2>0, <2>4, ListFacts
    <3>3. LateDel(q)' = (LateDel(q) \/ q = p)
      BY <1>5, <2>0, <3>1, <3>2 DEF LateDel
    <3>4. InDel(q)' = (InDel(q) \/ q = p)
      BY <1>5, <3>1 DEF InDel
    <3>5. Covered(q)' = Covered(q)
      BY <1>1, <1>5, <2>0, <3>1, <3>2 DEF Covered
    <3> QED BY <2>1, <2>2, <3>3, <3>4, <3>5
  <2> QED BY <2>3, <2>4
<1> QED BY <1>6, <1>7, <1>9

\* The count and the unlock make the writer's entry a counted one.
LEMMA UnlockViews ==
    ASSUME ShardBounds, TypeOK, ListsFit, NEW t \in Shard, CountAndUnlock(t)
    PROVE  /\ \A s \in Shard : Kept(s)' = Kept(s)
           /\ \A s \in Shard : Counted(s)' = Counted(s) + IF s = t /\ lock[t].kind = "read" THEN 1 ELSE 0
           /\ \A q \in PK :
                /\ LateDel(q)' = LateDel(q) /\ LateRead(q)' = LateRead(q)
                /\ InDel(q)' = InDel(q) /\ InRead(q)' = InRead(q) /\ Covered(q)' = Covered(q)
                /\ Overlaid(q) => Overlaid(q)'
                /\ OverlaidLate(q) => OverlaidLate(q)'
<1>1. UNCHANGED <<dirtyRead, dirtyDel, taken, mpc, mshard>> /\ lock' = [lock EXCEPT ![t] = None]
  BY DEF CountAndUnlock, mergeVars
<1>2. lock'[t].kind = "free" /\ \A s \in Shard \ {t} : lock'[s] = lock[s]
  BY <1>1 DEF TypeOK, None
<1>3. \A s \in Shard : Kept(s)' = Kept(s)
  BY <1>1 DEF Kept
<1>4. \A s \in Shard : Counted(s)' = Counted(s) + IF s = t /\ lock[t].kind = "read" THEN 1 ELSE 0
  <2> SUFFICES ASSUME NEW s \in Shard
               PROVE  Counted(s)' = Counted(s) + IF s = t /\ lock[t].kind = "read" THEN 1 ELSE 0
    OBVIOUS
  <2>1. Len(dirtyRead[s]) \in Nat
    BY ListFacts
  <2>2. CASE s = t
    <3>1. lock[t].kind # "free"
      BY <1>1 DEF CountAndUnlock, Free, TypeOK, None
    <3> QED BY <1>1, <1>2, <2>1, <2>2, <3>1 DEF Counted
  <2>3. CASE s # t
    <3>1. Counted(s)' = Counted(s) /\ Counted(s) \in Nat
      BY <1>1, <1>2, <2>3, ListFacts DEF Counted
    <3> QED BY <2>3, <3>1
  <2> QED BY <2>2, <2>3
<1>5. ASSUME NEW q \in PK
      PROVE  /\ LateDel(q)' = LateDel(q) /\ LateRead(q)' = LateRead(q)
             /\ InDel(q)' = InDel(q) /\ InRead(q)' = InRead(q) /\ Covered(q)' = Covered(q)
             /\ Overlaid(q) => Overlaid(q)'
             /\ OverlaidLate(q) => OverlaidLate(q)'
  <2> DEFINE s == shardOf[q]
  <2>1. s \in Shard /\ Kept(s)' = Kept(s)
    BY <1>3 DEF ShardBounds
  <2>2. Counted(s) \in Nat /\ Counted(s)' \in Nat /\ Counted(s) <= Counted(s)' /\ Kept(s).r \in Nat
    BY <1>4, <2>1, ListFacts
  <2>3. LateDel(q)' = LateDel(q) /\ LateRead(q)' = LateRead(q) /\ Covered(q)' = Covered(q)
    BY <1>1, <2>1 DEF LateDel, LateRead, Covered
  <2>4. InDel(q)' = InDel(q) /\ InRead(q)' = InRead(q)
    BY <1>1 DEF InDel, InRead
  <2>5. Overlaid(q) => Overlaid(q)'
    BY <1>1, <2>2 DEF Overlaid, Between
  <2>6. OverlaidLate(q) => OverlaidLate(q)'
    BY <1>1, <2>1, <2>2 DEF OverlaidLate, Between
  <2> QED BY <2>3, <2>4, <2>5, <2>6
<1> QED BY <1>3, <1>4, <1>5

\* The snapshot takes both lists of its shard whole.
LEMMA SnapshotViews ==
    ASSUME ShardBounds, TypeOK, ListsFit, MergeSnapshot
    PROVE  /\ \A s \in Shard : Kept(s)' = IF s = mshard THEN [r |-> Len(dirtyRead[s]), d |-> Len(dirtyDel[s])]
                                          ELSE Kept(s)
           /\ \A s \in Shard : Counted(s)' = Counted(s)
           /\ Counted(mshard) = Len(dirtyRead[mshard])
           /\ \A q \in PK :
                /\ InDel(q)' = InDel(q) /\ InRead(q)' = InRead(q) /\ Overlaid(q)' = Overlaid(q)
                /\ shardOf[q] # mshard =>
                      /\ LateDel(q)' = LateDel(q) /\ LateRead(q)' = LateRead(q)
                      /\ OverlaidLate(q)' = OverlaidLate(q)
                /\ shardOf[q] = mshard =>
                      ~LateDel(q)' /\ ~LateRead(q)' /\ Covered(q)' = (InRead(q) \/ InDel(q))
           /\ batch' \in Seq(PK)
           /\ \A q \in PK : q \in Range(batch') <=> shardOf[q] = mshard /\ (InRead(q) \/ InDel(q))
<1>1. /\ UNCHANGED <<dirtyRead, dirtyDel, lock, mshard>> /\ mshard \in Shard /\ lock[mshard] = None
      /\ taken' = [taken EXCEPT ![mshard] = [r |-> Len(dirtyRead[mshard]), d |-> Len(dirtyDel[mshard])]]
      /\ mpc = "snapshot" /\ mpc' = "project" /\ batch' = dirtyRead[mshard] \o dirtyDel[mshard]
  BY DEF MergeSnapshot, Free, tableVars
<1>2. \A s \in Shard : Kept(s)' = IF s = mshard THEN [r |-> Len(dirtyRead[s]), d |-> Len(dirtyDel[s])]
                                  ELSE Kept(s)
  BY <1>1 DEF Kept, TypeOK
<1>3. \A s \in Shard : Counted(s)' = Counted(s)
  BY <1>1 DEF Counted
<1>4. Counted(mshard) = Len(dirtyRead[mshard])
  BY <1>1 DEF Counted, None
<1>5. ASSUME NEW q \in PK
      PROVE  /\ InDel(q)' = InDel(q) /\ InRead(q)' = InRead(q) /\ Overlaid(q)' = Overlaid(q)
             /\ shardOf[q] # mshard =>
                      /\ LateDel(q)' = LateDel(q) /\ LateRead(q)' = LateRead(q)
                      /\ OverlaidLate(q)' = OverlaidLate(q)
             /\ shardOf[q] = mshard =>
                      ~LateDel(q)' /\ ~LateRead(q)' /\ Covered(q)' = (InRead(q) \/ InDel(q))
  <2> DEFINE s == shardOf[q]
  <2>0. s \in Shard
    BY DEF ShardBounds
  <2>1. InDel(q)' = InDel(q) /\ InRead(q)' = InRead(q) /\ Overlaid(q)' = Overlaid(q)
    BY <1>1, <1>3, <2>0 DEF InDel, InRead, Overlaid
  <2>2. ASSUME s # mshard
        PROVE  /\ LateDel(q)' = LateDel(q) /\ LateRead(q)' = LateRead(q)
               /\ OverlaidLate(q)' = OverlaidLate(q)
    <3>1. Kept(s)' = Kept(s) /\ Counted(s)' = Counted(s)
      BY <1>2, <1>3, <2>0, <2>2
    <3> QED BY <1>1, <3>1 DEF LateDel, LateRead, OverlaidLate
  <2>3. ASSUME s = mshard
        PROVE  ~LateDel(q)' /\ ~LateRead(q)' /\ Covered(q)' = (InRead(q) \/ InDel(q))
    <3>1. Kept(s)' = [r |-> Len(dirtyRead[s]), d |-> Len(dirtyDel[s])]
      BY <1>2, <2>0, <2>3
    <3>2. /\ dirtyRead[s] \in Seq(PK) /\ dirtyDel[s] \in Seq(PK)
          /\ Len(dirtyRead[s]) \in Nat /\ Len(dirtyDel[s]) \in Nat
      BY <2>0, ListFacts
    <3>3. Range(dirtyRead[s]) = Between(dirtyRead[s], 1, Len(dirtyRead[s]))
          /\ Range(dirtyDel[s]) = Between(dirtyDel[s], 1, Len(dirtyDel[s]))
      BY <3>2, RangeIsBetween
    <3>4. ~LateDel(q)' /\ ~LateRead(q)'
      BY <1>1, <3>1, <3>2 DEF LateDel, LateRead, Between
    <3>5. Covered(q)' = (InRead(q) \/ InDel(q))
      BY <1>1, <3>1, <3>3 DEF Covered, InRead, InDel
    <3> QED BY <3>4, <3>5
  <2> QED BY <2>1, <2>2, <2>3
<1>6. batch' \in Seq(PK) /\ Range(batch') = Range(dirtyRead[mshard]) \cup Range(dirtyDel[mshard])
  <2>1. dirtyRead[mshard] \in Seq(PK) /\ dirtyDel[mshard] \in Seq(PK)
    BY <1>1, ListFacts
  <2> QED BY <1>1, <2>1, RangeSplits
<1>7. \A q \in PK : q \in Range(batch') <=> shardOf[q] = mshard /\ (InRead(q) \/ InDel(q))
  BY <1>1, <1>6 DEF InRead, InDel, ListsFit
<1> QED BY <1>2, <1>3, <1>4, <1>5, <1>6, <1>7

\* The drop leaves the late part of its shard's lists.
LEMMA DropViews ==
    ASSUME ShardBounds, TypeOK, ListsFit, MergeDrop, mshard \in Shard
    PROVE  /\ \A s \in Shard : Kept(s)' = IF s = mshard THEN NoRange ELSE Kept(s)
           /\ \A s \in Shard : Counted(s)' = IF s = mshard THEN Counted(s) - taken[s].r ELSE Counted(s)
           /\ dirtyRead' \in [Shard -> Seq(PK)] /\ dirtyDel' \in [Shard -> Seq(PK)]
           /\ \A s \in Shard : /\ Range(dirtyRead'[s]) \subseteq Range(dirtyRead[s])
                               /\ Range(dirtyDel'[s]) \subseteq Range(dirtyDel[s])
           /\ \A q \in PK :
                /\ LateDel(q)' = LateDel(q) /\ LateRead(q)' = LateRead(q)
                /\ OverlaidLate(q)' = OverlaidLate(q)
                /\ shardOf[q] # mshard => /\ InDel(q)' = InDel(q) /\ InRead(q)' = InRead(q)
                                          /\ Overlaid(q)' = Overlaid(q)
                /\ shardOf[q] = mshard => /\ InDel(q)' = LateDel(q) /\ InRead(q)' = LateRead(q)
                                          /\ Overlaid(q)' = OverlaidLate(q)
<1> DEFINE m == mshard
           l == dirtyRead[m]
           d == dirtyDel[m]
           a == taken[m].r
           b == taken[m].d
<1>1. /\ UNCHANGED <<lock, mshard, taken>> /\ lock[m] = None
      /\ dirtyRead' = [dirtyRead EXCEPT ![m] = SubSeq(@, taken[m].r + 1, Len(@))]
      /\ dirtyDel' = [dirtyDel EXCEPT ![m] = SubSeq(@, taken[m].d + 1, Len(@))]
      /\ mpc = "drop" /\ mpc' = "uncount"
  BY DEF MergeDrop, Free
<1>2. /\ l \in Seq(PK) /\ d \in Seq(PK) /\ a \in Nat /\ b \in Nat /\ Len(l) \in Nat /\ Len(d) \in Nat
      /\ Kept(m) = taken[m] /\ a <= Len(l) /\ b <= Len(d)
  <2>1. Kept(m) = taken[m]
    BY <1>1 DEF Kept
  <2>2. Kept(m).r <= Counted(m) /\ Counted(m) <= Len(l) /\ Kept(m).d <= Len(d)
        /\ l \in Seq(PK) /\ d \in Seq(PK) /\ a \in Nat /\ b \in Nat /\ Counted(m) \in Nat
        /\ Len(l) \in Nat /\ Len(d) \in Nat
    BY ListFacts
  <2> QED BY <2>1, <2>2
<1>3. /\ dirtyRead'[m] = SubSeq(l, a + 1, Len(l)) /\ dirtyDel'[m] = SubSeq(d, b + 1, Len(d))
      /\ \A s \in Shard \ {m} : dirtyRead'[s] = dirtyRead[s] /\ dirtyDel'[s] = dirtyDel[s]
  BY <1>1 DEF TypeOK
<1>4. /\ dirtyRead'[m] \in Seq(PK) /\ Len(dirtyRead'[m]) = Len(l) - a
      /\ Between(dirtyRead'[m], 1, Len(l) - a) = Between(l, a + 1, Len(l))
  <2> HIDE DEF l, d, a, b, m
  <2> QED BY <1>2, <1>3, BetweenDrop
<1>5. /\ dirtyDel'[m] \in Seq(PK) /\ Len(dirtyDel'[m]) = Len(d) - b
      /\ Between(dirtyDel'[m], 1, Len(d) - b) = Between(d, b + 1, Len(d))
  <2> HIDE DEF l, d, a, b, m
  <2> QED BY <1>2, <1>3, BetweenDrop
<1>6. \A s \in Shard : Kept(s)' = IF s = m THEN NoRange ELSE Kept(s)
  BY <1>1 DEF Kept
<1>7. Counted(m) = Len(l) /\ Counted(m)' = Len(l) - a
  BY <1>1, <1>4 DEF Counted, None
<1>8. \A s \in Shard : Counted(s)' = IF s = m THEN Counted(s) - taken[s].r ELSE Counted(s)
  <2>1. \A s \in Shard \ {m} : Counted(s)' = Counted(s)
    BY <1>1, <1>3 DEF Counted
  <2> QED BY <1>1, <1>2, <1>7, <2>1
<1>9. dirtyRead' \in [Shard -> Seq(PK)] /\ dirtyDel' \in [Shard -> Seq(PK)]
  BY <1>1, <1>2, <1>3, <1>4, <1>5 DEF TypeOK
<1>10. /\ Range(dirtyRead'[m]) = Between(l, a + 1, Len(l)) /\ Range(l) = Between(l, 1, Len(l))
       /\ Range(dirtyDel'[m]) = Between(d, b + 1, Len(d)) /\ Range(d) = Between(d, 1, Len(d))
  <2>1. Range(dirtyRead'[m]) = Between(dirtyRead'[m], 1, Len(dirtyRead'[m]))
    BY <1>4, RangeIsBetween
  <2>2. Range(dirtyDel'[m]) = Between(dirtyDel'[m], 1, Len(dirtyDel'[m]))
    BY <1>5, RangeIsBetween
  <2>3. Range(l) = Between(l, 1, Len(l)) /\ Range(d) = Between(d, 1, Len(d))
    BY <1>2, RangeIsBetween
  <2> QED BY <1>4, <1>5, <2>1, <2>2, <2>3
<1>11. \A s \in Shard : /\ Range(dirtyRead'[s]) \subseteq Range(dirtyRead[s])
                        /\ Range(dirtyDel'[s]) \subseteq Range(dirtyDel[s])
  <2>1. Between(l, a + 1, Len(l)) \subseteq Between(l, 1, Len(l))
        /\ Between(d, b + 1, Len(d)) \subseteq Between(d, 1, Len(d))
    BY <1>2 DEF Between
  <2> QED BY <1>3, <1>10, <2>1
<1>12. ASSUME NEW q \in PK
       PROVE  /\ LateDel(q)' = LateDel(q) /\ LateRead(q)' = LateRead(q)
              /\ OverlaidLate(q)' = OverlaidLate(q)
              /\ shardOf[q] # m => /\ InDel(q)' = InDel(q) /\ InRead(q)' = InRead(q)
                                   /\ Overlaid(q)' = Overlaid(q)
              /\ shardOf[q] = m => /\ InDel(q)' = LateDel(q) /\ InRead(q)' = LateRead(q)
                                   /\ Overlaid(q)' = OverlaidLate(q)
  <2> DEFINE s == shardOf[q]
  <2>0. s \in Shard
    BY DEF ShardBounds
  <2>1. CASE s # m
    <3>1. /\ dirtyRead'[s] = dirtyRead[s] /\ dirtyDel'[s] = dirtyDel[s]
          /\ Kept(s)' = Kept(s) /\ Counted(s)' = Counted(s)
      BY <1>3, <1>6, <1>8, <2>0, <2>1
    <3>2. LateDel(q)' = LateDel(q) /\ LateRead(q)' = LateRead(q) /\ OverlaidLate(q)' = OverlaidLate(q)
      BY <3>1 DEF LateDel, LateRead, OverlaidLate
    <3>3. InDel(q)' = InDel(q) /\ InRead(q)' = InRead(q) /\ Overlaid(q)' = Overlaid(q)
      BY <3>1 DEF InDel, InRead, Overlaid
    <3> QED BY <2>1, <3>2, <3>3
  <2>2. CASE s = m
    <3>1. Kept(s)'.r = 0 /\ Kept(s)'.d = 0 /\ Kept(s).r = a /\ Kept(s).d = b
      BY <1>2, <1>6, <2>0, <2>2 DEF NoRange
    <3>2. Counted(s)' = Len(l) - a /\ Counted(s) = Len(l)
      BY <1>1, <1>7, <2>2
    <3>3. LateRead(q) = (q \in Between(l, a + 1, Len(l))) /\ LateDel(q) = (q \in Between(d, b + 1, Len(d)))
          /\ OverlaidLate(q) = (q \in Between(l, a + 1, Len(l)))
      BY <2>2, <3>1, <3>2 DEF LateRead, LateDel, OverlaidLate
    <3>4. LateRead(q)' = (q \in Between(l, a + 1, Len(l))) /\ LateDel(q)' = (q \in Between(d, b + 1, Len(d)))
          /\ OverlaidLate(q)' = (q \in Between(l, a + 1, Len(l))) /\ Overlaid(q)' = (q \in Between(l, a + 1, Len(l)))
      BY <1>4, <1>5, <2>2, <3>1, <3>2 DEF LateRead, LateDel, OverlaidLate, Overlaid
    <3>5. InRead(q)' = (q \in Between(l, a + 1, Len(l))) /\ InDel(q)' = (q \in Between(d, b + 1, Len(d)))
      BY <1>10, <2>2 DEF InRead, InDel
    <3> QED BY <2>2, <3>3, <3>4, <3>5
  <2> QED BY <2>1, <2>2
<1> QED BY <1>6, <1>8, <1>9, <1>11, <1>12

----------------------------------------------------------------------------
(* The counter.                                                            *)

CountedAll == SumOver([s \in Shard |-> Counted(s)], Shard)

\* The number of counted entries is a natural number, no less than any shard's.
LEMMA CountedTotal ==
    ASSUME ShardBounds, TypeOK, ListsFit
    PROVE  CountedAll \in Nat /\ \A s \in Shard : Counted(s) <= CountedAll
<1> DEFINE f == [s \in Shard |-> Counted(s)]
<1>1. IsFiniteSet(Shard)
  BY FS_Interval DEF ShardBounds, Shard
<1>2. \A s \in Shard : f[s] \in Nat /\ f[s] = Counted(s)
  BY ListFacts
<1> HIDE DEF f
<1>3. SumOver(f, Shard) \in Nat /\ \A s \in Shard : f[s] <= SumOver(f, Shard)
  BY <1>1, <1>2, SumNat
<1> QED BY <1>2, <1>3 DEF CountedAll, f

\* It follows the one shard that changes.
LEMMA CountedStep ==
    ASSUME ShardBounds, TypeOK, ListsFit, NEW t \in Shard, NEW n \in Int,
           \A s \in Shard : Counted(s)' = IF s = t THEN Counted(s) + n ELSE Counted(s)
    PROVE  CountedAll' = CountedAll + n
<1> DEFINE f == [s \in Shard |-> Counted(s)]
           h == [s \in Shard |-> Counted(s)']
<1>1. IsFiniteSet(Shard)
  BY FS_Interval DEF ShardBounds, Shard
<1>2. \A s \in Shard : f[s] \in Int /\ f[s] = Counted(s)
  BY ListFacts
<1>3. \A s \in Shard : h[s] = IF s = t THEN f[s] + n ELSE f[s]
  OBVIOUS
<1>4. SumOver(f, Shard) \in Int
  <2> HIDE DEF f
  <2> QED BY <1>1, <1>2, SumType
<1>5. SumOver(h, Shard) = SumOver(f, Shard) + h[t] - f[t]
  <2> HIDE DEF f, h
  <2> QED BY <1>1, <1>2, <1>3, SumUpdate
<1>6. SumOver(h, Shard) = SumOver(f, Shard) + n
  <2> HIDE DEF f, h
  <2> QED BY <1>2, <1>3, <1>4, <1>5
<1>7. CountedAll = SumOver(f, Shard)
  BY DEF CountedAll
<1>8. CountedAll' = SumOver(h, Shard)
  BY DEF CountedAll, Shard
<1> QED BY <1>6, <1>7, <1>8

\* It stays when every shard's count does.
LEMMA CountedSame ==
    ASSUME \A s \in Shard : Counted(s)' = Counted(s)
    PROVE  CountedAll' = CountedAll
<1>1. [s \in Shard |-> Counted(s)'] = [s \in Shard |-> Counted(s)]
  OBVIOUS
<1> QED BY <1>1 DEF CountedAll, Shard

----------------------------------------------------------------------------
(* The inductive invariant.                                                *)

IndexIInv == TypeOK /\ OneEntryPerPK /\ CountIsExact /\ MergeInv /\ ReaderInv

\* A row whose entry is not what the index must hold is listed as dirty, in the
\* overlay if it is live.
LEMMA UnindexedIsDirty ==
    ASSUME ShardBounds, NullIsNoKey, TypeOK, MergeInv, NEW p \in PK, ~Indexed(p)
    PROVE  Dirty(p) /\ (row[p] # Absent => InRead(p))
<1> DEFINE s == shardOf[p]
<1>0. s \in Shard
  BY DEF ShardBounds
<1>1. /\ Len(dirtyRead[s]) \in Nat /\ Len(dirtyDel[s]) \in Nat /\ Kept(s).r \in Nat /\ Kept(s).d \in Nat
      /\ Kept(s).r <= Len(dirtyRead[s]) /\ Kept(s).d <= Len(dirtyDel[s])
      /\ Range(dirtyRead[s]) = Between(dirtyRead[s], 1, Len(dirtyRead[s]))
      /\ Range(dirtyDel[s]) = Between(dirtyDel[s], 1, Len(dirtyDel[s]))
  <2>1. /\ Len(dirtyRead[s]) \in Nat /\ Len(dirtyDel[s]) \in Nat /\ Kept(s).r \in Nat /\ Kept(s).d \in Nat
        /\ Kept(s).r <= Counted(s) /\ Counted(s) <= Len(dirtyRead[s]) /\ Kept(s).d <= Len(dirtyDel[s])
        /\ Counted(s) \in Nat /\ dirtyRead[s] \in Seq(PK) /\ dirtyDel[s] \in Seq(PK)
    BY <1>0, ListFacts DEF MergeInv
  <2> QED BY <2>1, RangeIsBetween
<1>2. Late(p) => Dirty(p)
  BY <1>1 DEF Late, LateRead, LateDel, Dirty, InRead, InDel, Between
<1>3. Covered(p) => Dirty(p)
  BY <1>1 DEF Covered, Dirty, InRead, InDel, Between
<1>4. rev[p] # KeyFromCells(row[p]) \/ p \in changed
  <2> SUFFICES ASSUME rev[p] = KeyFromCells(row[p]), p \notin changed PROVE FALSE
    OBVIOUS
  <2>1. \A k \in Key : <<k, p>> \in entries <=> rev[p] = k
    BY DEF MergeInv, EntriesFollowRev
  <2> QED BY <2>1 DEF Indexed, KeyFromCells, NullIsNoKey, TypeOK, Cell
<1>5. Dirty(p)
  BY <1>2, <1>3, <1>4 DEF MergeInv, RevFollowsRow, WorkIsCovered
<1> QED BY <1>5 DEF Dirty, MergeInv, LiveIsRead

\* The inductive invariant gives the rules of the index.
LEMMA CoreSuffices ==
    ASSUME ShardBounds, NullIsNoKey, IndexIInv
    PROVE  IndexInv
BY UnindexedIsDirty DEF IndexIInv, IndexInv, CleanIsIndexed, StaleIsInOverlay

\* What a query relies on lasts as long as the rows it relies on do not change,
\* a merge keeps them safe and the overlay keeps its counted entries.
LEMMA ReaderKept ==
    ASSUME ReaderInv, reader \in [Readers -> ReaderState], NullIsNoKey,
           \A r \in Readers :
              /\ reader'[r].pc = reader[r].pc /\ reader'[r].kind = reader[r].kind
              /\ reader'[r].key = reader[r].key /\ reader'[r].pks = reader[r].pks
              /\ reader'[r].dirty = reader[r].dirty /\ reader'[r].shard = reader[r].shard
              /\ reader'[r].todo = reader[r].todo /\ reader'[r].check = reader[r].check
              /\ reader'[r].res = reader[r].res
              /\ reader'[r].must \subseteq reader[r].must
              /\ reader[r].touched \subseteq reader'[r].touched
              /\ reader[r].pc # "idle" /\ ~reader'[r].dropped => ~reader[r].dropped
              /\ \A p \in Stable(reader'[r]) : row'[p] = row[p],
           \A p \in PK : row'[p] = row[p] /\ row[p] # Absent =>
              /\ CountedWritesSuffice(p) => CountedWritesSuffice(p)'
              /\ Safe(p) => Safe(p)',
           \A r \in Readers : reader[r].pc # "idle" /\ ~reader'[r].dropped =>
              \A p \in PK : Overlaid(p) => Overlaid(p)'
    PROVE  ReaderInv'
<1> SUFFICES ASSUME NEW r \in Readers
             PROVE  /\ \A p \in reader'[r].must : row'[p] = reader'[r].key
                    /\ reader'[r].pc # "idle" =>
                          \A p \in Stable(reader'[r]) : row'[p] # Absent => CountedWritesSuffice(p)'
                    /\ ReaderProgress(reader[r])'
  BY DEF ReaderInv
<1>1. /\ \A p \in reader[r].must : row[p] = reader[r].key
      /\ reader[r].pc # "idle" => \A p \in Stable(reader[r]) : row[p] # Absent => CountedWritesSuffice(p)
      /\ ReaderProgress(reader[r])
  BY DEF ReaderInv
<1>2. reader[r].must \subseteq PK /\ reader[r].todo \subseteq PK
  BY DEF ReaderState
<1>3. Stable(reader'[r]) \subseteq Stable(reader[r]) /\ Stable(reader[r]) \subseteq PK /\ reader'[r].must \subseteq Stable(reader'[r])
      /\ PK \ reader'[r].touched \subseteq Stable(reader'[r])
  BY <1>2 DEF Stable
<1>4. \A p \in Stable(reader'[r]) : row'[p] = row[p]
  OBVIOUS
<1>5. \A p \in reader'[r].must : row'[p] = reader'[r].key
  BY <1>1, <1>3, <1>4
<1>6. reader'[r].pc # "idle" =>
          \A p \in Stable(reader'[r]) : row'[p] # Absent => CountedWritesSuffice(p)'
  BY <1>1, <1>3, <1>4
<1>7. ReaderProgress(reader[r])'
  <2> DEFINE live == {p \in Stable(reader[r]) : row[p] # Absent}
             liveN == {p \in Stable(reader'[r]) : row'[p] # Absent}
             q == reader[r]
  <2>1. liveN \subseteq live /\ \A p \in liveN : row'[p] = row[p] /\ p \in PK
    BY <1>3, <1>4
  <2>2. \A p \in liveN : Safe(p) => Safe(p)'
    BY <2>1
  <2>3. q.pc # "idle" => \A p \in reader'[r].must : p \in liveN /\ p \in q.must
    BY <1>1, <1>3, <1>5 DEF ReaderProgress, NullIsNoKey, Cell
  <2>4. \A p \in liveN : FoundRight(reader[r], p)' <=> FoundRight(reader[r], p)
    BY <2>1 DEF FoundRight
  <2>5. q.pc # "idle" /\ ~reader'[r].dropped => ~q.dropped /\ \A p \in liveN : Overlaid(p) => Overlaid(p)'
    BY <2>1
  <2>6. q.pc = "one" => \A p \in liveN : Safe(p)'
    BY <1>1, <2>1, <2>2 DEF ReaderProgress
  <2>7. q.pc = "lookup" /\ q.kind = "join" => \A p \in reader'[r].must : p \in q.dirty \/ Safe(p)'
    BY <1>1, <2>2, <2>3 DEF ReaderProgress
  <2>8. q.pc = "walk" /\ q.kind = "join" =>
          \A p \in reader'[r].must : shardOf[p] < q.shard => p \in q.dirty \/ Safe(p)'
    BY <1>1, <2>2, <2>3 DEF ReaderProgress
  <2>9. q.pc \in {"overlay", "walk"} /\ q.kind # "join" /\ ~reader'[r].dropped =>
          \A p \in liveN : FoundRight(reader[r], p)' \/ Overlaid(p)'
    BY <1>1, <2>1, <2>4, <2>5 DEF ReaderProgress
  <2>10. q.pc = "walk" /\ q.kind # "join" /\ ~reader'[r].dropped =>
          \A p \in liveN : shardOf[p] < q.shard => FoundRight(reader[r], p)' \/ p \in q.dirty
    BY <1>1, <2>1, <2>4, <2>5 DEF ReaderProgress
  <2>11. q.pc = "fetch" /\ (q.kind = "join" \/ ~reader'[r].dropped) =>
          reader'[r].must \subseteq q.todo \cup {x[1] : x \in q.res}
    BY <1>1, <2>3, <2>5 DEF ReaderProgress
  <2>12. q.pc = "fetch" /\ ~reader'[r].dropped =>
          /\ \A p \in q.todo \ reader'[r].touched : q.check \/ row'[p] \in {q.key, Absent}
          /\ \A x \in q.res : x[2] = q.key \/ x[1] \in reader'[r].touched
    BY <1>1, <1>2, <1>3, <1>4, <2>5 DEF ReaderProgress
  <2> QED
    BY <1>1, <2>6, <2>7, <2>8, <2>9, <2>10, <2>11, <2>12 DEF ReaderProgress
<1> QED BY <1>5, <1>6, <1>7

----------------------------------------------------------------------------
(* Writers.                                                                *)

\* A write changes no query but for what it notes: the written key leaves the
\* rows the query must find unless it still matches.
LEMMA ObservedWrite ==
    ASSUME TypeOK, ReaderInv, NEW p \in PK, NEW cell \in Cell \cup {Absent},
           row' = [row EXCEPT ![p] = cell], ObserveWrite(p, cell)
    PROVE  /\ reader' \in [Readers -> ReaderState]
           /\ \A r \in Readers :
              /\ reader'[r].pc = reader[r].pc /\ reader'[r].kind = reader[r].kind
              /\ reader'[r].key = reader[r].key /\ reader'[r].pks = reader[r].pks
              /\ reader'[r].dirty = reader[r].dirty /\ reader'[r].shard = reader[r].shard
              /\ reader'[r].todo = reader[r].todo /\ reader'[r].check = reader[r].check
              /\ reader'[r].res = reader[r].res
              /\ reader'[r].must \subseteq reader[r].must
              /\ reader[r].touched \subseteq reader'[r].touched
              /\ reader'[r].dropped = reader[r].dropped
              /\ \A q \in Stable(reader'[r]) : row'[q] = row[q]
<1>1. \A r \in Readers : reader'[r] = [reader[r] EXCEPT !.must = IF cell = reader[r].key THEN @ ELSE @ \ {p},
                                                       !.touched = @ \cup {p}]
  BY DEF ObserveWrite
<1>2. ASSUME NEW r \in Readers
      PROVE  /\ reader'[r] \in ReaderState
             /\ reader'[r].pc = reader[r].pc /\ reader'[r].kind = reader[r].kind
             /\ reader'[r].key = reader[r].key /\ reader'[r].pks = reader[r].pks
             /\ reader'[r].dirty = reader[r].dirty /\ reader'[r].shard = reader[r].shard
             /\ reader'[r].todo = reader[r].todo /\ reader'[r].check = reader[r].check
             /\ reader'[r].res = reader[r].res
             /\ reader'[r].must = (IF cell = reader[r].key THEN reader[r].must ELSE reader[r].must \ {p})
             /\ reader'[r].touched = reader[r].touched \cup {p}
             /\ reader'[r].dropped = reader[r].dropped
  <2>1. reader[r] \in ReaderState
    BY DEF TypeOK
  <2>2. /\ reader'[r].pc = reader[r].pc /\ reader'[r].kind = reader[r].kind
        /\ reader'[r].key = reader[r].key /\ reader'[r].pks = reader[r].pks
        /\ reader'[r].dirty = reader[r].dirty /\ reader'[r].shard = reader[r].shard
    BY <1>1, <2>1 DEF ReaderState
  <2>3. /\ reader'[r].todo = reader[r].todo /\ reader'[r].check = reader[r].check
        /\ reader'[r].res = reader[r].res /\ reader'[r].dropped = reader[r].dropped
    BY <1>1, <2>1 DEF ReaderState
  <2>4. /\ reader'[r].must = (IF cell = reader[r].key THEN reader[r].must ELSE reader[r].must \ {p})
        /\ reader'[r].touched = reader[r].touched \cup {p}
    BY ZenonT(40), <1>1, <2>1 DEF ReaderState
  <2>5. reader'[r] \in ReaderState
    <3> DEFINE A == IF cell = reader[r].key THEN reader[r].must ELSE reader[r].must \ {p}
               B == reader[r].touched \cup {p}
    <3>1. A \in SUBSET PK /\ B \in SUBSET PK
      BY <2>1 DEF ReaderState
    <3>2. reader'[r] = [reader[r] EXCEPT !.must = A, !.touched = B]
      BY <1>1
    <3> HIDE DEF A, B
    <3> QED BY <2>1, <3>1, <3>2 DEF ReaderState
  <2> QED BY <2>2, <2>3, <2>4, <2>5
<1>3. ASSUME NEW r \in Readers, NEW q \in Stable(reader'[r])
      PROVE  row'[q] = row[q]
  <2>1. reader[r].must \subseteq PK /\ \A x \in reader[r].must : row[x] = reader[r].key
    BY DEF TypeOK, ReaderState, ReaderInv
  <2>2. q \in PK
    BY <1>2, <2>1 DEF Stable
  <2>3. CASE q # p
    BY <2>2, <2>3 DEF TypeOK
  <2>4. CASE q = p
    <3>1. q \in reader[r].must /\ cell = reader[r].key
      BY <1>2, <2>4 DEF Stable
    <3> QED BY <2>1, <2>4, <3>1 DEF TypeOK
  <2> QED BY <2>3, <2>4
<1>4. reader' = [r \in Readers |-> reader'[r]]
  BY DEF ObserveWrite
<1>5. reader' \in [Readers -> ReaderState]
  BY <1>2, <1>4
<1> QED BY <1>2, <1>3, <1>5

\* insertJournaled, updateByPKJournaled.
LEMMA PutKeeps ==
    ASSUME ShardBounds, NullIsNoKey, WorkBounds, IndexIInv, NEW p \in PK, NEW cell \in Cell, Put(p, cell)
    PROVE  IndexIInv'
<1> DEFINE t == shardOf[p]
<1>0. t \in Shard /\ TypeOK /\ MergeInv /\ ReaderInv /\ ListsFit
  BY DEF ShardBounds, IndexIInv, MergeInv
<1>1. /\ row' = [row EXCEPT ![p] = cell]
      /\ dirtyRead' = [dirtyRead EXCEPT ![t] = Append(@, p)]
      /\ lock' = [lock EXCEPT ![t] = [kind |-> "read", pk |-> p]] /\ lock[t] = None
      /\ writes < MaxWrites /\ writes' = writes + 1 /\ ObserveWrite(p, cell)
      /\ UNCHANGED <<dirtyDel, count, rev, entries, mpc, mshard, batch, seen, taken, changed, reads>>
  BY DEF Put, Free, mergeVars
<1>2. /\ \A s \in Shard : Kept(s)' = Kept(s) /\ Counted(s)' = Counted(s)
      /\ \A q \in PK :
                /\ LateRead(q)' = (LateRead(q) \/ q = p) /\ LateDel(q)' = LateDel(q)
                /\ InRead(q)' = (InRead(q) \/ q = p) /\ InDel(q)' = InDel(q)
                /\ Covered(q)' = Covered(q)
                /\ Overlaid(q)' = Overlaid(q) /\ OverlaidLate(q)' = OverlaidLate(q)
  BY <1>0, PutViews
<1>3. /\ reader' \in [Readers -> ReaderState]
      /\ \A r \in Readers :
              /\ reader'[r].pc = reader[r].pc /\ reader'[r].kind = reader[r].kind
              /\ reader'[r].key = reader[r].key /\ reader'[r].pks = reader[r].pks
              /\ reader'[r].dirty = reader[r].dirty /\ reader'[r].shard = reader[r].shard
              /\ reader'[r].todo = reader[r].todo /\ reader'[r].check = reader[r].check
              /\ reader'[r].res = reader[r].res
              /\ reader'[r].must \subseteq reader[r].must
              /\ reader[r].touched \subseteq reader'[r].touched
              /\ reader'[r].dropped = reader[r].dropped
              /\ \A q \in Stable(reader'[r]) : row'[q] = row[q]
  BY <1>0, <1>1, ObservedWrite
<1>4. row'[p] = cell /\ \A q \in PK \ {p} : row'[q] = row[q]
  BY <1>0, <1>1 DEF TypeOK
<1>5. dirtyRead[t] \in Seq(PK) /\ dirtyRead'[t] = Append(dirtyRead[t], p)
      /\ \A s \in Shard \ {t} : dirtyRead'[s] = dirtyRead[s] /\ lock'[s] = lock[s]
  BY <1>0, <1>1 DEF TypeOK
<1>6. TypeOK'
  <2>1. row' \in [PK -> Cell \cup {Absent}] /\ dirtyRead' \in [Shard -> Seq(PK)]
    BY <1>0, <1>1, <1>5 DEF TypeOK
  <2>2. lock' \in [Shard -> {None} \cup [kind : {"read", "del"}, pk : PK]]
    BY <1>0, <1>1 DEF TypeOK
  <2>3. writes' \in 0..MaxWrites
    BY <1>0, <1>1 DEF TypeOK, WorkBounds
  <2> QED BY <1>0, <1>1, <1>3, <2>1, <2>2, <2>3 DEF TypeOK, Shard
<1>7. OneEntryPerPK'
  BY <1>1 DEF IndexIInv, OneEntryPerPK
<1>8. CountIsExact'
  <2>1. CountedAll' = CountedAll
    BY <1>2, CountedSame
  <2> QED BY <1>1, <2>1 DEF IndexIInv, CountIsExact, CountedAll
<1>9. MergeInv'
  <2>1. MergePhases'
    BY <1>0, <1>1 DEF MergeInv, MergePhases, Drops
  <2>2. ListsFit'
    <3> SUFFICES ASSUME NEW s \in Shard
                 PROVE  /\ \A q \in Range(dirtyRead'[s]) \cup Range(dirtyDel'[s]) : shardOf[q] = s
                        /\ lock'[s].kind = "read" => dirtyRead'[s] # <<>> /\ dirtyRead'[s][Len(dirtyRead'[s])] = lock'[s].pk
                        /\ lock'[s].kind # "free" => shardOf[lock'[s].pk] = s
                        /\ Kept(s)'.r <= Counted(s)' /\ Kept(s)'.d <= Len(dirtyDel'[s])
      BY DEF ListsFit, Shard
    <3>1. Kept(s)'.r <= Counted(s)' /\ Kept(s)'.d <= Len(dirtyDel'[s])
      BY <1>0, <1>1, <1>2 DEF ListsFit
    <3>2. CASE s # t
      BY <1>0, <1>1, <1>5, <3>1, <3>2 DEF ListsFit
    <3>3. CASE s = t
      <4>1. Range(dirtyRead'[s]) = Range(dirtyRead[s]) \cup {p}
        <5> DEFINE l == dirtyRead[t]
        <5>1. l \in Seq(PK) /\ dirtyRead'[s] = Append(l, p) /\ dirtyRead[s] = l
          BY <1>5, <3>3
        <5> HIDE DEF l
        <5>2. Range(Append(l, p)) = Range(l) \cup {p}
          BY <5>1, BetweenAppend, SMTT(30)
        <5> QED BY <5>1, <5>2
      <4>2. \A q \in Range(dirtyRead'[s]) \cup Range(dirtyDel'[s]) : shardOf[q] = s
        BY <1>0, <1>1, <3>3, <4>1 DEF ListsFit
      <4>3. dirtyRead'[s] # <<>> /\ dirtyRead'[s][Len(dirtyRead'[s])] = p
        BY <1>5, <3>3
      <4>4. lock'[s].pk = p
        BY <1>0, <1>1, <3>3 DEF TypeOK
      <4> QED BY <3>1, <3>3, <4>2, <4>3, <4>4
    <3> QED BY <3>2, <3>3
  <2>3. WorkIsCovered'
    <3>1. Range(batch) \cup changed \subseteq PK
      BY <1>0, RangeIsBetween DEF TypeOK
    <3> QED BY <1>0, <1>1, <1>2, <3>1 DEF MergeInv, WorkIsCovered
  <2>4. RevFollowsRow'
    BY <1>0, <1>1, <1>2, <1>4 DEF MergeInv, RevFollowsRow, Late
  <2>5. EntriesFollowRev'
    BY <1>0, <1>1 DEF MergeInv, EntriesFollowRev
  <2>6. LiveIsRead'
    BY <1>0, <1>2, <1>4 DEF MergeInv, LiveIsRead
  <2> QED BY <2>1, <2>2, <2>3, <2>4, <2>5, <2>6 DEF MergeInv
<1>10. ReaderInv'
  <2>1. ASSUME NEW q \in PK, row'[q] = row[q], row[q] # Absent
        PROVE  /\ CountedWritesSuffice(q) => CountedWritesSuffice(q)'
               /\ Safe(q) => Safe(q)'
    <3>1. CountedWritesSuffice(q) => CountedWritesSuffice(q)'
      BY <1>1, <1>2, <2>1 DEF CountedWritesSuffice
    <3>2. Safe(q) => Safe(q)'
      BY <1>1, <2>1 DEF Safe
    <3> QED BY <3>1, <3>2
  <2>2. \A q \in PK : Overlaid(q) => Overlaid(q)'
    BY <1>2
  <2>3. reader \in [Readers -> ReaderState]
    BY <1>0 DEF TypeOK
  <2> QED BY <1>0, <1>3, <2>1, <2>2, <2>3, ReaderKept
<1> QED BY <1>6, <1>7, <1>8, <1>9, <1>10 DEF IndexIInv

\* deleteByPKJournaled.
LEMMA DeleteKeeps ==
    ASSUME ShardBounds, NullIsNoKey, WorkBounds, IndexIInv, NEW p \in PK, Delete(p)
    PROVE  IndexIInv'
<1> DEFINE t == shardOf[p]
<1>0. t \in Shard /\ TypeOK /\ MergeInv /\ ReaderInv /\ ListsFit
  BY DEF ShardBounds, IndexIInv, MergeInv
<1>1. /\ row' = [row EXCEPT ![p] = Absent]
      /\ dirtyDel' = [dirtyDel EXCEPT ![t] = Append(@, p)]
      /\ lock' = [lock EXCEPT ![t] = [kind |-> "del", pk |-> p]] /\ lock[t] = None
      /\ writes < MaxWrites /\ writes' = writes + 1 /\ ObserveWrite(p, Absent)
      /\ UNCHANGED <<dirtyRead, count, rev, entries, mpc, mshard, batch, seen, taken, changed, reads>>
  BY DEF Delete, Free, mergeVars
<1>2. /\ \A s \in Shard : Kept(s)' = Kept(s) /\ Counted(s)' = Counted(s)
      /\ \A q \in PK :
                /\ LateDel(q)' = (LateDel(q) \/ q = p) /\ LateRead(q)' = LateRead(q)
                /\ InDel(q)' = (InDel(q) \/ q = p) /\ InRead(q)' = InRead(q)
                /\ Covered(q)' = Covered(q)
                /\ Overlaid(q)' = Overlaid(q) /\ OverlaidLate(q)' = OverlaidLate(q)
  BY <1>0, DeleteViews
<1>3. /\ reader' \in [Readers -> ReaderState]
      /\ \A r \in Readers :
              /\ reader'[r].pc = reader[r].pc /\ reader'[r].kind = reader[r].kind
              /\ reader'[r].key = reader[r].key /\ reader'[r].pks = reader[r].pks
              /\ reader'[r].dirty = reader[r].dirty /\ reader'[r].shard = reader[r].shard
              /\ reader'[r].todo = reader[r].todo /\ reader'[r].check = reader[r].check
              /\ reader'[r].res = reader[r].res
              /\ reader'[r].must \subseteq reader[r].must
              /\ reader[r].touched \subseteq reader'[r].touched
              /\ reader'[r].dropped = reader[r].dropped
              /\ \A q \in Stable(reader'[r]) : row'[q] = row[q]
  BY <1>0, <1>1, ObservedWrite
<1>4. row'[p] = Absent /\ \A q \in PK \ {p} : row'[q] = row[q]
  BY <1>0, <1>1 DEF TypeOK
<1>5. dirtyDel[t] \in Seq(PK) /\ dirtyDel'[t] = Append(dirtyDel[t], p)
      /\ \A s \in Shard \ {t} : dirtyDel'[s] = dirtyDel[s] /\ lock'[s] = lock[s]
  BY <1>0, <1>1 DEF TypeOK
<1>6. TypeOK'
  <2>1. row' \in [PK -> Cell \cup {Absent}] /\ dirtyDel' \in [Shard -> Seq(PK)]
    BY <1>0, <1>1, <1>5 DEF TypeOK
  <2>2. lock' \in [Shard -> {None} \cup [kind : {"read", "del"}, pk : PK]]
    BY <1>0, <1>1 DEF TypeOK
  <2>3. writes' \in 0..MaxWrites
    BY <1>0, <1>1 DEF TypeOK, WorkBounds
  <2> QED BY <1>0, <1>1, <1>3, <2>1, <2>2, <2>3 DEF TypeOK, Shard
<1>7. OneEntryPerPK'
  BY <1>1 DEF IndexIInv, OneEntryPerPK
<1>8. CountIsExact'
  <2>1. CountedAll' = CountedAll
    BY <1>2, CountedSame
  <2> QED BY <1>1, <2>1 DEF IndexIInv, CountIsExact, CountedAll
<1>9. MergeInv'
  <2>1. MergePhases'
    BY <1>0, <1>1 DEF MergeInv, MergePhases, Drops
  <2>2. ListsFit'
    <3> SUFFICES ASSUME NEW s \in Shard
                 PROVE  /\ \A q \in Range(dirtyRead'[s]) \cup Range(dirtyDel'[s]) : shardOf[q] = s
                        /\ lock'[s].kind = "read" => dirtyRead'[s] # <<>> /\ dirtyRead'[s][Len(dirtyRead'[s])] = lock'[s].pk
                        /\ lock'[s].kind # "free" => shardOf[lock'[s].pk] = s
                        /\ Kept(s)'.r <= Counted(s)' /\ Kept(s)'.d <= Len(dirtyDel'[s])
      BY DEF ListsFit, Shard
    <3>1. CASE s # t
      BY <1>0, <1>1, <1>2, <1>5, <3>1 DEF ListsFit
    <3>2. CASE s = t
      <4> DEFINE l == dirtyDel[t]
      <4>1. l \in Seq(PK) /\ dirtyDel'[s] = Append(l, p) /\ dirtyDel[s] = l
        BY <1>5, <3>2
      <4>2. Range(dirtyDel'[s]) = Range(dirtyDel[s]) \cup {p}
        <5> HIDE DEF l
        <5>1. Range(Append(l, p)) = Range(l) \cup {p}
          BY <4>1, BetweenAppend, SMTT(30)
        <5> QED BY <4>1, <5>1
      <4>3. \A q \in Range(dirtyRead'[s]) \cup Range(dirtyDel'[s]) : shardOf[q] = s
        BY <1>0, <1>1, <3>2, <4>2 DEF ListsFit
      <4>4. lock'[s].pk = p /\ lock'[s].kind = "del"
        BY <1>0, <1>1, <3>2 DEF TypeOK
      <4>5. Kept(s)'.d <= Len(dirtyDel'[s])
        <5>1. Kept(s).d \in Nat /\ Kept(s).d <= Len(l) /\ Len(l) \in Nat
          BY <1>0, <3>2, ListFacts
        <5>2. Len(dirtyDel'[s]) = Len(l) + 1
          BY <4>1
        <5> QED BY <1>2, <5>1, <5>2
      <4>6. Kept(s)'.r <= Counted(s)'
        BY <1>0, <1>2 DEF ListsFit
      <4> QED BY <3>2, <4>3, <4>4, <4>5, <4>6
    <3> QED BY <3>1, <3>2
  <2>3. WorkIsCovered'
    <3>1. Range(batch) \cup changed \subseteq PK
      BY <1>0, RangeIsBetween DEF TypeOK
    <3> QED BY <1>0, <1>1, <1>2, <3>1 DEF MergeInv, WorkIsCovered
  <2>4. RevFollowsRow'
    BY <1>0, <1>1, <1>2, <1>4 DEF MergeInv, RevFollowsRow, Late
  <2>5. EntriesFollowRev'
    BY <1>0, <1>1 DEF MergeInv, EntriesFollowRev
  <2>6. LiveIsRead'
    BY <1>0, <1>2, <1>4 DEF MergeInv, LiveIsRead
  <2> QED BY <2>1, <2>2, <2>3, <2>4, <2>5, <2>6 DEF MergeInv
<1>10. ReaderInv'
  <2>1. ASSUME NEW q \in PK, row'[q] = row[q], row[q] # Absent
        PROVE  /\ CountedWritesSuffice(q) => CountedWritesSuffice(q)'
               /\ Safe(q) => Safe(q)'
    <3>0. q # p
      BY <1>4, <2>1
    <3>1. CountedWritesSuffice(q) => CountedWritesSuffice(q)'
      BY <1>1, <1>2, <2>1, <3>0 DEF CountedWritesSuffice
    <3>2. Safe(q) => Safe(q)'
      BY <1>1, <2>1 DEF Safe
    <3> QED BY <3>1, <3>2
  <2>2. \A q \in PK : Overlaid(q) => Overlaid(q)'
    BY <1>2
  <2>3. reader \in [Readers -> ReaderState]
    BY <1>0 DEF TypeOK
  <2> QED BY <1>0, <1>3, <2>1, <2>2, <2>3, ReaderKept
<1> QED BY <1>6, <1>7, <1>8, <1>9, <1>10 DEF IndexIInv

\* What a step that leaves queries alone needs to keep them served.
LEMMA ReaderUntouched ==
    ASSUME ReaderInv, TypeOK, NullIsNoKey, UNCHANGED <<reader, row>>,
           \A p \in PK : row[p] # Absent =>
              /\ CountedWritesSuffice(p) => CountedWritesSuffice(p)'
              /\ Safe(p) => Safe(p)',
           \A p \in PK : Overlaid(p) => Overlaid(p)'
    PROVE  ReaderInv'
<1>1. reader \in [Readers -> ReaderState]
  BY DEF TypeOK
<1>2. \A r \in Readers :
              /\ reader'[r].pc = reader[r].pc /\ reader'[r].kind = reader[r].kind
              /\ reader'[r].key = reader[r].key /\ reader'[r].pks = reader[r].pks
              /\ reader'[r].dirty = reader[r].dirty /\ reader'[r].shard = reader[r].shard
              /\ reader'[r].todo = reader[r].todo /\ reader'[r].check = reader[r].check
              /\ reader'[r].res = reader[r].res
              /\ reader'[r].must \subseteq reader[r].must
              /\ reader[r].touched \subseteq reader'[r].touched
              /\ reader[r].pc # "idle" /\ ~reader'[r].dropped => ~reader[r].dropped
              /\ \A p \in Stable(reader'[r]) : row'[p] = row[p]
  OBVIOUS
<1> QED BY <1>1, <1>2, ReaderKept

\* The Add to the counter and the unlock.
LEMMA UnlockKeeps ==
    ASSUME ShardBounds, NullIsNoKey, WorkBounds, IndexIInv, NEW t \in Shard, CountAndUnlock(t)
    PROVE  IndexIInv'
<1>0. TypeOK /\ MergeInv /\ ReaderInv /\ ListsFit
  BY DEF IndexIInv, MergeInv
<1>1. /\ lock' = [lock EXCEPT ![t] = None] /\ lock[t] # None
      /\ count' = IF lock[t].kind = "read" THEN count + 1 ELSE count
      /\ UNCHANGED <<row, dirtyRead, dirtyDel, writes, rev, entries, reader, reads,
                     mpc, mshard, batch, seen, taken, changed>>
  BY DEF CountAndUnlock, Free, mergeVars
<1>2. /\ \A s \in Shard : Kept(s)' = Kept(s)
      /\ \A s \in Shard : Counted(s)' = Counted(s) + IF s = t /\ lock[t].kind = "read" THEN 1 ELSE 0
      /\ \A q \in PK :
                /\ LateDel(q)' = LateDel(q) /\ LateRead(q)' = LateRead(q)
                /\ InDel(q)' = InDel(q) /\ InRead(q)' = InRead(q) /\ Covered(q)' = Covered(q)
                /\ Overlaid(q) => Overlaid(q)'
                /\ OverlaidLate(q) => OverlaidLate(q)'
  BY <1>0, UnlockViews
<1>3. TypeOK'
  <2>1. count' \in Int /\ lock' \in [Shard -> {None} \cup [kind : {"read", "del"}, pk : PK]]
    BY <1>0, <1>1 DEF TypeOK
  <2> QED BY <1>0, <1>1, <2>1 DEF TypeOK, Shard
<1>4. OneEntryPerPK'
  BY <1>1 DEF IndexIInv, OneEntryPerPK
<1>5. CountIsExact'
  <2> DEFINE n == IF lock[t].kind = "read" THEN 1 ELSE 0
  <2>1. \A s \in Shard : Counted(s)' = IF s = t THEN Counted(s) + n ELSE Counted(s)
    <3>1. \A s \in Shard : Counted(s) \in Nat
      BY <1>0, ListFacts
    <3> QED BY <1>2, <3>1
  <2>2. n \in Int
    OBVIOUS
  <2>3. CountedAll' = CountedAll + n
    <3> HIDE DEF n
    <3> QED BY <1>0, <2>1, <2>2, CountedStep
  <2>4. CountedAll \in Nat /\ count \in Int /\ (mpc = "uncount" => taken[mshard].r \in Nat)
    <3>1. mpc = "uncount" => mshard \in Shard
      BY <1>0 DEF MergeInv, MergePhases, Drops
    <3> QED BY <1>0, <3>1, CountedTotal, ListFacts DEF TypeOK
  <2>5. count = CountedAll + (IF mpc = "uncount" THEN taken[mshard].r ELSE 0)
    BY DEF IndexIInv, CountIsExact, CountedAll
  <2>6. count' = CountedAll' + (IF mpc' = "uncount" THEN taken'[mshard'].r ELSE 0)
    BY <1>1, <2>3, <2>4, <2>5
  <2> QED BY <2>6 DEF CountIsExact, CountedAll
<1>6. MergeInv'
  <2>1. MergePhases'
    BY <1>0, <1>1 DEF MergeInv, MergePhases, Drops
  <2>2. ListsFit'
    <3> SUFFICES ASSUME NEW s \in Shard
                 PROVE  /\ \A q \in Range(dirtyRead'[s]) \cup Range(dirtyDel'[s]) : shardOf[q] = s
                        /\ lock'[s].kind = "read" => dirtyRead'[s] # <<>> /\ dirtyRead'[s][Len(dirtyRead'[s])] = lock'[s].pk
                        /\ lock'[s].kind # "free" => shardOf[lock'[s].pk] = s
                        /\ Kept(s)'.r <= Counted(s)' /\ Kept(s)'.d <= Len(dirtyDel'[s])
      BY DEF ListsFit, Shard
    <3>1. s = t => lock'[s].kind = "free"
      BY <1>0, <1>1 DEF TypeOK, None
    <3>2. s # t => lock'[s] = lock[s]
      BY <1>0, <1>1 DEF TypeOK
    <3>3. Kept(s)'.r <= Counted(s)' /\ Kept(s)'.d <= Len(dirtyDel'[s])
      <4>1. Kept(s).r \in Nat /\ Counted(s) \in Nat /\ Kept(s).r <= Counted(s) /\ Kept(s).d <= Len(dirtyDel[s])
        BY <1>0, ListFacts
      <4> QED BY <1>1, <1>2, <4>1
    <3> QED BY <1>0, <1>1, <3>1, <3>2, <3>3 DEF ListsFit
  <2>3. WorkIsCovered'
    <3>1. Range(batch) \cup changed \subseteq PK
      BY <1>0, RangeIsBetween DEF TypeOK
    <3> QED BY <1>0, <1>1, <1>2, <3>1 DEF MergeInv, WorkIsCovered
  <2>4. RevFollowsRow'
    BY <1>0, <1>1, <1>2 DEF MergeInv, RevFollowsRow, Late
  <2>5. EntriesFollowRev'
    BY <1>0, <1>1 DEF MergeInv, EntriesFollowRev
  <2>6. LiveIsRead'
    BY <1>0, <1>1, <1>2 DEF MergeInv, LiveIsRead
  <2> QED BY <2>1, <2>2, <2>3, <2>4, <2>5, <2>6 DEF MergeInv
<1>7. ReaderInv'
  <2>1. ASSUME NEW q \in PK
        PROVE  /\ CountedWritesSuffice(q) => CountedWritesSuffice(q)'
               /\ Safe(q) => Safe(q)'
    <3>1. CountedWritesSuffice(q) => CountedWritesSuffice(q)'
      BY <1>1, <1>2 DEF CountedWritesSuffice
    <3>2. Safe(q) => Safe(q)'
      BY <1>1 DEF Safe
    <3> QED BY <3>1, <3>2
  <2> QED BY <1>0, <1>1, <1>2, <2>1, ReaderUntouched
<1> QED BY <1>3, <1>4, <1>5, <1>6, <1>7 DEF IndexIInv

----------------------------------------------------------------------------
(* The merger.                                                             *)

\* A step that leaves the lists, the locks and what is kept changes no view.
LEMMA MergeFrame ==
    ASSUME ShardBounds, ListsFit, UNCHANGED <<dirtyRead, dirtyDel, lock>>,
           \A s \in Shard : Kept(s)' = Kept(s)
    PROVE  /\ ListsFit' /\ CountedAll' = CountedAll
           /\ \A p \in PK :
                /\ LateRead(p)' = LateRead(p) /\ LateDel(p)' = LateDel(p) /\ Late(p)' = Late(p)
                /\ InRead(p)' = InRead(p) /\ InDel(p)' = InDel(p) /\ Covered(p)' = Covered(p)
                /\ Overlaid(p)' = Overlaid(p) /\ OverlaidLate(p)' = OverlaidLate(p)
<1>1. \A s \in Shard : Counted(s)' = Counted(s)
  BY DEF Counted
<1>2. ListsFit'
  BY <1>1 DEF ListsFit, Shard
<1>3. CountedAll' = CountedAll
  BY <1>1, CountedSame
<1> QED BY <1>2, <1>3, ViewsSame

\* mergeIndexes starts.
LEMMA BeginKeeps ==
    ASSUME ShardBounds, NullIsNoKey, IndexIInv, MergeBegin
    PROVE  IndexIInv'
<1>0. TypeOK /\ MergeInv /\ ReaderInv /\ ListsFit
  BY DEF IndexIInv, MergeInv
<1>1. /\ mpc = "idle" /\ mpc' = "snapshot" /\ mshard' = 1
      /\ UNCHANGED <<row, dirtyRead, dirtyDel, lock, writes, count, rev, entries, batch, seen, taken,
                     changed, reader, reads>>
  BY DEF MergeBegin, tableVars
<1>2. \A s \in Shard : Kept(s)' = Kept(s)
  BY <1>1 DEF Kept
<1>3. /\ ListsFit' /\ CountedAll' = CountedAll
      /\ \A p \in PK :
                /\ LateRead(p)' = LateRead(p) /\ LateDel(p)' = LateDel(p) /\ Late(p)' = Late(p)
                /\ InRead(p)' = InRead(p) /\ InDel(p)' = InDel(p) /\ Covered(p)' = Covered(p)
                /\ Overlaid(p)' = Overlaid(p) /\ OverlaidLate(p)' = OverlaidLate(p)
  BY <1>0, <1>1, <1>2, MergeFrame
<1>4. TypeOK'
  <2>1. mshard' \in 0..NShards
    BY <1>1 DEF ShardBounds
  <2> QED BY <1>0, <1>1, <2>1 DEF TypeOK, Shard
<1>5. OneEntryPerPK' /\ CountIsExact'
  BY <1>1, <1>3 DEF IndexIInv, OneEntryPerPK, CountIsExact, CountedAll
<1>6. MergeInv'
  <2>1. MergePhases'
    BY <1>0, <1>1 DEF MergeInv, MergePhases, Drops, Shard
  <2>2. WorkIsCovered'
    <3>1. Range(batch) \cup changed \subseteq PK
      BY <1>0, RangeIsBetween DEF TypeOK
    <3> QED BY <1>0, <1>1, <1>3, <3>1 DEF MergeInv, WorkIsCovered
  <2>3. RevFollowsRow'
    BY <1>0, <1>1, <1>3 DEF MergeInv, RevFollowsRow
  <2>4. EntriesFollowRev' /\ LiveIsRead'
    BY <1>0, <1>1, <1>3 DEF MergeInv, EntriesFollowRev, LiveIsRead
  <2> QED BY <1>3, <2>1, <2>2, <2>3, <2>4 DEF MergeInv
<1>7. ReaderInv'
  <2>1. ASSUME NEW q \in PK
        PROVE  /\ CountedWritesSuffice(q) => CountedWritesSuffice(q)'
               /\ Safe(q) => Safe(q)'
    BY <1>1, <1>3 DEF CountedWritesSuffice, Safe
  <2> QED BY <1>0, <1>1, <1>3, <2>1, ReaderUntouched
<1> QED BY <1>4, <1>5, <1>6, <1>7 DEF IndexIInv

\* The copy of a shard's lists.
LEMMA SnapshotKeeps ==
    ASSUME ShardBounds, NullIsNoKey, IndexIInv, MergeSnapshot
    PROVE  IndexIInv'
<1> DEFINE m == mshard
<1>0. TypeOK /\ MergeInv /\ ReaderInv /\ ListsFit
  BY DEF IndexIInv, MergeInv
<1>1. /\ mpc = "snapshot" /\ mpc' = "project" /\ mshard \in Shard
      /\ taken' = [taken EXCEPT ![mshard] = [r |-> Len(dirtyRead[mshard]), d |-> Len(dirtyDel[mshard])]]
      /\ UNCHANGED <<row, dirtyRead, dirtyDel, lock, writes, count, rev, entries, mshard, seen,
                     changed, reader, reads>>
  BY DEF MergeSnapshot, tableVars
<1>2. /\ \A s \in Shard : Kept(s)' = IF s = mshard THEN [r |-> Len(dirtyRead[s]), d |-> Len(dirtyDel[s])]
                                          ELSE Kept(s)
      /\ \A s \in Shard : Counted(s)' = Counted(s)
      /\ Counted(mshard) = Len(dirtyRead[mshard])
      /\ \A q \in PK :
                /\ InDel(q)' = InDel(q) /\ InRead(q)' = InRead(q) /\ Overlaid(q)' = Overlaid(q)
                /\ shardOf[q] # mshard =>
                      /\ LateDel(q)' = LateDel(q) /\ LateRead(q)' = LateRead(q)
                      /\ OverlaidLate(q)' = OverlaidLate(q)
                /\ shardOf[q] = mshard =>
                      ~LateDel(q)' /\ ~LateRead(q)' /\ Covered(q)' = (InRead(q) \/ InDel(q))
      /\ batch' \in Seq(PK)
      /\ \A q \in PK : q \in Range(batch') <=> shardOf[q] = mshard /\ (InRead(q) \/ InDel(q))
  BY <1>0, SnapshotViews
<1>3. batch = <<>> /\ Range(batch) = {}
  BY <1>0, <1>1 DEF MergeInv, MergePhases, Range
<1>4. \A q \in PK : (Late(q) => InRead(q) \/ InDel(q)) /\ (OverlaidLate(q) => InRead(q))
                    /\ (Covered(q) => InRead(q) \/ InDel(q))
  <2> SUFFICES ASSUME NEW q \in PK
               PROVE  /\ Late(q) => InRead(q) \/ InDel(q)
                      /\ OverlaidLate(q) => InRead(q)
                      /\ Covered(q) => InRead(q) \/ InDel(q)
    OBVIOUS
  <2> DEFINE s == shardOf[q]
  <2>1. s \in Shard
    BY DEF ShardBounds
  <2>2. /\ Len(dirtyRead[s]) \in Nat /\ Len(dirtyDel[s]) \in Nat /\ Kept(s).r \in Nat /\ Kept(s).d \in Nat
        /\ Kept(s).r <= Counted(s) /\ Counted(s) <= Len(dirtyRead[s]) /\ Kept(s).d <= Len(dirtyDel[s])
        /\ Counted(s) \in Nat /\ dirtyRead[s] \in Seq(PK) /\ dirtyDel[s] \in Seq(PK)
    BY <1>0, <2>1, ListFacts
  <2>3. /\ Range(dirtyRead[s]) = Between(dirtyRead[s], 1, Len(dirtyRead[s]))
        /\ Range(dirtyDel[s]) = Between(dirtyDel[s], 1, Len(dirtyDel[s]))
    BY <2>2, RangeIsBetween
  <2> QED BY <2>2, <2>3 DEF Late, LateRead, LateDel, OverlaidLate, Covered, InRead, InDel, Between
<1>5. \A q \in PK : shardOf[q] # m => Covered(q)' = Covered(q)
  <2> SUFFICES ASSUME NEW q \in PK, shardOf[q] # m PROVE Covered(q)' = Covered(q)
    OBVIOUS
  <2>1. shardOf[q] \in Shard
    BY DEF ShardBounds
  <2>2. Kept(shardOf[q])' = Kept(shardOf[q])
    BY <1>2, <2>1
  <2> QED BY <1>1, <2>2 DEF Covered
<1>6. TypeOK'
  <2>1. [r |-> Len(dirtyRead[m]), d |-> Len(dirtyDel[m])] \in [r : Nat, d : Nat]
    BY <1>0, <1>1, ListFacts
  <2>2. taken' \in [Shard -> [r : Nat, d : Nat]]
    BY <1>0, <1>1, <2>1 DEF TypeOK
  <2> QED BY <1>0, <1>1, <1>2, <2>2 DEF TypeOK, Shard
<1>7. OneEntryPerPK' /\ CountIsExact'
  <2>1. CountedAll' = CountedAll
    BY <1>2, CountedSame
  <2> QED BY <1>1, <2>1 DEF IndexIInv, OneEntryPerPK, CountIsExact, CountedAll
<1>8. MergeInv'
  <2>1. MergePhases'
    <3>1. \A s \in Shard : s > m => taken'[s] = NoRange
      BY <1>0, <1>1 DEF MergeInv, MergePhases, TypeOK, Shard, ShardBounds
    <3> QED BY <1>0, <1>1, <3>1 DEF MergeInv, MergePhases
  <2>2. ListsFit'
    <3> SUFFICES ASSUME NEW s \in Shard
                 PROVE  /\ \A q \in Range(dirtyRead'[s]) \cup Range(dirtyDel'[s]) : shardOf[q] = s
                        /\ lock'[s].kind = "read" => dirtyRead'[s] # <<>> /\ dirtyRead'[s][Len(dirtyRead'[s])] = lock'[s].pk
                        /\ lock'[s].kind # "free" => shardOf[lock'[s].pk] = s
                        /\ Kept(s)'.r <= Counted(s)' /\ Kept(s)'.d <= Len(dirtyDel'[s])
      BY DEF ListsFit, Shard
    <3>1. Kept(s)'.r <= Counted(s)' /\ Kept(s)'.d <= Len(dirtyDel'[s])
      <4>1. Kept(s).r <= Counted(s) /\ Kept(s).d <= Len(dirtyDel[s]) /\ Len(dirtyDel[s]) \in Nat
            /\ Len(dirtyRead[s]) \in Nat
        BY <1>0, ListFacts
      <4> QED BY <1>1, <1>2, <4>1
    <3> QED BY <1>0, <1>1, <3>1 DEF ListsFit
  <2>3. WorkIsCovered'
    <3>1. Range(batch') \subseteq PK /\ changed \subseteq PK
      BY <1>0, <1>2, RangeIsBetween DEF TypeOK
    <3>2. \A q \in Range(batch') : Covered(q)'
      BY <1>2, <3>1
    <3>3. \A q \in changed : Covered(q)'
      BY <1>0, <1>2, <1>4, <1>5, <3>1 DEF MergeInv, WorkIsCovered
    <3> QED BY <1>1, <3>2, <3>3 DEF WorkIsCovered
  <2>4. RevFollowsRow'
    <3>1. ASSUME NEW q \in PK
          PROVE  Late(q)' \/ q \in Range(batch') \/ rev'[q] = KeyFromCells(row'[q])
      <4>1. Late(q) \/ rev[q] = KeyFromCells(row[q])
        BY <1>0, <1>3 DEF MergeInv, RevFollowsRow
      <4> QED BY <1>1, <1>2, <1>4, <4>1 DEF Late
    <3> QED BY <1>1, <3>1 DEF RevFollowsRow
  <2>5. EntriesFollowRev'
    BY <1>0, <1>1 DEF MergeInv, EntriesFollowRev
  <2>6. LiveIsRead'
    BY <1>0, <1>1, <1>2 DEF MergeInv, LiveIsRead
  <2> QED BY <2>1, <2>2, <2>3, <2>4, <2>5, <2>6 DEF MergeInv
<1>9. ReaderInv'
  <2>1. ASSUME NEW q \in PK
        PROVE  /\ CountedWritesSuffice(q) => CountedWritesSuffice(q)'
               /\ Safe(q) => Safe(q)'
    <3>1. CountedWritesSuffice(q) => CountedWritesSuffice(q)'
      BY <1>1, <1>2, <1>3, <1>4 DEF CountedWritesSuffice
    <3>2. Safe(q) => Safe(q)'
      BY <1>1 DEF Safe
    <3> QED BY <3>1, <3>2
  <2> QED BY <1>0, <1>1, <1>2, <2>1, ReaderUntouched
<1> QED BY <1>6, <1>7, <1>8, <1>9 DEF IndexIInv

\* getByPKProjectInto of the next key.
LEMMA ProjectKeeps ==
    ASSUME ShardBounds, NullIsNoKey, IndexIInv, MergeProject
    PROVE  IndexIInv'
<1>0. TypeOK /\ MergeInv /\ ReaderInv /\ ListsFit
  BY DEF IndexIInv, MergeInv
<1>1. /\ mpc = "project" /\ mpc' = "apply" /\ batch # <<>> /\ seen' = row[Head(batch)]
      /\ UNCHANGED <<row, dirtyRead, dirtyDel, lock, writes, count, rev, entries, mshard, batch, taken,
                     changed, reader, reads>>
  BY DEF MergeProject, tableVars
<1>2. \A s \in Shard : Kept(s)' = Kept(s)
  BY <1>1 DEF Kept
<1>3. /\ ListsFit' /\ CountedAll' = CountedAll
      /\ \A p \in PK :
                /\ LateRead(p)' = LateRead(p) /\ LateDel(p)' = LateDel(p) /\ Late(p)' = Late(p)
                /\ InRead(p)' = InRead(p) /\ InDel(p)' = InDel(p) /\ Covered(p)' = Covered(p)
                /\ Overlaid(p)' = Overlaid(p) /\ OverlaidLate(p)' = OverlaidLate(p)
  BY <1>0, <1>1, <1>2, MergeFrame
<1>4. TypeOK'
  <2>1. Head(batch) \in PK
    BY <1>0, <1>1 DEF TypeOK
  <2> QED BY <1>0, <1>1, <2>1 DEF TypeOK, Shard
<1>5. OneEntryPerPK' /\ CountIsExact'
  BY <1>1, <1>3 DEF IndexIInv, OneEntryPerPK, CountIsExact, CountedAll
<1>6. MergeInv'
  <2>1. MergePhases'
    BY <1>0, <1>1 DEF MergeInv, MergePhases, Drops, Shard
  <2>2. WorkIsCovered'
    <3>1. Range(batch) \cup changed \subseteq PK
      BY <1>0, RangeIsBetween DEF TypeOK
    <3> QED BY <1>0, <1>1, <1>3, <3>1 DEF MergeInv, WorkIsCovered
  <2>3. RevFollowsRow'
    BY <1>0, <1>1, <1>3 DEF MergeInv, RevFollowsRow
  <2>4. EntriesFollowRev' /\ LiveIsRead'
    BY <1>0, <1>1, <1>3 DEF MergeInv, EntriesFollowRev, LiveIsRead
  <2> QED BY <1>3, <2>1, <2>2, <2>3, <2>4 DEF MergeInv
<1>7. ReaderInv'
  <2>1. ASSUME NEW q \in PK
        PROVE  /\ CountedWritesSuffice(q) => CountedWritesSuffice(q)'
               /\ Safe(q) => Safe(q)'
    BY <1>1, <1>3 DEF CountedWritesSuffice, Safe
  <2> QED BY <1>0, <1>1, <1>3, <2>1, ReaderUntouched
<1> QED BY <1>4, <1>5, <1>6, <1>7 DEF IndexIInv

\* secIndex.apply with the projected cell.
LEMMA ApplyKeeps ==
    ASSUME ShardBounds, NullIsNoKey, IndexKinds, IndexIInv, MergeApply
    PROVE  IndexIInv'
<1>0. TypeOK /\ MergeInv /\ ReaderInv /\ ListsFit
  BY DEF IndexIInv, MergeInv
<1>1. /\ mpc = "apply" /\ mpc' = "project" /\ batch' = Tail(batch) /\ seen' = Absent
      /\ Apply(Head(batch), KeyFromCells(seen))
      /\ UNCHANGED <<row, dirtyRead, dirtyDel, lock, writes, count, mshard, taken, reader, reads>>
  BY DEF MergeApply, tableVars
<1>2. \A s \in Shard : Kept(s)' = Kept(s)
  BY <1>1 DEF Kept
<1>3. /\ ListsFit' /\ CountedAll' = CountedAll
      /\ \A p \in PK :
                /\ LateRead(p)' = LateRead(p) /\ LateDel(p)' = LateDel(p) /\ Late(p)' = Late(p)
                /\ InRead(p)' = InRead(p) /\ InDel(p)' = InDel(p) /\ Covered(p)' = Covered(p)
                /\ Overlaid(p)' = Overlaid(p) /\ OverlaidLate(p)' = OverlaidLate(p)
  BY <1>0, <1>1, <1>2, MergeFrame
<1>4. batch # <<>> /\ batch \in Seq(PK)
  BY <1>0, <1>1 DEF MergeInv, MergePhases, TypeOK
<1>5. Head(batch) \in PK /\ Tail(batch) \in Seq(PK) /\ Range(batch) = {Head(batch)} \cup Range(Tail(batch))
  BY <1>4, RangeSplits
<1>6. PICK h \in PK : h = Head(batch)
  BY <1>5
<1>7. PICK key \in Cell : key = KeyFromCells(seen)
  BY DEF KeyFromCells, Cell
<1>8. /\ rev' = [rev EXCEPT ![h] = key]
      /\ Ordered => changed' = (IF key = rev[h] THEN changed ELSE changed \cup {h}) /\ entries' = entries
      /\ ~Ordered => /\ changed' = changed
                     /\ entries' = IF key = rev[h] THEN entries
                                   ELSE (entries \ {<<rev[h], h>>}) \cup (IF key \in Key THEN {<<key, h>>} ELSE {})
  BY <1>1, <1>6, <1>7 DEF Apply
<1>9. rev'[h] = key /\ \A q \in PK \ {h} : rev'[q] = rev[q]
  BY <1>0, <1>8 DEF TypeOK
<1>10. ~Ordered => changed = {}
  BY <1>0 DEF MergeInv, MergePhases
<1>11. Covered(h) /\ Range(batch') \subseteq Range(batch) /\ Range(batch) \subseteq PK
       /\ \A q \in Range(batch) : q = h \/ q \in Range(batch')
  BY <1>0, <1>1, <1>4, <1>5, <1>6, RangeIsBetween DEF MergeInv, WorkIsCovered
<1>12. TypeOK'
  <2>1. rev' \in [PK -> Cell]
    BY <1>0, <1>8 DEF TypeOK
  <2>2. entries' \subseteq Key \X PK
    BY <1>0, <1>8 DEF TypeOK
  <2>3. changed' \subseteq PK
    BY <1>0, <1>8 DEF TypeOK
  <2> QED BY <1>0, <1>1, <1>5, <2>1, <2>2, <2>3 DEF TypeOK, Shard
<1>13. \A k \in Key : h \notin changed => (<<k, h>> \in entries <=> rev[h] = k)
  BY <1>0 DEF MergeInv, EntriesFollowRev
<1>14. OneEntryPerPK'
  <2>1. CASE Ordered \/ key = rev[h]
    BY <1>8, <2>1 DEF IndexIInv, OneEntryPerPK
  <2>2. CASE ~Ordered /\ key # rev[h]
    <3>1. entries' = (entries \ {<<rev[h], h>>}) \cup (IF key \in Key THEN {<<key, h>>} ELSE {})
      BY <1>8, <2>2
    <3>2. \A e \in entries : e \in Key \X PK /\ e = <<e[1], e[2]>>
      BY <1>0 DEF TypeOK
    <3>3. \A e \in entries \ {<<rev[h], h>>} : e[2] # h
      BY <1>10, <1>13, <2>2, <3>2
    <3> QED BY <3>1, <3>3 DEF IndexIInv, OneEntryPerPK
  <2> QED BY <2>1, <2>2
<1>15. CountIsExact'
  BY <1>1, <1>3 DEF IndexIInv, CountIsExact, CountedAll
<1>16. MergeInv'
  <2>1. MergePhases'
    BY <1>0, <1>1, <1>8, <1>10 DEF MergeInv, MergePhases
  <2>2. WorkIsCovered'
    <3>1. \A q \in changed : q \in PK /\ Covered(q)
      BY <1>0 DEF MergeInv, WorkIsCovered, TypeOK
    <3>2. \A q \in Range(batch) : Covered(q)
      BY <1>0 DEF MergeInv, WorkIsCovered
    <3>3. \A q \in changed' : q \in changed \/ q = h
      BY <1>8
    <3> QED BY <1>3, <1>11, <3>1, <3>2, <3>3 DEF WorkIsCovered
  <2>3. RevFollowsRow'
    <3>1. ASSUME NEW q \in PK
          PROVE  Late(q)' \/ q \in Range(batch') \/ rev'[q] = KeyFromCells(row'[q])
      <4>1. CASE q # h
        BY <1>0, <1>1, <1>3, <1>9, <1>11, <4>1 DEF MergeInv, RevFollowsRow
      <4>2. CASE q = h
        <5>1. Late(h) \/ seen = row[h]
          BY <1>0, <1>1, <1>6 DEF MergeInv, RevFollowsRow
        <5> QED BY <1>1, <1>3, <1>7, <1>9, <4>2, <5>1
      <4> QED BY <4>1, <4>2
    <3> QED BY <1>1, <3>1 DEF RevFollowsRow
  <2>4. EntriesFollowRev'
    <3> SUFFICES ASSUME NEW q \in PK, q \notin changed', NEW k \in Key
                 PROVE  <<k, q>> \in entries' <=> rev'[q] = k
      BY DEF EntriesFollowRev
    <3>1. q \notin changed /\ (<<k, q>> \in entries <=> rev[q] = k)
      BY <1>0, <1>8 DEF MergeInv, EntriesFollowRev
    <3>2. CASE q # h
      BY <1>8, <1>9, <3>1, <3>2
    <3>3. CASE q = h
      BY <1>8, <1>9, <3>1, <3>3
    <3> QED BY <3>2, <3>3
  <2>5. LiveIsRead'
    BY <1>0, <1>1, <1>3 DEF MergeInv, LiveIsRead
  <2> QED BY <1>3, <2>1, <2>2, <2>3, <2>4, <2>5 DEF MergeInv
<1>17. ReaderInv'
  <2>1. ASSUME NEW q \in PK
        PROVE  /\ CountedWritesSuffice(q) => CountedWritesSuffice(q)'
               /\ Safe(q) => Safe(q)'
    <3>1. CASE q # h
      <4>1. q \in changed' <=> q \in changed
        BY <1>8, <3>1
      <4>2. CountedWritesSuffice(q) => CountedWritesSuffice(q)'
        BY <1>1, <1>3, <1>9, <1>11, <3>1 DEF CountedWritesSuffice
      <4>3. Safe(q) => Safe(q)'
        BY <1>1, <1>9, <3>1, <4>1 DEF Safe
      <4> QED BY <4>2, <4>3
    <3>2. CASE q = h
      <4>1. CountedWritesSuffice(q) => CountedWritesSuffice(q)'
        BY <1>1, <1>3, <1>6, <1>7, <1>9, <3>2 DEF CountedWritesSuffice
      <4>2. Safe(q) => Safe(q)'
        BY <1>1, <1>6, <1>7, <1>8, <1>9, <3>2 DEF Safe
      <4> QED BY <4>1, <4>2
    <3> QED BY <3>1, <3>2
  <2> QED BY <1>0, <1>1, <1>3, <2>1, ReaderUntouched
<1> QED BY <1>12, <1>14, <1>15, <1>16, <1>17 DEF IndexIInv

\* The batch of a shard is done.
LEMMA NextShardKeeps ==
    ASSUME ShardBounds, NullIsNoKey, IndexIInv, MergeNextShard
    PROVE  IndexIInv'
<1>0. TypeOK /\ MergeInv /\ ReaderInv /\ ListsFit
  BY DEF IndexIInv, MergeInv
<1>1. /\ mpc = "project" /\ batch = <<>>
      /\ \/ mshard < NShards /\ mshard' = mshard + 1 /\ mpc' = "snapshot"
         \/ mshard = NShards /\ mshard' = 0 /\ mpc' = IF Drops = {} THEN "idle" ELSE "fold"
      /\ UNCHANGED <<row, dirtyRead, dirtyDel, lock, writes, count, rev, entries, batch, seen, taken,
                     changed, reader, reads>>
  BY DEF MergeNextShard, tableVars
<1>2. \A s \in Shard : Kept(s)' = Kept(s)
  BY <1>1 DEF Kept
<1>3. /\ ListsFit' /\ CountedAll' = CountedAll
      /\ \A p \in PK :
                /\ LateRead(p)' = LateRead(p) /\ LateDel(p)' = LateDel(p) /\ Late(p)' = Late(p)
                /\ InRead(p)' = InRead(p) /\ InDel(p)' = InDel(p) /\ Covered(p)' = Covered(p)
                /\ Overlaid(p)' = Overlaid(p) /\ OverlaidLate(p)' = OverlaidLate(p)
  BY <1>0, <1>1, <1>2, MergeFrame
<1>4. TypeOK'
  <2>1. mshard' \in 0..NShards /\ mpc' \in {"snapshot", "idle", "fold"}
    BY <1>0, <1>1 DEF TypeOK, ShardBounds
  <2> QED BY <1>0, <1>1, <2>1 DEF TypeOK, Shard
<1>5. OneEntryPerPK' /\ CountIsExact'
  BY <1>1, <1>3 DEF IndexIInv, OneEntryPerPK, CountIsExact, CountedAll
<1>6. MergeInv'
  <2>1. Drops = {} => changed = {}
    <3> SUFFICES ASSUME Drops = {}, NEW p \in changed PROVE FALSE
      OBVIOUS
    <3>1. p \in PK /\ Covered(p) /\ shardOf[p] \in Shard
      BY <1>0 DEF MergeInv, WorkIsCovered, TypeOK, ShardBounds
    <3>2. Kept(shardOf[p]) = NoRange
      BY <1>1, <3>1 DEF Drops, Kept
    <3> QED BY <3>1, <3>2 DEF Covered, Between, NoRange
  <2>2. MergePhases'
    <3>1. CASE mshard < NShards /\ mshard' = mshard + 1 /\ mpc' = "snapshot"
      <4>1. mshard \in 0..NShards /\ mshard' # 0
        BY <1>0, <3>1 DEF TypeOK, ShardBounds
      <4>2. \A s \in Shard : s >= mshard' => taken[s] = NoRange
        BY <1>0, <1>1, <3>1, <4>1 DEF MergeInv, MergePhases, Shard, ShardBounds
      <4> QED BY <1>0, <1>1, <3>1, <4>1, <4>2 DEF MergeInv, MergePhases
    <3>2. CASE mshard = NShards /\ mshard' = 0 /\ mpc' = IF Drops = {} THEN "idle" ELSE "fold"
      <4>1. Drops' = Drops
        BY <1>1 DEF Drops, Shard
      <4> QED BY <1>0, <1>1, <2>1, <3>2, <4>1 DEF MergeInv, MergePhases
    <3> QED BY <1>1, <3>1, <3>2
  <2>3. WorkIsCovered'
    <3>1. Range(batch) \cup changed \subseteq PK
      BY <1>0, RangeIsBetween DEF TypeOK
    <3> QED BY <1>0, <1>1, <1>3, <3>1 DEF MergeInv, WorkIsCovered
  <2>4. RevFollowsRow'
    BY <1>0, <1>1, <1>3 DEF MergeInv, RevFollowsRow
  <2>5. EntriesFollowRev' /\ LiveIsRead'
    BY <1>0, <1>1, <1>3 DEF MergeInv, EntriesFollowRev, LiveIsRead
  <2> QED BY <1>3, <2>2, <2>3, <2>4, <2>5 DEF MergeInv
<1>7. ReaderInv'
  <2>1. ASSUME NEW q \in PK
        PROVE  /\ CountedWritesSuffice(q) => CountedWritesSuffice(q)'
               /\ Safe(q) => Safe(q)'
    BY <1>1, <1>3 DEF CountedWritesSuffice, Safe
  <2> QED BY <1>0, <1>1, <1>3, <2>1, ReaderUntouched
<1> QED BY <1>4, <1>5, <1>6, <1>7 DEF IndexIInv

\* The least of the shards to drop is one of them.
LEMMA MinOfDrops ==
    ASSUME ShardBounds, NEW S, S \subseteq Shard, S # {}
    PROVE  Min(S) \in S
<1>1. S \in SUBSET Nat
  BY DEF Shard, ShardBounds
<1>2. \E x \in S : \A y \in S : x <= y
  BY <1>1, NatMin
<1> QED BY <1>2 DEF Min

\* mergeSorted.
LEMMA FoldKeeps ==
    ASSUME ShardBounds, NullIsNoKey, IndexIInv, MergeFold
    PROVE  IndexIInv'
<1>0. TypeOK /\ MergeInv /\ ReaderInv /\ ListsFit
  BY DEF IndexIInv, MergeInv
<1>1. /\ mpc = "fold" /\ mpc' = "drop" /\ mshard' = Min(Drops) /\ changed' = {}
      /\ entries' = {e \in entries : e[2] \notin changed}
                  \cup {<<rev[p], p>> : p \in {q \in changed : rev[q] \in Key}}
      /\ UNCHANGED <<row, dirtyRead, dirtyDel, lock, writes, count, rev, batch, seen, taken,
                     reader, reads>>
  BY DEF MergeFold, tableVars
<1>2. \A s \in Shard : Kept(s)' = Kept(s)
  BY <1>1 DEF Kept
<1>3. /\ ListsFit' /\ CountedAll' = CountedAll
      /\ \A p \in PK :
                /\ LateRead(p)' = LateRead(p) /\ LateDel(p)' = LateDel(p) /\ Late(p)' = Late(p)
                /\ InRead(p)' = InRead(p) /\ InDel(p)' = InDel(p) /\ Covered(p)' = Covered(p)
                /\ Overlaid(p)' = Overlaid(p) /\ OverlaidLate(p)' = OverlaidLate(p)
  BY <1>0, <1>1, <1>2, MergeFrame
<1>4. mshard' \in Drops /\ Drops' = Drops
  <2>1. Drops # {} /\ Drops \subseteq Shard
    BY <1>0, <1>1 DEF MergeInv, MergePhases, Drops
  <2>2. Drops' = Drops
    BY <1>1 DEF Drops, Shard
  <2> QED BY <1>1, <2>1, <2>2, MinOfDrops
<1>5. \A e \in entries : e \in Key \X PK /\ e = <<e[1], e[2]>> /\ e[2] \in PK /\ e[1] \in Key
  BY <1>0 DEF TypeOK
<1>6. TypeOK'
  <2>1. mshard' \in 0..NShards
    BY <1>4 DEF Drops, Shard, ShardBounds
  <2>2. entries' \subseteq Key \X PK
    BY <1>0, <1>1, <1>5 DEF TypeOK
  <2> QED BY <1>0, <1>1, <2>1, <2>2 DEF TypeOK, Shard
<1>7. OneEntryPerPK'
  BY <1>1 DEF IndexIInv, OneEntryPerPK
<1>8. CountIsExact'
  BY <1>1, <1>3 DEF IndexIInv, CountIsExact, CountedAll
<1>9. MergeInv'
  <2>1. MergePhases'
    BY <1>0, <1>1, <1>4 DEF MergeInv, MergePhases
  <2>2. WorkIsCovered'
    <3>1. Range(batch) \subseteq PK
      BY <1>0, RangeIsBetween DEF TypeOK
    <3> QED BY <1>0, <1>1, <1>3, <3>1 DEF MergeInv, WorkIsCovered
  <2>3. RevFollowsRow' /\ LiveIsRead'
    BY <1>0, <1>1, <1>3 DEF MergeInv, RevFollowsRow, LiveIsRead
  <2>4. EntriesFollowRev'
    <3> SUFFICES ASSUME NEW q \in PK, NEW k \in Key
                 PROVE  <<k, q>> \in entries' <=> rev[q] = k
      BY <1>1 DEF EntriesFollowRev
    <3>1. CASE q \in changed
      BY <1>1, <3>1
    <3>2. CASE q \notin changed
      <4>1. <<k, q>> \in entries <=> rev[q] = k
        BY <1>0, <3>2 DEF MergeInv, EntriesFollowRev
      <4> QED BY <1>1, <3>2, <4>1
    <3> QED BY <3>1, <3>2
  <2> QED BY <1>3, <2>1, <2>2, <2>3, <2>4 DEF MergeInv
<1>10. ReaderInv'
  <2>1. ASSUME NEW q \in PK
        PROVE  /\ CountedWritesSuffice(q) => CountedWritesSuffice(q)'
               /\ Safe(q) => Safe(q)'
    BY <1>1, <1>3 DEF CountedWritesSuffice, Safe
  <2> QED BY <1>0, <1>1, <1>3, <2>1, ReaderUntouched
<1> QED BY <1>6, <1>7, <1>8, <1>9, <1>10 DEF IndexIInv

\* The prefixes that the merge covered are dropped.
LEMMA DropKeeps ==
    ASSUME ShardBounds, NullIsNoKey, IndexIInv, MergeDrop
    PROVE  IndexIInv'
<1> DEFINE m == mshard
<1>0. TypeOK /\ MergeInv /\ ReaderInv /\ ListsFit
  BY DEF IndexIInv, MergeInv
<1>1. /\ mpc = "drop" /\ mpc' = "uncount" /\ lock[m] = None
      /\ reader' = [r \in Readers |-> [reader[r] EXCEPT !.dropped = @ \/ reader[r].pc # "idle"]]
      /\ UNCHANGED <<row, lock, writes, count, rev, entries, mshard, batch, seen, taken, changed, reads>>
  BY DEF MergeDrop, Free
<1>2. m \in Drops /\ m \in Shard /\ batch = <<>> /\ changed = {} /\ Range(batch) = {}
  BY <1>0, <1>1 DEF MergeInv, MergePhases, Drops, Range
<1>3. /\ \A s \in Shard : Kept(s)' = IF s = mshard THEN NoRange ELSE Kept(s)
      /\ \A s \in Shard : Counted(s)' = IF s = mshard THEN Counted(s) - taken[s].r ELSE Counted(s)
      /\ dirtyRead' \in [Shard -> Seq(PK)] /\ dirtyDel' \in [Shard -> Seq(PK)]
      /\ \A s \in Shard : /\ Range(dirtyRead'[s]) \subseteq Range(dirtyRead[s])
                          /\ Range(dirtyDel'[s]) \subseteq Range(dirtyDel[s])
      /\ \A q \in PK :
                /\ LateDel(q)' = LateDel(q) /\ LateRead(q)' = LateRead(q)
                /\ OverlaidLate(q)' = OverlaidLate(q)
                /\ shardOf[q] # mshard => /\ InDel(q)' = InDel(q) /\ InRead(q)' = InRead(q)
                                          /\ Overlaid(q)' = Overlaid(q)
                /\ shardOf[q] = mshard => /\ InDel(q)' = LateDel(q) /\ InRead(q)' = LateRead(q)
                                          /\ Overlaid(q)' = OverlaidLate(q)
  BY <1>0, <1>2, DropViews
<1>4. ASSUME NEW r \in Readers
      PROVE  /\ reader'[r] \in ReaderState
             /\ reader'[r].pc = reader[r].pc /\ reader'[r].kind = reader[r].kind
             /\ reader'[r].key = reader[r].key /\ reader'[r].pks = reader[r].pks
             /\ reader'[r].dirty = reader[r].dirty /\ reader'[r].shard = reader[r].shard
             /\ reader'[r].todo = reader[r].todo /\ reader'[r].check = reader[r].check
             /\ reader'[r].res = reader[r].res
             /\ reader'[r].must = reader[r].must
             /\ reader'[r].touched = reader[r].touched
             /\ reader'[r].dropped = (reader[r].dropped \/ reader[r].pc # "idle")
  <2> DEFINE x == reader[r]
             b == x.dropped \/ x.pc # "idle"
  <2>1. x \in ReaderState /\ b \in BOOLEAN
    BY <1>0 DEF TypeOK
  <2>2. reader'[r] = [x EXCEPT !.dropped = b]
    BY <1>1
  <2> HIDE DEF b, x
  <2>3. /\ reader'[r].pc = x.pc /\ reader'[r].kind = x.kind
        /\ reader'[r].key = x.key /\ reader'[r].pks = x.pks
        /\ reader'[r].dirty = x.dirty /\ reader'[r].shard = x.shard
    BY <2>1, <2>2 DEF ReaderState
  <2>4. /\ reader'[r].todo = x.todo /\ reader'[r].check = x.check
        /\ reader'[r].res = x.res /\ reader'[r].must = x.must
        /\ reader'[r].touched = x.touched /\ reader'[r].dropped = b
    BY <2>1, <2>2 DEF ReaderState
  <2>5. reader'[r] \in ReaderState
    BY <2>1, <2>2 DEF ReaderState
  <2> QED BY <2>3, <2>4, <2>5 DEF b, x
<1>5. TypeOK'
  <2>1. reader' \in [Readers -> ReaderState]
    BY <1>1, <1>4
  <2> QED BY <1>0, <1>1, <1>3, <2>1 DEF TypeOK, Shard
<1>6. OneEntryPerPK'
  BY <1>1 DEF IndexIInv, OneEntryPerPK
<1>7. CountIsExact'
  <2> DEFINE n == 0 - taken[m].r
  <2>1. taken[m].r \in Nat /\ \A s \in Shard : Counted(s) \in Nat
    BY <1>0, <1>2, ListFacts
  <2>2. \A s \in Shard : Counted(s)' = IF s = m THEN Counted(s) + n ELSE Counted(s)
    BY <1>3, <2>1
  <2>3. n \in Int
    BY <2>1
  <2>4. CountedAll' = CountedAll + n
    <3> HIDE DEF n
    <3> QED BY <1>0, <1>2, <2>2, <2>3, CountedStep
  <2>5. CountedAll \in Nat
    BY <1>0, CountedTotal
  <2>6. count = CountedAll
    BY <1>1, <2>5 DEF IndexIInv, CountIsExact, CountedAll
  <2>7. count' = CountedAll' + taken'[mshard'].r
    BY <1>1, <2>1, <2>4, <2>5, <2>6
  <2> QED BY <1>1, <2>7 DEF CountIsExact, CountedAll
<1>8. MergeInv'
  <2>1. MergePhases'
    <3>1. Drops' = Drops
      BY <1>1 DEF Drops, Shard
    <3> QED BY <1>0, <1>1, <1>2, <3>1 DEF MergeInv, MergePhases
  <2>2. ListsFit'
    <3> SUFFICES ASSUME NEW s \in Shard
                 PROVE  /\ \A q \in Range(dirtyRead'[s]) \cup Range(dirtyDel'[s]) : shardOf[q] = s
                        /\ lock'[s].kind = "read" => dirtyRead'[s] # <<>> /\ dirtyRead'[s][Len(dirtyRead'[s])] = lock'[s].pk
                        /\ lock'[s].kind # "free" => shardOf[lock'[s].pk] = s
                        /\ Kept(s)'.r <= Counted(s)' /\ Kept(s)'.d <= Len(dirtyDel'[s])
      BY DEF ListsFit, Shard
    <3>1. \A q \in Range(dirtyRead'[s]) \cup Range(dirtyDel'[s]) : shardOf[q] = s
      BY <1>0, <1>3 DEF ListsFit
    <3>2. CASE s = m
      <4>1. lock'[s].kind = "free"
        BY <1>1, <3>2 DEF None
      <4>2. Kept(s)'.r = 0 /\ Kept(s)'.d = 0
        BY <1>3, <3>2 DEF NoRange
      <4>3. Counted(s) \in Nat /\ taken[s].r \in Nat /\ taken[s].r <= Counted(s)
        <5>1. Kept(s) = taken[s]
          BY <1>1 DEF Kept
        <5> QED BY <1>0, <5>1, ListFacts
      <4>4. Counted(s)' >= 0 /\ Len(dirtyDel'[s]) >= 0
        BY <1>3, <3>2, <4>3
      <4>5. Counted(s)' \in Int /\ Len(dirtyDel'[s]) \in Int
        BY <1>3, <3>2, <4>3
      <4>6. Kept(s)'.r <= Counted(s)' /\ Kept(s)'.d <= Len(dirtyDel'[s])
        BY <4>2, <4>4, <4>5
      <4> QED BY <3>1, <4>1, <4>6
    <3>3. CASE s # m
      <4>1. dirtyRead'[s] = dirtyRead[s] /\ dirtyDel'[s] = dirtyDel[s]
        BY <1>0, <3>3 DEF MergeDrop, TypeOK
      <4>2. Kept(s)' = Kept(s) /\ Counted(s)' = Counted(s)
        BY <1>3, <3>3
      <4> QED BY <1>0, <1>1, <4>1, <4>2 DEF ListsFit
    <3> QED BY <3>2, <3>3
  <2>3. WorkIsCovered'
    BY <1>1, <1>2 DEF WorkIsCovered
  <2>4. RevFollowsRow'
    BY <1>0, <1>1, <1>3 DEF MergeInv, RevFollowsRow, Late
  <2>5. EntriesFollowRev'
    BY <1>0, <1>1 DEF MergeInv, EntriesFollowRev
  <2>6. LiveIsRead'
    BY <1>0, <1>1, <1>3 DEF MergeInv, LiveIsRead
  <2> QED BY <2>1, <2>2, <2>3, <2>4, <2>5, <2>6 DEF MergeInv
<1>9. ReaderInv'
  <2>1. ASSUME NEW q \in PK
        PROVE  /\ CountedWritesSuffice(q) => CountedWritesSuffice(q)'
               /\ Safe(q) => Safe(q)'
    <3>1. CountedWritesSuffice(q) => CountedWritesSuffice(q)'
      BY <1>1, <1>3 DEF CountedWritesSuffice
    <3>2. Safe(q) => Safe(q)'
      BY <1>1 DEF Safe
    <3> QED BY <3>1, <3>2
  <2>2. reader \in [Readers -> ReaderState]
    BY <1>0 DEF TypeOK
  <2>3. \A r \in Readers :
              /\ reader'[r].pc = reader[r].pc /\ reader'[r].kind = reader[r].kind
              /\ reader'[r].key = reader[r].key /\ reader'[r].pks = reader[r].pks
              /\ reader'[r].dirty = reader[r].dirty /\ reader'[r].shard = reader[r].shard
              /\ reader'[r].todo = reader[r].todo /\ reader'[r].check = reader[r].check
              /\ reader'[r].res = reader[r].res
              /\ reader'[r].must \subseteq reader[r].must
              /\ reader[r].touched \subseteq reader'[r].touched
              /\ reader[r].pc # "idle" /\ ~reader'[r].dropped => ~reader[r].dropped
              /\ \A p \in Stable(reader'[r]) : row'[p] = row[p]
    <3> TAKE r \in Readers
    <3>1. \A p \in Stable(reader'[r]) : row'[p] = row[p]
      BY <1>1
    <3> QED BY <1>4, <3>1
  <2>4. \A r \in Readers : reader[r].pc # "idle" /\ ~reader'[r].dropped =>
              \A p \in PK : Overlaid(p) => Overlaid(p)'
    BY <1>4
  <2>5. \A p \in PK : row'[p] = row[p] /\ row[p] # Absent =>
              /\ CountedWritesSuffice(p) => CountedWritesSuffice(p)'
              /\ Safe(p) => Safe(p)'
    BY <2>1
  <2> QED BY <1>0, <2>2, <2>3, <2>4, <2>5, ReaderKept
<1> QED BY <1>5, <1>6, <1>7, <1>8, <1>9 DEF IndexIInv

\* The counter is lowered by what was dropped.
LEMMA UncountKeeps ==
    ASSUME ShardBounds, NullIsNoKey, IndexIInv, MergeUncount
    PROVE  IndexIInv'
<1> DEFINE m == mshard
<1>0. TypeOK /\ MergeInv /\ ReaderInv /\ ListsFit
  BY DEF IndexIInv, MergeInv
<1>1. /\ mpc = "uncount" /\ count' = count - taken[m].r
      /\ taken' = [taken EXCEPT ![m] = NoRange]
      /\ mshard' = IF Drops = {m} THEN 0 ELSE Min(Drops \ {m})
      /\ mpc' = IF Drops = {m} THEN "idle" ELSE "drop"
      /\ UNCHANGED <<row, dirtyRead, dirtyDel, lock, writes, rev, entries, batch, seen, changed,
                     reader, reads>>
  BY DEF MergeUncount, tableVars
<1>2. m \in Drops /\ m \in Shard /\ Drops \subseteq Shard
  BY <1>0, <1>1 DEF MergeInv, MergePhases, Drops
<1>3. \A s \in Shard : taken'[s] = IF s = m THEN NoRange ELSE taken[s]
  BY <1>0, <1>1 DEF TypeOK
<1>4. \A s \in Shard : Kept(s)' = Kept(s)
  BY <1>1, <1>3 DEF Kept
<1>5. /\ ListsFit' /\ CountedAll' = CountedAll
      /\ \A p \in PK :
                /\ LateRead(p)' = LateRead(p) /\ LateDel(p)' = LateDel(p) /\ Late(p)' = Late(p)
                /\ InRead(p)' = InRead(p) /\ InDel(p)' = InDel(p) /\ Covered(p)' = Covered(p)
                /\ Overlaid(p)' = Overlaid(p) /\ OverlaidLate(p)' = OverlaidLate(p)
  BY <1>0, <1>1, <1>4, MergeFrame
<1>6. Drops' = Drops \ {m}
  BY <1>3 DEF Drops, Shard
<1>7. Drops # {m} => mshard' \in Drops'
  <2>1. Drops # {m} => Drops \ {m} # {} /\ Drops \ {m} \subseteq Shard
    BY <1>2
  <2> QED BY <1>1, <1>6, <2>1, MinOfDrops
<1>8. taken[m].r \in Nat /\ CountedAll \in Nat /\ count \in Int
  BY <1>0, <1>2, ListFacts, CountedTotal DEF TypeOK
<1>9. TypeOK'
  <2>1. mshard' \in 0..NShards /\ mpc' \in {"idle", "drop"}
    BY <1>1, <1>2, <1>6, <1>7 DEF Shard, ShardBounds
  <2>2. taken' \in [Shard -> [r : Nat, d : Nat]]
    BY <1>0, <1>1 DEF TypeOK, NoRange
  <2>3. count' \in Int
    BY <1>1, <1>8
  <2> QED BY <1>0, <1>1, <2>1, <2>2, <2>3 DEF TypeOK, Shard
<1>10. OneEntryPerPK'
  BY <1>1 DEF IndexIInv, OneEntryPerPK
<1>11. CountIsExact'
  <2>1. count = CountedAll + taken[m].r
    BY <1>1 DEF IndexIInv, CountIsExact, CountedAll
  <2>2. count' = CountedAll' /\ mpc' # "uncount"
    BY <1>1, <1>5, <1>8, <2>1
  <2> QED BY <1>5, <1>8, <2>2 DEF CountIsExact, CountedAll
<1>12. MergeInv'
  <2>1. MergePhases'
    BY <1>0, <1>1, <1>2, <1>6, <1>7 DEF MergeInv, MergePhases
  <2>2. WorkIsCovered'
    <3>1. Range(batch) \cup changed \subseteq PK
      BY <1>0, RangeIsBetween DEF TypeOK
    <3> QED BY <1>0, <1>1, <1>5, <3>1 DEF MergeInv, WorkIsCovered
  <2>3. RevFollowsRow'
    BY <1>0, <1>1, <1>5 DEF MergeInv, RevFollowsRow
  <2>4. EntriesFollowRev' /\ LiveIsRead'
    BY <1>0, <1>1, <1>5 DEF MergeInv, EntriesFollowRev, LiveIsRead
  <2> QED BY <1>5, <2>1, <2>2, <2>3, <2>4 DEF MergeInv
<1>13. ReaderInv'
  <2>1. ASSUME NEW q \in PK
        PROVE  /\ CountedWritesSuffice(q) => CountedWritesSuffice(q)'
               /\ Safe(q) => Safe(q)'
    BY <1>1, <1>5 DEF CountedWritesSuffice, Safe
  <2> QED BY <1>0, <1>1, <1>5, <2>1, ReaderUntouched
<1> QED BY <1>9, <1>10, <1>11, <1>12, <1>13 DEF IndexIInv

----------------------------------------------------------------------------
(* Readers: what a state says of a row.                                    *)

\* The views of a key are contained in each other as their bounds are.
LEMMA ViewsNest ==
    ASSUME ShardBounds, TypeOK, ListsFit, NEW p \in PK
    PROVE  /\ OverlaidLate(p) => Overlaid(p) /\ LateRead(p)
           /\ Overlaid(p) => InRead(p)
           /\ Late(p) => InRead(p) \/ InDel(p)
           /\ Covered(p) => Overlaid(p) \/ InDel(p)
           /\ (OverlaidLate(p) \/ Overlaid(p)) => Counted(shardOf[p]) >= 1
<1> DEFINE s == shardOf[p]
<1>1. s \in Shard
  BY DEF ShardBounds
<1>2. /\ Len(dirtyRead[s]) \in Nat /\ Len(dirtyDel[s]) \in Nat /\ Kept(s).r \in Nat /\ Kept(s).d \in Nat
      /\ Kept(s).r <= Counted(s) /\ Counted(s) <= Len(dirtyRead[s]) /\ Kept(s).d <= Len(dirtyDel[s])
      /\ Counted(s) \in Nat /\ dirtyRead[s] \in Seq(PK) /\ dirtyDel[s] \in Seq(PK)
  BY <1>1, ListFacts
<1>3. /\ Range(dirtyRead[s]) = Between(dirtyRead[s], 1, Len(dirtyRead[s]))
      /\ Range(dirtyDel[s]) = Between(dirtyDel[s], 1, Len(dirtyDel[s]))
  BY <1>2, RangeIsBetween
<1>4. OverlaidLate(p) => Overlaid(p) /\ LateRead(p)
  BY <1>2 DEF OverlaidLate, Overlaid, LateRead, Between
<1>5. Overlaid(p) => InRead(p)
  BY <1>2, <1>3 DEF Overlaid, InRead, Between
<1>6. Late(p) => InRead(p) \/ InDel(p)
  BY <1>2, <1>3 DEF Late, LateRead, LateDel, InRead, InDel, Between
<1>7. Covered(p) => Overlaid(p) \/ InDel(p)
  BY <1>2, <1>3 DEF Covered, Overlaid, InDel, Between
<1>8. Overlaid(p) => Counted(s) >= 1
  BY <1>2 DEF Overlaid, Between
<1> QED BY <1>4, <1>5, <1>6, <1>7, <1>8

\* The key at the head of the batch is in the batch.
LEMMA HeadIsInBatch ==
    ASSUME TypeOK, MergeInv, mpc = "apply"
    PROVE  Head(batch) \in Range(batch)
<1>1. batch # <<>> /\ batch \in Seq(PK)
  BY DEF MergeInv, MergePhases, TypeOK
<1> QED BY <1>1, RangeSplits

\* A live row that is in no list is safe.
LEMMA UnlistedIsSafe ==
    ASSUME ShardBounds, TypeOK, MergeInv, NEW p \in PK, row[p] # Absent, ~InRead(p)
    PROVE  Safe(p)
<1>0. ListsFit
  BY DEF MergeInv
<1>1. ~InDel(p)
  BY DEF MergeInv, LiveIsRead
<1>2. ~Late(p) /\ ~Covered(p)
  BY <1>0, <1>1, ViewsNest
<1>3. p \notin Range(batch) /\ p \notin changed
  BY <1>2 DEF MergeInv, WorkIsCovered
<1>4. rev[p] = KeyFromCells(row[p])
  BY <1>2, <1>3 DEF MergeInv, RevFollowsRow
<1> QED BY <1>3, <1>4, HeadIsInBatch DEF Safe

\* While the counter reads zero, every row a query relies on is safe.
LEMMA ZeroIsSafe ==
    ASSUME ShardBounds, IndexIInv, count = 0, NEW p \in PK, row[p] # Absent, CountedWritesSuffice(p)
    PROVE  Safe(p) /\ ~Overlaid(p)
<1>0. TypeOK /\ MergeInv /\ ListsFit
  BY DEF IndexIInv, MergeInv
<1>1. Counted(shardOf[p]) = 0
  <2>1. shardOf[p] \in Shard
    BY DEF ShardBounds
  <2>2. CountedAll \in Nat /\ Counted(shardOf[p]) <= CountedAll /\ Counted(shardOf[p]) \in Nat
    BY <1>0, <2>1, CountedTotal, ListFacts
  <2>3. mpc = "uncount" => taken[mshard].r \in Nat
    <3>1. mpc = "uncount" => mshard \in Shard
      BY <1>0 DEF MergeInv, MergePhases, Drops
    <3> QED BY <1>0, <3>1, ListFacts
  <2>4. count = CountedAll + (IF mpc = "uncount" THEN taken[mshard].r ELSE 0)
    BY DEF IndexIInv, CountIsExact, CountedAll
  <2>5. CountedAll = 0
    BY <2>2, <2>3, <2>4
  <2> QED BY <2>2, <2>5
<1>2. ~OverlaidLate(p) /\ ~Overlaid(p)
  BY <1>0, <1>1, ViewsNest
<1>3. ~Covered(p)
  BY <1>0, <1>2, ViewsNest DEF CountedWritesSuffice
<1>4. p \notin Range(batch) /\ p \notin changed
  BY <1>0, <1>3 DEF MergeInv, WorkIsCovered
<1>5. rev[p] = KeyFromCells(row[p])
  BY <1>2, <1>4 DEF CountedWritesSuffice
<1> QED BY <1>0, <1>2, <1>4, <1>5, HeadIsInBatch DEF Safe

\* The index has a safe row where it belongs.
LEMMA SafeIsIndexed ==
    ASSUME NullIsNoKey, TypeOK, MergeInv, NEW p \in PK, Safe(p), NEW k \in Key
    PROVE  <<k, p>> \in entries <=> row[p] = k
<1>1. <<k, p>> \in entries <=> rev[p] = k
  BY DEF Safe, MergeInv, EntriesFollowRev
<1> QED BY <1>1 DEF Safe, KeyFromCells, NullIsNoKey, TypeOK, Cell

\* The index has a row a query relies on where it belongs, or a counted write
\* of it is in the overlay.
LEMMA FoundOrOverlaid ==
    ASSUME ShardBounds, NullIsNoKey, TypeOK, MergeInv, NEW p \in PK, CountedWritesSuffice(p), NEW k \in Key
    PROVE  (<<k, p>> \in entries <=> row[p] = k) \/ Overlaid(p)
<1> SUFFICES ASSUME ~Overlaid(p) PROVE <<k, p>> \in entries <=> row[p] = k
  OBVIOUS
<1>0. ListsFit
  BY DEF MergeInv
<1>1. ~OverlaidLate(p) /\ ~Covered(p)
  BY <1>0, ViewsNest DEF CountedWritesSuffice
<1>2. p \notin Range(batch) /\ p \notin changed
  BY <1>1 DEF MergeInv, WorkIsCovered
<1>3. Safe(p)
  BY <1>1, <1>2 DEF CountedWritesSuffice, Safe
<1> QED BY <1>3, SafeIsIndexed

\* A row that nobody is writing is held up by counted writes alone.
LEMMA UnwrittenIsCounted ==
    ASSUME ShardBounds, TypeOK, MergeInv, NEW p \in PK, row[p] # Absent, p \notin BeingWritten
    PROVE  CountedWritesSuffice(p)
<1> DEFINE s == shardOf[p]
<1>0. s \in Shard /\ ListsFit
  BY DEF ShardBounds, MergeInv
<1>1. /\ Len(dirtyRead[s]) \in Nat /\ Kept(s).r \in Nat /\ Counted(s) \in Nat
      /\ Counted(s) <= Len(dirtyRead[s]) /\ Len(dirtyRead[s]) <= Counted(s) + 1
      /\ dirtyRead[s] \in Seq(PK)
  BY <1>0, ListFacts
<1>2. Counted(s) = Len(dirtyRead[s]) \/ dirtyRead[s][Len(dirtyRead[s])] # p
  <2> SUFFICES ASSUME Counted(s) # Len(dirtyRead[s]), dirtyRead[s][Len(dirtyRead[s])] = p PROVE FALSE
    OBVIOUS
  <2>1. lock[s].kind = "read" /\ lock[s].pk = p
    BY <1>0 DEF Counted, ListsFit
  <2>2. ~Free(s)
    BY <2>1 DEF Free, None
  <2> QED BY <1>0, <2>1, <2>2 DEF BeingWritten
<1>3. \A n \in 1..Len(dirtyRead[s]) : dirtyRead[s][n] = p => n <= Counted(s)
  BY <1>1, <1>2
<1>4. LateRead(p) => OverlaidLate(p)
  BY <1>1, <1>3 DEF LateRead, OverlaidLate, Between
<1>5. InRead(p) => Overlaid(p)
  <2>1. Range(dirtyRead[s]) = Between(dirtyRead[s], 1, Len(dirtyRead[s]))
    BY <1>1, RangeIsBetween
  <2> QED BY <1>1, <1>3, <2>1 DEF InRead, Overlaid, Between
<1> QED BY <1>4, <1>5 DEF CountedWritesSuffice, MergeInv, RevFollowsRow, LiveIsRead, Late

\* A step of one reader needs to account for that reader only.
LEMMA ReadStep ==
    ASSUME ShardBounds, IndexIInv, NEW r \in Readers, NEW q \in ReaderState,
           SetReader(r, q), reads' \in 0..MaxReads,
           \A p \in q.must : row[p] = q.key,
           q.pc # "idle" => \A p \in Stable(q) : row[p] # Absent => CountedWritesSuffice(p),
           ReaderProgress(q)
    PROVE  IndexIInv'
<1>0. TypeOK /\ MergeInv /\ ReaderInv /\ ListsFit
  BY DEF IndexIInv, MergeInv
<1>1. /\ reader' = [reader EXCEPT ![r] = q]
      /\ UNCHANGED <<row, dirtyRead, dirtyDel, lock, writes, count, rev, entries,
                     mpc, mshard, batch, seen, taken, changed>>
  BY DEF SetReader, tableVars, mergeVars
<1>2. \A s \in Shard : Kept(s)' = Kept(s)
  BY <1>1 DEF Kept
<1>3. /\ ListsFit' /\ CountedAll' = CountedAll
      /\ \A p \in PK :
                /\ LateRead(p)' = LateRead(p) /\ LateDel(p)' = LateDel(p) /\ Late(p)' = Late(p)
                /\ InRead(p)' = InRead(p) /\ InDel(p)' = InDel(p) /\ Covered(p)' = Covered(p)
                /\ Overlaid(p)' = Overlaid(p) /\ OverlaidLate(p)' = OverlaidLate(p)
  BY <1>0, <1>1, <1>2, MergeFrame
<1>4. \A u \in Readers : reader'[u] = IF u = r THEN q ELSE reader[u]
  BY <1>0, <1>1 DEF TypeOK
<1>5. TypeOK'
  <2>1. reader' \in [Readers -> ReaderState]
    BY <1>0, <1>1 DEF TypeOK
  <2> QED BY <1>0, <1>1, <2>1 DEF TypeOK, Shard
<1>6. OneEntryPerPK' /\ CountIsExact'
  BY <1>1, <1>3 DEF IndexIInv, OneEntryPerPK, CountIsExact, CountedAll
<1>7. MergeInv'
  <2>1. MergePhases'
    BY <1>0, <1>1 DEF MergeInv, MergePhases, Drops, Shard
  <2>2. WorkIsCovered'
    <3>1. Range(batch) \cup changed \subseteq PK
      BY <1>0, RangeIsBetween DEF TypeOK
    <3> QED BY <1>0, <1>1, <1>3, <3>1 DEF MergeInv, WorkIsCovered
  <2>3. RevFollowsRow'
    BY <1>0, <1>1, <1>3 DEF MergeInv, RevFollowsRow
  <2>4. EntriesFollowRev' /\ LiveIsRead'
    BY <1>0, <1>1, <1>3 DEF MergeInv, EntriesFollowRev, LiveIsRead
  <2> QED BY <1>3, <2>1, <2>2, <2>3, <2>4 DEF MergeInv
<1>8. ReaderInv'
  <2> SUFFICES ASSUME NEW u \in Readers
               PROVE  /\ \A p \in reader'[u].must : row'[p] = reader'[u].key
                      /\ reader'[u].pc # "idle" =>
                            \A p \in Stable(reader'[u]) : row'[p] # Absent => CountedWritesSuffice(p)'
                      /\ ReaderProgress(reader[u])'
    BY DEF ReaderInv
  <2>1. PICK x \in ReaderState : x = reader'[u]
    BY <1>0, <1>4 DEF TypeOK
  <2>2. /\ \A p \in x.must : row[p] = x.key
        /\ x.pc # "idle" => \A p \in Stable(x) : row[p] # Absent => CountedWritesSuffice(p)
        /\ ReaderProgress(x)
    BY <1>0, <1>4, <2>1 DEF ReaderInv
  <2>3. Stable(x) \subseteq PK /\ x.must \subseteq Stable(x)
    BY <2>1 DEF ReaderState, Stable
  <2>4. \A p \in PK : CountedWritesSuffice(p)' = CountedWritesSuffice(p) /\ Safe(p)' = Safe(p)
                      /\ FoundRight(x, p)' = FoundRight(x, p)
    BY <1>1, <1>3 DEF CountedWritesSuffice, Safe, FoundRight
  <2>5. ReaderProgress(x)'
    BY <1>1, <1>3, <2>2, <2>3, <2>4 DEF ReaderProgress
  <2> QED BY <1>1, <2>1, <2>2, <2>3, <2>4, <2>5
<1> QED BY <1>5, <1>6, <1>7, <1>8 DEF IndexIInv

\* What the invariant says of one reader.
LEMMA ReaderFacts ==
    ASSUME IndexIInv, NEW r \in Readers
    PROVE  /\ reader[r] \in ReaderState
           /\ \A p \in reader[r].must : row[p] = reader[r].key
           /\ reader[r].pc # "idle" =>
                 \A p \in Stable(reader[r]) : row[p] # Absent => CountedWritesSuffice(p)
           /\ ReaderProgress(reader[r])
BY DEF IndexIInv, ReaderInv, TypeOK

\* A step of a query that has begun needs to show its progress only.
LEMMA ReadOn ==
    ASSUME ShardBounds, IndexIInv, NEW r \in Readers, NEW q \in ReaderState,
           SetReader(r, q), UNCHANGED reads, reader[r].pc # "idle",
           q.must = reader[r].must, q.touched = reader[r].touched, q.key = reader[r].key,
           ReaderProgress(q)
    PROVE  IndexIInv'
<1>1. \A p \in q.must : row[p] = q.key
  BY ReaderFacts
<1>2. Stable(q) = Stable(reader[r])
  BY DEF Stable
<1>3. \A p \in Stable(q) : row[p] # Absent => CountedWritesSuffice(p)
  BY <1>2, ReaderFacts
<1>4. reads' \in 0..MaxReads
  BY DEF IndexIInv, TypeOK
<1> QED BY <1>1, <1>3, <1>4, ReadStep

\* Loading the counter.
LEMMA CountKeeps ==
    ASSUME ShardBounds, IndexIInv, NEW r \in Readers, ReadCount(r)
    PROVE  IndexIInv'
<1>1. PICK x \in ReaderState : x = reader[r]
  BY ReaderFacts
<1>2. PICK npc \in {"one", "lookup"} : npc = IF count = 0 THEN "one" ELSE "lookup"
  OBVIOUS
<1>3. PICK q \in ReaderState : q = [x EXCEPT !.pc = npc]
  <2>1. [x EXCEPT !.pc = npc] \in ReaderState
    BY DEF ReaderState, ReaderPc
  <2> QED BY <2>1
<1>4. /\ q.pc = npc /\ q.kind = x.kind /\ q.key = x.key /\ q.pks = x.pks /\ q.dirty = x.dirty
      /\ q.shard = x.shard
  BY <1>3 DEF ReaderState
<1>5. /\ q.todo = x.todo /\ q.check = x.check /\ q.res = x.res /\ q.must = x.must
      /\ q.touched = x.touched /\ q.dropped = x.dropped
  BY <1>3 DEF ReaderState
<1>6. x.pc = "count" /\ ReaderProgress(x)
  BY <1>1, ReaderFacts DEF ReadCount
<1>7. ReaderProgress(q)
  <2>1. x.key \in Key /\ x.kind = "exact" /\ x.res = {} /\ x.check
    BY <1>6 DEF ReaderProgress
  <2>2. ASSUME npc = "one", NEW p \in Stable(q), row[p] # Absent PROVE Safe(p)
    <3>1. p \in Stable(x) /\ p \in PK
      BY <1>5, <2>2 DEF Stable, ReaderState
    <3>2. CountedWritesSuffice(p)
      BY <1>1, <1>6, <2>2, <3>1, ReaderFacts
    <3> QED BY <1>2, <2>2, <3>1, <3>2, ZeroIsSafe
  <2> QED BY <1>4, <1>5, <2>1, <2>2 DEF ReaderProgress
<1>8. SetReader(r, q)
  BY <1>1, <1>2, <1>3 DEF ReadCount, SetReader
<1> QED BY <1>1, <1>4, <1>5, <1>6, <1>7, <1>8, ReadOn DEF ReadCount

\* A query begins: the rows that no writer is inside of are counted.
LEMMA QueryBeginKeeps ==
    ASSUME ShardBounds, WorkBounds, NullIsNoKey, IndexIInv, NEW r \in Readers, ReadBegin(r)
    PROVE  IndexIInv'
<1>0. TypeOK /\ MergeInv /\ ListsFit
  BY DEF IndexIInv, MergeInv
<1>1. PICK k \in Key, kind \in {"select", "exact", "join"} :
          SetReader(r, [IdleReader EXCEPT
              !.pc = CASE kind = "select" -> "lookup"
                       [] kind = "exact" -> "count"
                       [] kind = "join" -> "overlay",
              !.kind = kind, !.key = k,
              !.must = Matching(k), !.touched = BeingWritten])
  BY Zenon DEF ReadBegin
<1>2. PICK npc \in {"lookup", "count", "overlay"} :
          /\ npc = CASE kind = "select" -> "lookup"
                     [] kind = "exact" -> "count"
                     [] kind = "join" -> "overlay"
          /\ npc = "count" => kind = "exact"
          /\ npc = "lookup" => kind = "select"
          /\ npc = "overlay" => kind = "join"
  OBVIOUS
<1>3. BeingWritten \subseteq PK
  <2>1. \A s \in Shard : ~Free(s) => lock[s].pk \in PK
    BY <1>0 DEF TypeOK, Free
  <2> QED BY <2>1 DEF BeingWritten
<1>4. PICK w \in SUBSET PK : w = BeingWritten
  BY <1>3
<1>5. PICK m \in SUBSET PK : m = Matching(k)
  BY DEF Matching
<1>6. PICK q \in ReaderState :
          q = [IdleReader EXCEPT !.pc = npc, !.kind = kind, !.key = k, !.must = m, !.touched = w]
  <2>1. [IdleReader EXCEPT !.pc = npc, !.kind = kind, !.key = k, !.must = m, !.touched = w]
           \in ReaderState
    <3>1. 0 \in 0..NShards
      BY DEF ShardBounds
    <3> QED BY <3>1 DEF ReaderState, ReaderPc, IdleReader
  <2> QED BY <2>1
<1>7. /\ q.pc = npc /\ q.kind = kind /\ q.key = k /\ q.must = m /\ q.touched = w
      /\ q.res = {} /\ q.check
  BY <1>6 DEF IdleReader
<1>8. SetReader(r, q)
  BY <1>1, <1>2, <1>4, <1>5, <1>6
<1>9. reads' \in 0..MaxReads
  <2>1. reads < MaxReads /\ reads' = reads + 1
    BY Zenon DEF ReadBegin
  <2> QED BY <1>0, <2>1 DEF TypeOK, WorkBounds
<1>10. \A p \in q.must : row[p] = q.key
  BY <1>5, <1>7 DEF Matching
<1>11. ASSUME NEW p \in Stable(q), row[p] # Absent PROVE CountedWritesSuffice(p)
  <2>1. p \in PK /\ p \notin BeingWritten
    BY <1>4, <1>5, <1>7, <1>11 DEF Stable, Matching
  <2> QED BY <1>0, <1>11, <2>1, UnwrittenIsCounted
<1>12. ReaderProgress(q)
  BY <1>2, <1>7, <1>10 DEF ReaderProgress
<1> QED BY <1>8, <1>9, <1>10, <1>11, <1>12, ReadStep

\* The fast path: the one hit is fetched unchecked, and it is right.
LEMMA LookupOneKeeps ==
    ASSUME ShardBounds, NullIsNoKey, IndexIInv, NEW r \in Readers, ReadLookupOne(r)
    PROVE  IndexIInv'
<1>0. TypeOK /\ MergeInv
  BY DEF IndexIInv
<1>1. PICK x \in ReaderState : x = reader[r]
  BY ReaderFacts
<1>2. PICK hits \in SUBSET PK : hits = Lookup(x.key)
  BY DEF Lookup
<1>3. /\ x.pc = "one" /\ ReaderProgress(x) /\ UNCHANGED reads
      /\ SetReader(r, IF Cardinality(hits) > 1
                      THEN [x EXCEPT !.pc = "lookup"]
                      ELSE [x EXCEPT !.pc = "fetch", !.todo = hits, !.check = FALSE])
  BY <1>1, <1>2, ReaderFacts DEF ReadLookupOne
<1>4. x.key \in Key /\ x.kind = "exact" /\ x.res = {} /\ x.check
  BY <1>3 DEF ReaderProgress
<1>5. \A p \in Stable(x) : row[p] # Absent => (p \in hits <=> row[p] = x.key)
  <2> SUFFICES ASSUME NEW p \in Stable(x), row[p] # Absent PROVE p \in hits <=> row[p] = x.key
    OBVIOUS
  <2>1. p \in PK /\ Safe(p)
    BY <1>3 DEF ReaderProgress, Stable, ReaderState
  <2> QED BY <1>0, <1>2, <1>4, <2>1, SafeIsIndexed DEF Lookup
<1>6. CASE Cardinality(hits) > 1
  <2>1. PICK q \in ReaderState : q = [x EXCEPT !.pc = "lookup"]
    <3>1. [x EXCEPT !.pc = "lookup"] \in ReaderState
      BY DEF ReaderState, ReaderPc
    <3> QED BY <3>1
  <2>2. q.pc = "lookup" /\ q.kind = x.kind /\ q.key = x.key /\ q.check = x.check /\ q.res = x.res
    BY <2>1 DEF ReaderState
  <2>3. q.must = x.must /\ q.touched = x.touched
    BY <2>1 DEF ReaderState
  <2>4. ReaderProgress(q)
    BY <1>4, <2>2, <2>3 DEF ReaderProgress
  <2>5. SetReader(r, q)
    BY <1>3, <1>6, <2>1
  <2> QED BY <1>1, <1>3, <2>2, <2>3, <2>4, <2>5, ReadOn
<1>7. CASE ~(Cardinality(hits) > 1)
  <2>1. PICK q \in ReaderState : q = [x EXCEPT !.pc = "fetch", !.todo = hits, !.check = FALSE]
    <3>1. [x EXCEPT !.pc = "fetch", !.todo = hits, !.check = FALSE] \in ReaderState
      BY DEF ReaderState, ReaderPc
    <3> QED BY <3>1
  <2>2. q.pc = "fetch" /\ q.kind = x.kind /\ q.key = x.key /\ q.res = x.res /\ q.todo = hits
    BY <2>1 DEF ReaderState
  <2>3. q.must = x.must /\ q.touched = x.touched
    BY <2>1 DEF ReaderState
  <2>4. q.must \subseteq q.todo
    <3>1. \A p \in x.must : p \in Stable(x) /\ row[p] = x.key /\ row[p] # Absent
      BY <1>1, <1>4, ReaderFacts DEF Stable, NullIsNoKey, Cell
    <3> QED BY <1>5, <2>2, <2>3, <3>1
  <2>5. \A p \in q.todo \ q.touched : row[p] \in {q.key, Absent}
    BY <1>5, <2>2, <2>3 DEF Stable
  <2>6. ReaderProgress(q)
    BY <1>4, <2>2, <2>3, <2>4, <2>5 DEF ReaderProgress
  <2>7. SetReader(r, q)
    BY <1>3, <1>7, <2>1
  <2> QED BY <1>1, <1>3, <2>2, <2>3, <2>6, <2>7, ReadOn
<1> QED BY <1>6, <1>7

\* The index lookup: a SELECT has a row right or finds it in the overlay next,
\* a probe has the overlay already.
LEMMA LookupKeeps ==
    ASSUME ShardBounds, NullIsNoKey, IndexIInv, NEW r \in Readers, ReadLookup(r)
    PROVE  IndexIInv'
<1>0. TypeOK /\ MergeInv
  BY DEF IndexIInv
<1>1. PICK x \in ReaderState : x = reader[r]
  BY ReaderFacts
<1>2. PICK hits \in SUBSET PK : hits = Lookup(x.key)
  BY DEF Lookup
<1>3. /\ x.pc = "lookup" /\ ReaderProgress(x) /\ UNCHANGED reads
      /\ SetReader(r, IF x.kind = "join"
                      THEN [x EXCEPT !.pc = "fetch", !.pks = hits, !.todo = hits \cup x.dirty]
                      ELSE [x EXCEPT !.pc = "overlay", !.pks = hits])
  BY <1>1, <1>2, ReaderFacts DEF ReadLookup
<1>4. x.key \in Key /\ x.res = {} /\ x.check
  BY <1>3 DEF ReaderProgress
<1>5. CASE x.kind = "join"
  <2>1. PICK q \in ReaderState : q = [x EXCEPT !.pc = "fetch", !.pks = hits, !.todo = hits \cup x.dirty]
    <3>1. [x EXCEPT !.pc = "fetch", !.pks = hits, !.todo = hits \cup x.dirty] \in ReaderState
      BY DEF ReaderState, ReaderPc
    <3> QED BY <3>1
  <2>2. /\ q.pc = "fetch" /\ q.kind = x.kind /\ q.key = x.key /\ q.res = x.res /\ q.check = x.check
        /\ q.todo = hits \cup x.dirty
    BY <2>1 DEF ReaderState
  <2>3. q.must = x.must /\ q.touched = x.touched
    BY <2>1 DEF ReaderState
  <2>4. q.must \subseteq q.todo
    <3> SUFFICES ASSUME NEW p \in x.must, p \notin x.dirty PROVE p \in hits
      BY <2>2, <2>3
    <3>1. p \in PK /\ Safe(p) /\ row[p] = x.key
      BY <1>1, <1>3, <1>5, ReaderFacts DEF ReaderProgress, ReaderState
    <3> QED BY <1>0, <1>2, <1>4, <3>1, SafeIsIndexed DEF Lookup
  <2>5. ReaderProgress(q)
    BY <1>4, <1>5, <2>2, <2>3, <2>4 DEF ReaderProgress
  <2>6. SetReader(r, q)
    BY <1>3, <1>5, <2>1
  <2> QED BY <1>1, <1>3, <2>2, <2>3, <2>5, <2>6, ReadOn
<1>6. CASE x.kind # "join"
  <2>1. PICK q \in ReaderState : q = [x EXCEPT !.pc = "overlay", !.pks = hits]
    <3>1. [x EXCEPT !.pc = "overlay", !.pks = hits] \in ReaderState
      BY DEF ReaderState, ReaderPc
    <3> QED BY <3>1
  <2>2. /\ q.pc = "overlay" /\ q.kind = x.kind /\ q.key = x.key /\ q.res = x.res /\ q.check = x.check
        /\ q.pks = hits
    BY <2>1 DEF ReaderState
  <2>3. q.must = x.must /\ q.touched = x.touched
    BY <2>1 DEF ReaderState
  <2>4. ASSUME NEW p \in Stable(q), row[p] # Absent PROVE FoundRight(q, p) \/ Overlaid(p)
    <3>1. p \in Stable(x) /\ p \in PK
      BY <2>3, <2>4 DEF Stable, ReaderState
    <3>2. CountedWritesSuffice(p)
      BY <1>1, <1>3, <2>4, <3>1, ReaderFacts
    <3>3. (<<x.key, p>> \in entries <=> row[p] = x.key) \/ Overlaid(p)
      BY <1>0, <1>4, <3>1, <3>2, FoundOrOverlaid
    <3> QED BY <1>2, <2>2, <3>1, <3>3 DEF FoundRight, Lookup
  <2>5. ReaderProgress(q)
    BY <1>4, <1>6, <2>2, <2>4 DEF ReaderProgress
  <2>6. SetReader(r, q)
    BY <1>3, <1>6, <2>1
  <2> QED BY <1>1, <1>3, <2>2, <2>3, <2>5, <2>6, ReadOn
<1> QED BY <1>5, <1>6

\* What the overlay leads to is progress, if it had what the index lacks.
LEMMA OverlayIsProgress ==
    ASSUME NullIsNoKey, NEW x \in ReaderState,
           x.key \in Key, x.res = {}, x.check,
           \A p \in x.must : row[p] = x.key,
           x.kind = "join" => \A p \in x.must : p \in x.dirty \/ Safe(p),
           x.kind # "join" /\ ~x.dropped =>
              \A p \in Stable(x) : row[p] # Absent => FoundRight(x, p) \/ p \in x.dirty
    PROVE  /\ AfterOverlay(x) \in ReaderState
           /\ AfterOverlay(x).must = x.must /\ AfterOverlay(x).touched = x.touched
           /\ AfterOverlay(x).key = x.key
           /\ ReaderProgress(AfterOverlay(x))
<1>1. CASE x.kind = "join"
  <2>1. PICK q \in ReaderState : q = [x EXCEPT !.pc = "lookup"]
    <3>1. [x EXCEPT !.pc = "lookup"] \in ReaderState
      BY DEF ReaderState, ReaderPc
    <3> QED BY <3>1
  <2>2. /\ q.pc = "lookup" /\ q.kind = x.kind /\ q.key = x.key /\ q.res = x.res /\ q.check = x.check
        /\ q.dirty = x.dirty
    BY <2>1 DEF ReaderState
  <2>3. q.must = x.must /\ q.touched = x.touched
    BY <2>1 DEF ReaderState
  <2>4. ReaderProgress(q)
    BY <1>1, <2>2, <2>3 DEF ReaderProgress
  <2>5. AfterOverlay(x) = q
    BY <1>1, <2>1 DEF AfterOverlay
  <2> QED BY <2>2, <2>3, <2>4, <2>5
<1>2. CASE x.kind # "join"
  <2>1. PICK c \in BOOLEAN : c = (x.kind # "exact" \/ x.dirty # {})
    OBVIOUS
  <2>2. PICK q \in ReaderState : q = [x EXCEPT !.pc = "fetch", !.todo = x.pks \cup x.dirty, !.check = c]
    <3>1. [x EXCEPT !.pc = "fetch", !.todo = x.pks \cup x.dirty, !.check = c] \in ReaderState
      BY DEF ReaderState, ReaderPc
    <3> QED BY <3>1
  <2>3. /\ q.pc = "fetch" /\ q.kind = x.kind /\ q.key = x.key /\ q.res = x.res /\ q.check = c
        /\ q.todo = x.pks \cup x.dirty
    BY <2>2 DEF ReaderState
  <2>4. q.must = x.must /\ q.touched = x.touched /\ q.dropped = x.dropped
    BY <2>2 DEF ReaderState
  <2>5. ~q.dropped => q.must \subseteq q.todo
    <3>1. \A p \in x.must : p \in Stable(x) /\ row[p] # Absent
      BY DEF Stable, NullIsNoKey, Cell
    <3> QED BY <1>2, <2>3, <2>4, <3>1 DEF FoundRight
  <2>6. ~q.dropped => \A p \in q.todo \ q.touched : q.check \/ row[p] \in {q.key, Absent}
    <3>1. ASSUME ~q.dropped, NEW p \in q.todo \ q.touched, ~q.check, row[p] # Absent PROVE row[p] = q.key
      <4>1. x.dirty = {} /\ p \in x.pks
        BY <2>1, <2>3, <3>1
      <4>2. p \in Stable(x)
        BY <2>4, <3>1, <4>1 DEF Stable, ReaderState
      <4> QED BY <1>2, <2>3, <2>4, <3>1, <4>1, <4>2 DEF FoundRight
    <3> QED BY <3>1
  <2>7. ReaderProgress(q)
    BY <1>2, <2>3, <2>5, <2>6 DEF ReaderProgress
  <2>8. AfterOverlay(x) = q
    BY <1>2, <2>1, <2>2 DEF AfterOverlay
  <2> QED BY <2>3, <2>4, <2>7, <2>8
<1> QED BY <1>1, <1>2

\* dirtyPKs: with a zero count the overlay has nothing that matters.
LEMMA OverlayKeeps ==
    ASSUME ShardBounds, NullIsNoKey, IndexIInv, NEW r \in Readers, ReadOverlay(r)
    PROVE  IndexIInv'
<1>0. TypeOK /\ MergeInv
  BY DEF IndexIInv
<1>1. PICK x \in ReaderState : x = reader[r]
  BY ReaderFacts
<1>2. /\ x.pc = "overlay" /\ ReaderProgress(x) /\ UNCHANGED reads
      /\ SetReader(r, IF count = 0 THEN AfterOverlay(x) ELSE [x EXCEPT !.pc = "walk", !.shard = 1])
  BY <1>1, ReaderFacts DEF ReadOverlay
<1>3. x.key \in Key /\ x.res = {} /\ x.check
  BY <1>2 DEF ReaderProgress
<1>4. \A p \in x.must : row[p] = x.key
  BY <1>1, ReaderFacts
<1>5. \A p \in Stable(x) : row[p] # Absent => p \in PK /\ CountedWritesSuffice(p)
  BY <1>1, <1>2, ReaderFacts DEF Stable, ReaderState
<1>6. CASE count = 0
  <2>1. \A p \in Stable(x) : row[p] # Absent => Safe(p) /\ ~Overlaid(p)
    BY <1>5, <1>6, ZeroIsSafe
  <2>2. \A p \in x.must : Safe(p)
    <3>1. \A p \in x.must : p \in Stable(x) /\ row[p] # Absent
      BY <1>3, <1>4 DEF Stable, NullIsNoKey, Cell
    <3> QED BY <2>1, <3>1
  <2>3. x.kind # "join" /\ ~x.dropped =>
            \A p \in Stable(x) : row[p] # Absent => FoundRight(x, p)
    BY <1>2, <2>1 DEF ReaderProgress
  <2>4. /\ AfterOverlay(x) \in ReaderState
        /\ AfterOverlay(x).must = x.must /\ AfterOverlay(x).touched = x.touched
        /\ AfterOverlay(x).key = x.key
        /\ ReaderProgress(AfterOverlay(x))
    BY <1>3, <1>4, <2>2, <2>3, OverlayIsProgress
  <2>5. PICK q \in ReaderState : q = AfterOverlay(x)
    BY <2>4
  <2>6. /\ q.must = reader[r].must /\ q.touched = reader[r].touched /\ q.key = reader[r].key
        /\ ReaderProgress(q) /\ SetReader(r, q)
    BY <1>1, <1>2, <1>6, <2>4, <2>5
  <2> QED BY <1>1, <1>2, <2>6, ReadOn
<1>7. CASE count # 0
  <2>0. 1 \in Shard /\ 1 \in 0..NShards
    BY DEF Shard, ShardBounds
  <2>1. PICK q \in ReaderState : q = [x EXCEPT !.pc = "walk", !.shard = 1]
    <3>1. [x EXCEPT !.pc = "walk", !.shard = 1] \in ReaderState
      BY <2>0 DEF ReaderState, ReaderPc
    <3> QED BY <3>1
  <2>2. /\ q.pc = "walk" /\ q.kind = x.kind /\ q.key = x.key /\ q.res = x.res /\ q.check = x.check
        /\ q.shard = 1
    BY <2>1 DEF ReaderState
  <2>3. /\ q.must = x.must /\ q.touched = x.touched /\ q.dropped = x.dropped /\ q.pks = x.pks
        /\ q.dirty = x.dirty
    BY <2>1 DEF ReaderState
  <2>4. \A p \in PK : ~(shardOf[p] < 1)
    BY DEF ShardBounds, Shard
  <2>5. Stable(q) = Stable(x) /\ q.must \subseteq PK /\ Stable(q) \subseteq PK
    BY <2>3 DEF Stable, ReaderState
  <2>6. q.kind # "join" /\ ~q.dropped => \A p \in Stable(q) : row[p] # Absent => FoundRight(q, p) \/ Overlaid(p)
    BY <1>2, <2>2, <2>3, <2>5 DEF ReaderProgress, FoundRight
  <2>7. ReaderProgress(q)
    BY <1>3, <2>0, <2>2, <2>4, <2>5, <2>6 DEF ReaderProgress
  <2>8. SetReader(r, q)
    BY <1>2, <1>7, <2>1
  <2> QED BY <1>1, <1>2, <2>2, <2>3, <2>7, <2>8, ReadOn
<1> QED BY <1>6, <1>7

\* One shard of the walk: a row of it is in the list, or is safe (a probe) or was
\* found right before (a SELECT).
LEMMA WalkKeeps ==
    ASSUME ShardBounds, NullIsNoKey, IndexIInv, NEW r \in Readers, ReadWalk(r)
    PROVE  IndexIInv'
<1>0. TypeOK /\ MergeInv /\ ListsFit
  BY DEF IndexIInv, MergeInv
<1>1. PICK x \in ReaderState : x = reader[r]
  BY ReaderFacts
<1>2. x.pc = "walk" /\ ReaderProgress(x) /\ UNCHANGED reads
  BY <1>1, ReaderFacts DEF ReadWalk
<1>3. x.key \in Key /\ x.res = {} /\ x.check /\ x.shard \in Shard
  BY <1>2 DEF ReaderProgress
<1>4. PICK live \in SUBSET PK : live = {p \in Range(dirtyRead[x.shard]) : row[p] # Absent}
  <2>1. dirtyRead[x.shard] \in Seq(PK)
    BY <1>0, <1>3 DEF TypeOK
  <2>2. Range(dirtyRead[x.shard]) \subseteq PK
    BY <2>1, RangeIsBetween
  <2> QED BY <2>2
<1>5. PICK y \in ReaderState : y = [x EXCEPT !.dirty = @ \cup live]
  <2>1. [x EXCEPT !.dirty = @ \cup live] \in ReaderState
    BY DEF ReaderState, ReaderPc
  <2> QED BY <2>1
<1>6. /\ y.pc = x.pc /\ y.kind = x.kind /\ y.key = x.key /\ y.res = x.res /\ y.check = x.check
      /\ y.shard = x.shard
  BY <1>5 DEF ReaderState
<1>7. /\ y.must = x.must /\ y.touched = x.touched /\ y.dropped = x.dropped /\ y.pks = x.pks
      /\ y.dirty = x.dirty \cup live
  BY <1>5 DEF ReaderState
<1>8. SetReader(r, IF x.shard < NShards THEN [y EXCEPT !.shard = x.shard + 1] ELSE AfterOverlay(y))
  BY <1>1, <1>4, <1>5 DEF ReadWalk
<1>9. /\ Stable(y) = Stable(x) /\ Stable(y) \subseteq PK /\ y.must \subseteq Stable(y)
      /\ \A p \in y.must : row[p] = y.key /\ row[p] # Absent
  <2>1. \A p \in y.must : row[p] = y.key
    BY <1>1, <1>6, <1>7, ReaderFacts
  <2>2. y.key # Absent
    BY <1>3, <1>6 DEF NullIsNoKey, Cell
  <2> QED BY <1>7, <2>1, <2>2 DEF Stable, ReaderState
<1>10. \A p \in PK : InRead(p) /\ row[p] # Absent /\ shardOf[p] = x.shard => p \in y.dirty
  BY <1>4, <1>7 DEF InRead
<1>11. y.kind = "join" => \A p \in y.must : shardOf[p] <= x.shard => p \in y.dirty \/ Safe(p)
  <2> SUFFICES ASSUME y.kind = "join", NEW p \in y.must, shardOf[p] <= x.shard, p \notin y.dirty
               PROVE  Safe(p)
    OBVIOUS
  <2>1. p \in PK /\ row[p] # Absent /\ shardOf[p] \in Shard
    BY <1>9 DEF ShardBounds
  <2>2. CASE shardOf[p] = x.shard
    BY <1>0, <1>10, <2>1, <2>2, UnlistedIsSafe
  <2>3. CASE shardOf[p] < x.shard
    BY <1>2, <1>6, <1>7, <2>3 DEF ReaderProgress
  <2> QED BY <1>3, <2>1, <2>2, <2>3 DEF Shard, ShardBounds
<1>12. y.kind # "join" /\ ~y.dropped =>
          \A p \in Stable(y) : row[p] # Absent =>
              /\ FoundRight(y, p) \/ Overlaid(p)
              /\ shardOf[p] <= x.shard => FoundRight(y, p) \/ p \in y.dirty
  <2> SUFFICES ASSUME y.kind # "join", ~y.dropped, NEW p \in Stable(y), row[p] # Absent
               PROVE  /\ FoundRight(y, p) \/ Overlaid(p)
                      /\ shardOf[p] <= x.shard => FoundRight(y, p) \/ p \in y.dirty
    OBVIOUS
  <2>1. p \in PK /\ p \in Stable(x) /\ shardOf[p] \in Shard
    BY <1>9 DEF ShardBounds
  <2>2. FoundRight(y, p) = FoundRight(x, p)
    BY <1>6, <1>7 DEF FoundRight
  <2>3. FoundRight(x, p) \/ Overlaid(p)
    BY <1>2, <1>6, <1>7, <2>1 DEF ReaderProgress
  <2>4. shardOf[p] < x.shard => FoundRight(x, p) \/ p \in y.dirty
    BY <1>2, <1>6, <1>7, <2>1 DEF ReaderProgress
  <2>5. shardOf[p] = x.shard => FoundRight(x, p) \/ p \in y.dirty
    BY <1>0, <1>10, <2>1, <2>3, ViewsNest
  <2> QED BY <1>3, <2>1, <2>2, <2>3, <2>4, <2>5 DEF Shard, ShardBounds
<1>13. CASE x.shard < NShards
  <2>0. x.shard + 1 \in Shard /\ x.shard + 1 \in 0..NShards
    BY <1>3, <1>13 DEF Shard, ShardBounds
  <2>1. PICK n \in Shard : n = x.shard + 1 /\ n \in 0..NShards
    BY <2>0
  <2>2. PICK q \in ReaderState : q = [y EXCEPT !.shard = n]
    <3>1. [y EXCEPT !.shard = n] \in ReaderState
      BY <2>1 DEF ReaderState, ReaderPc
    <3> QED BY <3>1
  <2>3. /\ q.pc = y.pc /\ q.kind = y.kind /\ q.key = y.key /\ q.res = y.res /\ q.check = y.check
        /\ q.shard = n
    BY <2>2 DEF ReaderState
  <2>4. /\ q.must = y.must /\ q.touched = y.touched /\ q.dropped = y.dropped /\ q.pks = y.pks
        /\ q.dirty = y.dirty
    BY <2>2 DEF ReaderState
  <2>5. \A p \in PK : shardOf[p] < n => shardOf[p] <= x.shard
    BY <1>3, <2>1 DEF Shard, ShardBounds
  <2>6. Stable(q) = Stable(y)
    BY <2>4 DEF Stable
  <2>7. \A p \in PK : FoundRight(q, p) = FoundRight(y, p)
    BY <2>3, <2>4 DEF FoundRight
  <2>8. ReaderProgress(q)
    <3>1. q.kind = "join" => \A p \in q.must : shardOf[p] < q.shard => p \in q.dirty \/ Safe(p)
      BY <1>9, <1>11, <2>3, <2>4, <2>5
    <3>2. q.kind # "join" /\ ~q.dropped =>
              \A p \in Stable(q) : row[p] # Absent =>
                  /\ FoundRight(q, p) \/ Overlaid(p)
                  /\ shardOf[p] < q.shard => FoundRight(q, p) \/ p \in q.dirty
      BY <1>9, <1>12, <2>3, <2>4, <2>5, <2>6, <2>7
    <3>3. q.pc = "walk" /\ q.key \in Key /\ q.shard \in Shard /\ q.res = {} /\ q.check
      BY <1>2, <1>3, <1>6, <2>1, <2>3
    <3> QED BY <3>1, <3>2, <3>3 DEF ReaderProgress
  <2>9. SetReader(r, q)
    BY <1>8, <1>13, <2>1, <2>2
  <2> QED BY <1>1, <1>2, <1>6, <1>7, <2>3, <2>4, <2>8, <2>9, ReadOn
<1>14. CASE ~(x.shard < NShards)
  <2>1. \A p \in PK : shardOf[p] <= x.shard
    BY <1>3, <1>14 DEF Shard, ShardBounds
  <2>2. y.kind = "join" => \A p \in y.must : p \in y.dirty \/ Safe(p)
    BY <1>9, <1>11, <2>1
  <2>3. y.kind # "join" /\ ~y.dropped =>
              \A p \in Stable(y) : row[p] # Absent => FoundRight(y, p) \/ p \in y.dirty
    BY <1>9, <1>12, <2>1
  <2>4. /\ AfterOverlay(y) \in ReaderState
        /\ AfterOverlay(y).must = y.must /\ AfterOverlay(y).touched = y.touched
        /\ AfterOverlay(y).key = y.key
        /\ ReaderProgress(AfterOverlay(y))
    BY <1>3, <1>6, <1>9, <2>2, <2>3, OverlayIsProgress
  <2>5. PICK q \in ReaderState : q = AfterOverlay(y)
    BY <2>4
  <2>6. /\ q.must = reader[r].must /\ q.touched = reader[r].touched /\ q.key = reader[r].key
        /\ ReaderProgress(q) /\ SetReader(r, q)
    BY <1>1, <1>6, <1>7, <1>8, <1>14, <2>4, <2>5
  <2> QED BY <1>1, <1>2, <2>6, ReadOn
<1> QED BY <1>13, <1>14

\* A fetch leaves out no row that still matches, and adds none that is wrong.
LEMMA FetchKeeps ==
    ASSUME ShardBounds, NullIsNoKey, IndexIInv, NEW r \in Readers, ReadFetch(r)
    PROVE  IndexIInv'
<1>0. TypeOK
  BY DEF IndexIInv
<1>1. PICK x \in ReaderState : x = reader[r]
  BY ReaderFacts
<1>2. x.pc = "fetch" /\ ReaderProgress(x) /\ UNCHANGED reads
  BY <1>1, ReaderFacts DEF ReadFetch
<1>3. PICK p \in x.todo :
          SetReader(r, [x EXCEPT
              !.todo = @ \ {p},
              !.res = IF row[p] # Absent /\ (x.check => row[p] = x.key)
                        THEN @ \cup {<<p, row[p]>>} ELSE @])
  BY Zenon, <1>1 DEF ReadFetch
<1>4. p \in PK /\ row[p] \in Cell \cup {Absent}
  BY <1>0 DEF TypeOK, ReaderState
<1>5. PICK found \in SUBSET (PK \X Cell) :
          found = IF row[p] # Absent /\ (x.check => row[p] = x.key)
                    THEN x.res \cup {<<p, row[p]>>} ELSE x.res
  <2>1. x.res \in SUBSET (PK \X Cell)
    BY DEF ReaderState
  <2>2. row[p] # Absent => <<p, row[p]>> \in PK \X Cell
    BY <1>4
  <2> QED BY <2>1, <2>2
<1>6. PICK rest \in SUBSET PK : rest = x.todo \ {p}
  BY DEF ReaderState
<1>7. PICK q \in ReaderState : q = [x EXCEPT !.todo = rest, !.res = found]
  <2>1. [x EXCEPT !.todo = rest, !.res = found] \in ReaderState
    BY DEF ReaderState, ReaderPc
  <2> QED BY <2>1
<1>8. /\ q.pc = x.pc /\ q.kind = x.kind /\ q.key = x.key /\ q.check = x.check
      /\ q.todo = rest /\ q.res = found
  BY <1>7 DEF ReaderState
<1>9. q.must = x.must /\ q.touched = x.touched /\ q.dropped = x.dropped
  BY <1>7 DEF ReaderState
<1>10. x.key \in Key /\ x.key # Absent
  BY <1>2 DEF ReaderProgress, NullIsNoKey, Cell
<1>11. \A u \in x.must : row[u] = x.key
  BY <1>1, ReaderFacts
<1>12. q.kind = "join" \/ ~q.dropped => q.must \subseteq q.todo \cup {e[1] : e \in q.res}
  <2> SUFFICES ASSUME q.kind = "join" \/ ~q.dropped, NEW u \in x.must, u \notin rest
               PROVE  \E e \in found : e[1] = u
    BY <1>8, <1>9
  <2>1. x.must \subseteq x.todo \cup {e[1] : e \in x.res}
    BY <1>2, <1>8, <1>9 DEF ReaderProgress
  <2>2. CASE u \in x.todo
    <3>1. u = p
      BY <1>6, <2>2
    <3>2. <<p, row[p]>> \in found
      BY <1>5, <1>10, <1>11, <3>1
    <3> QED BY <3>1, <3>2
  <2>3. CASE u \notin x.todo
    <3>1. PICK e \in x.res : e[1] = u
      BY <2>1, <2>3
    <3> QED BY <1>5, <3>1
  <2> QED BY <2>2, <2>3
<1>13. ~q.dropped =>
          /\ \A u \in q.todo \ q.touched : q.check \/ row[u] \in {q.key, Absent}
          /\ \A e \in q.res : e[2] = q.key \/ e[1] \in q.touched
  <2> SUFFICES ASSUME ~x.dropped
               PROVE  /\ \A u \in rest \ x.touched : x.check \/ row[u] \in {x.key, Absent}
                      /\ \A e \in found : e[2] = x.key \/ e[1] \in x.touched
    BY <1>8, <1>9
  <2>1. /\ \A u \in x.todo \ x.touched : x.check \/ row[u] \in {x.key, Absent}
        /\ \A e \in x.res : e[2] = x.key \/ e[1] \in x.touched
    BY <1>2 DEF ReaderProgress
  <2>2. ASSUME NEW e \in found, e \notin x.res PROVE e[2] = x.key \/ e[1] \in x.touched
    <3>1. e = <<p, row[p]>> /\ row[p] # Absent /\ (x.check => row[p] = x.key)
      BY <1>5, <2>2
    <3>2. row[p] = x.key \/ p \in x.touched
      BY <2>1, <3>1 DEF ReaderState
    <3> QED BY <3>1, <3>2
  <2> QED BY <1>6, <2>1, <2>2
<1>14. ReaderProgress(q)
  <2>1. q.kind = "join" => q.check
    BY <1>2, <1>8 DEF ReaderProgress
  <2> QED BY <1>2, <1>8, <1>10, <1>12, <1>13, <2>1 DEF ReaderProgress
<1>15. SetReader(r, q)
  <2>1. q = [x EXCEPT !.todo = @ \ {p},
                      !.res = IF row[p] # Absent /\ (x.check => row[p] = x.key)
                                THEN @ \cup {<<p, row[p]>>} ELSE @]
    BY <1>5, <1>6, <1>7 DEF ReaderState
  <2> QED BY <1>3, <2>1
<1> QED BY <1>1, <1>2, <1>8, <1>9, <1>14, <1>15, ReadOn

\* The query is over.
LEMMA ReturnKeeps ==
    ASSUME ShardBounds, IndexIInv, NEW r \in Readers, ReadReturn(r)
    PROVE  IndexIInv'
<1>1. PICK q \in ReaderState : q = IdleReader
  <2>1. 0 \in 0..NShards
    BY DEF ShardBounds
  <2> QED BY <2>1 DEF ReaderState, ReaderPc, IdleReader
<1>2. q.pc = "idle" /\ q.kind = "select" /\ q.res = {} /\ q.check /\ q.must = {}
  BY <1>1 DEF IdleReader
<1>3. ReaderProgress(q)
  BY <1>2 DEF ReaderProgress
<1>4. SetReader(r, q) /\ UNCHANGED reads
  BY <1>1 DEF ReadReturn
<1>5. reads' \in 0..MaxReads
  BY <1>4 DEF IndexIInv, TypeOK
<1> QED BY <1>2, <1>3, <1>4, <1>5, ReadStep

----------------------------------------------------------------------------
(* The theorems.                                                           *)

\* rebuildIndexes leaves nothing to merge.
LEMMA InitIsSound ==
    ASSUME ShardBounds, WorkBounds, NullIsNoKey, Init
    PROVE  IndexIInv
<1>0. /\ rev = [p \in PK |-> KeyFromCells(row[p])]
      /\ entries = {<<row[p], p>> : p \in {q \in PK : row[q] \in Key}}
      /\ dirtyRead = [s \in Shard |-> <<>>] /\ dirtyDel = [s \in Shard |-> <<>>]
      /\ count = 0 /\ lock = [s \in Shard |-> None]
      /\ mpc = "idle" /\ mshard = 0 /\ batch = <<>> /\ seen = Absent
      /\ taken = [s \in Shard |-> NoRange] /\ changed = {}
      /\ reader = [r \in Readers |-> IdleReader] /\ writes = 0 /\ reads = 0
      /\ row \in [PK -> Cell \cup {Absent}]
  BY DEF Init
<1>1. TypeOK
  <2>1. IdleReader \in ReaderState
    <3>1. 0 \in 0..NShards
      BY DEF ShardBounds
    <3> QED BY <3>1 DEF ReaderState, ReaderPc, IdleReader
  <2>2. reader \in [Readers -> ReaderState]
    BY <1>0, <2>1
  <2>3. rev \in [PK -> Cell] /\ entries \subseteq Key \X PK
    BY <1>0 DEF KeyFromCells, Cell
  <2>4. dirtyRead \in [Shard -> Seq(PK)] /\ dirtyDel \in [Shard -> Seq(PK)] /\ batch \in Seq(PK)
    BY <1>0
  <2>5. /\ lock \in [Shard -> {None} \cup [kind : {"read", "del"}, pk : PK]]
        /\ taken \in [Shard -> [r : Nat, d : Nat]]
    BY <1>0 DEF NoRange
  <2>6. mshard \in 0..NShards /\ writes \in 0..MaxWrites /\ reads \in 0..MaxReads /\ count \in Int
    BY <1>0 DEF ShardBounds, WorkBounds
  <2>7. row \in [PK -> Cell \cup {Absent}] /\ seen \in Cell \cup {Absent} /\ changed \subseteq PK
    BY <1>0
  <2> QED BY <1>0, <2>2, <2>3, <2>4, <2>5, <2>6, <2>7 DEF TypeOK
<1>2. /\ \A s \in Shard : /\ dirtyRead[s] = <<>> /\ dirtyDel[s] = <<>> /\ lock[s] = None
                          /\ taken[s] = NoRange /\ Counted(s) = 0 /\ Kept(s) = NoRange
      /\ Drops = {}
  BY <1>0 DEF Counted, Kept, Drops, None
<1>3. \A p \in PK : /\ ~LateRead(p) /\ ~LateDel(p) /\ ~InRead(p) /\ ~InDel(p) /\ ~Late(p)
                    /\ rev[p] = KeyFromCells(row[p])
  <2>1. Range(<<>>) = {}
    <3>1. <<>> \in Seq(PK) /\ Len(<<>>) = 0
      OBVIOUS
    <3>2. Range(<<>>) = Between(<<>>, 1, Len(<<>>))
      BY <3>1, RangeIsBetween
    <3> QED BY <3>1, <3>2 DEF Between
  <2>2. \A p \in PK : dirtyRead[shardOf[p]] = <<>> /\ dirtyDel[shardOf[p]] = <<>> /\ Kept(shardOf[p]) = NoRange
    BY <1>2 DEF ShardBounds
  <2> QED BY <1>0, <2>1, <2>2 DEF LateRead, LateDel, Late, InRead, InDel, Between, NoRange
<1>4. OneEntryPerPK
  BY <1>0 DEF OneEntryPerPK
<1>5. MergeInv
  <2>1. MergePhases
    BY <1>0, <1>2 DEF MergePhases
  <2>2. Range(<<>>) = {}
    <3>1. <<>> \in Seq(PK) /\ Len(<<>>) = 0
      OBVIOUS
    <3>2. Range(<<>>) = Between(<<>>, 1, Len(<<>>))
      BY <3>1, RangeIsBetween
    <3> QED BY <3>1, <3>2 DEF Between
  <2>3. ListsFit
    BY <1>2, <2>2 DEF ListsFit, None, NoRange
  <2>4. WorkIsCovered
    BY <1>0, <2>2 DEF WorkIsCovered
  <2>5. RevFollowsRow
    BY <1>0, <1>3 DEF RevFollowsRow
  <2>6. EntriesFollowRev
    BY <1>0, <1>1, <1>3 DEF EntriesFollowRev, KeyFromCells, NullIsNoKey
  <2>7. LiveIsRead
    BY <1>3 DEF LiveIsRead
  <2> QED BY <2>1, <2>3, <2>4, <2>5, <2>6, <2>7 DEF MergeInv
<1>6. CountIsExact
  <2>1. CountedAll = 0
    <3> DEFINE f == [s \in Shard |-> Counted(s)]
    <3>1. IsFiniteSet(Shard)
      BY FS_Interval DEF ShardBounds, Shard
    <3>2. \A s \in Shard : f[s] = 0
      BY <1>2
    <3> HIDE DEF f
    <3>3. SumOver(f, Shard) = 0
      BY <3>1, <3>2, SumZero
    <3> QED BY <3>3 DEF CountedAll, f
  <2> QED BY <1>0, <2>1 DEF CountIsExact, CountedAll
<1>7. ReaderInv
  <2>1. PICK q \in ReaderState : q = IdleReader
    <3>1. 0 \in 0..NShards
      BY DEF ShardBounds
    <3> QED BY <3>1 DEF ReaderState, ReaderPc, IdleReader
  <2>2. q.pc = "idle" /\ q.kind = "select" /\ q.res = {} /\ q.check /\ q.must = {}
    BY <2>1 DEF IdleReader
  <2>3. ReaderProgress(q)
    BY <2>2 DEF ReaderProgress
  <2>4. \A r \in Readers : reader[r] = q
    BY <1>0, <2>1
  <2> QED BY <2>2, <2>3, <2>4 DEF ReaderInv
<1> QED BY <1>1, <1>4, <1>5, <1>6, <1>7 DEF IndexIInv

\* Every step of writers, merger and readers keeps the invariant.
LEMMA StepKeeps ==
    ASSUME ShardBounds, IndexKinds, WorkBounds, NullIsNoKey, IndexIInv, [Next]_vars
    PROVE  IndexIInv'
<1>1. CASE Write
  BY <1>1, PutKeeps, DeleteKeeps DEF Write
<1>2. CASE Unlock
  BY <1>2, UnlockKeeps DEF Unlock
<1>3. CASE MergeBegin
  BY <1>3, BeginKeeps
<1>4. CASE Merge
  BY <1>4, SnapshotKeeps, ProjectKeeps, ApplyKeeps, NextShardKeeps, FoldKeeps, DropKeeps, UncountKeeps
     DEF Merge
<1>5. ASSUME NEW r \in Readers, Read(r) PROVE IndexIInv'
  BY <1>5, QueryBeginKeeps, CountKeeps, LookupOneKeeps, LookupKeeps, OverlayKeeps, WalkKeeps, FetchKeeps,
     ReturnKeeps DEF Read
<1>6. CASE UNCHANGED vars
  <2>0. TypeOK /\ MergeInv /\ ReaderInv /\ ListsFit
    BY DEF IndexIInv, MergeInv
  <2>1. UNCHANGED <<row, dirtyRead, dirtyDel, lock, writes, count, rev, entries, reader, reads,
                    mpc, mshard, batch, seen, taken, changed>>
    BY <1>6 DEF vars, tableVars, mergeVars
  <2>2. \A s \in Shard : Kept(s)' = Kept(s)
    BY <2>1 DEF Kept
  <2>3. /\ ListsFit' /\ CountedAll' = CountedAll
        /\ \A p \in PK :
                  /\ LateRead(p)' = LateRead(p) /\ LateDel(p)' = LateDel(p) /\ Late(p)' = Late(p)
                  /\ InRead(p)' = InRead(p) /\ InDel(p)' = InDel(p) /\ Covered(p)' = Covered(p)
                  /\ Overlaid(p)' = Overlaid(p) /\ OverlaidLate(p)' = OverlaidLate(p)
    BY <2>0, <2>1, <2>2, MergeFrame
  <2>4. TypeOK' /\ OneEntryPerPK' /\ CountIsExact'
    BY <2>0, <2>1, <2>3 DEF TypeOK, Shard, IndexIInv, OneEntryPerPK, CountIsExact, CountedAll
  <2>5. MergePhases'
    BY <2>0, <2>1 DEF MergeInv, MergePhases, Drops, Shard
  <2>6. WorkIsCovered'
    <3>1. Range(batch) \cup changed \subseteq PK
      BY <2>0, RangeIsBetween DEF TypeOK
    <3> QED BY <2>0, <2>1, <2>3, <3>1 DEF MergeInv, WorkIsCovered
  <2>7. RevFollowsRow' /\ EntriesFollowRev' /\ LiveIsRead'
    BY <2>0, <2>1, <2>3 DEF MergeInv, RevFollowsRow, EntriesFollowRev, LiveIsRead
  <2>8. \A p \in PK : CountedWritesSuffice(p)' = CountedWritesSuffice(p) /\ Safe(p)' = Safe(p)
    BY <2>1, <2>3 DEF CountedWritesSuffice, Safe
  <2>9. ReaderInv'
    BY <2>0, <2>1, <2>3, <2>8, ReaderUntouched
  <2> QED BY <2>3, <2>4, <2>5, <2>6, <2>7, <2>9 DEF IndexIInv, MergeInv
<1> QED BY <1>1, <1>2, <1>3, <1>4, <1>5, <1>6 DEF Next

\* The inductive invariant holds throughout.
LEMMA IndexInvariant == Spec => []IndexIInv
<1>1. Init => IndexIInv
  BY ShardBounds, WorkBounds, NullIsNoKey, InitIsSound
<1>2. IndexIInv /\ [Next]_vars => IndexIInv'
  BY ShardBounds, IndexKinds, WorkBounds, NullIsNoKey, StepKeeps
<1> QED BY <1>1, <1>2, PTL DEF Spec

\* For any number of keys, shards and readers: no key leaves the dirty lists of
\* mergeIndexes before the index agrees with its row, a live row the index lacks
\* is in the overlay, no key is in two buckets, and readDirtyCount accounts for
\* every overlay entry.
THEOREM IndexIsSound == Spec => []IndexInv
<1>1. IndexIInv => IndexInv
  BY ShardBounds, NullIsNoKey, CoreSuffices
<1> QED BY <1>1, IndexInvariant, PTL

\* The indexed SELECT path, fast path included, returns what a scan would of the
\* rows nobody wrote meanwhile, as long as no merge trims the lists under it.
THEOREM QuietQueriesAreScans == Spec => []QuietReadIsScan
<1>1. IndexIInv => QuietReadIsScan
  <2> SUFFICES ASSUME IndexIInv, NEW r \in Readers, Returning(r), ~reader[r].dropped
               PROVE  /\ reader[r].must \subseteq ResultPKs(r)
                      /\ \A x \in reader[r].res : x[2] = reader[r].key \/ x[1] \in reader[r].touched
    BY DEF QuietReadIsScan
  <2>1. ReaderProgress(reader[r])
    BY ReaderFacts
  <2> QED BY <2>1 DEF ReaderProgress, Returning, ResultPKs
<1> QED BY <1>1, IndexInvariant, PTL

\* The join probe, which reads the overlay before the index, misses no row that
\* matched throughout, whatever merges run meanwhile.
THEOREM JoinProbeIsComplete == Spec => []JoinMissesNothing
<1>1. IndexIInv => JoinMissesNothing
  <2> SUFFICES ASSUME IndexIInv, NEW r \in Readers, Returning(r), reader[r].kind = "join"
               PROVE  reader[r].must \subseteq ResultPKs(r)
    BY DEF JoinMissesNothing
  <2>1. ReaderProgress(reader[r])
    BY ReaderFacts
  <2> QED BY <2>1 DEF ReaderProgress, Returning, ResultPKs
<1> QED BY <1>1, IndexInvariant, PTL
=============================================================================
