------------------------------- MODULE PkMap -------------------------------
(***************************************************************************)
(* The primary-key map of one shard (pkmap.go): open addressing with       *)
(* linear probing, a load of at most 3/4, doubling, and deletion by        *)
(* shifting later entries of the chain backwards over the gap.  The map is *)
(* used under its shard's lock, so every call is one step.                 *)
(*                                                                         *)
(* A hash is a number below HashRange and the home slot its leading bits;  *)
(* row numbers are counted from 1, as the slots store them.                *)
(***************************************************************************)
EXTENDS Integers, Sequences, FiniteSets, SequencesExt, FiniteSetsExt

CONSTANTS
    Keys,
    Rows,       \* row numbers, counted from 1: a stored 0 is an empty slot
    HashRange,  \* 2^64 in the code: a power of two, at least the slots of a map
    MinSlots,   \* 16, the slots of the smallest allocated map
    MaxSlots,   \* bound: no insert once a growth would need more
    NoKey       \* the key of an empty slot

\* The sizes an allocated map can have: between powers of two, a divisor is one.
Sizes == {n \in MinSlots..HashRange : HashRange % n = 0}

ASSUME PkMapBounds ==
    /\ HashRange \in Nat /\ MinSlots \in Nat \ {0, 1}
    /\ MinSlots \in Sizes /\ MaxSlots \in 0..HashRange
ASSUME PowerOfTwo == \A n \in 1..(HashRange - 1) : HashRange % n = 0 => HashRange % (2 * n) = 0
ASSUME FiniteKeys == IsFiniteSet(Keys)
ASSUME RowsFromOne == Rows \subseteq Nat \ {0}
ASSUME NoKeyIsApart == NoKey \notin Keys

VARIABLES
    hash,   \* the seeded fold of each key, fixed when the process starts
    map,    \* pkMap: its slots, numbered from 0, and the count of used ones
    rowOf   \* history: the row number last stored for each key, 0 if absent

vars == <<hash, map, rowOf>>

Slot == [key : Keys \cup {NoKey}, ref : Nat]
Empty == [key |-> NoKey, ref |-> 0]

Size(m) == Cardinality(DOMAIN m.slots)
pkHome(k, n) == hash[k] \div (HashRange \div n)

\* slots with e written to slot i
With(slots, i, e) == [slots EXCEPT ![i] = e]

----------------------------------------------------------------------------
(* Probing.                                                                *)

\* The slot where the probe for k ends: k's own, or the first empty one.
Probe(slots, k) ==
    LET n == Cardinality(DOMAIN slots)
        at(d) == (pkHome(k, n) + d) % n
        ends == {d \in 0..(n - 1) : slots[at(d)].ref = 0 \/ slots[at(d)].key = k} IN
    at(Min(ends))

get(m, k) == IF Size(m) = 0 THEN 0 ELSE m.slots[Probe(m.slots, k)].ref

Fresh(n) == [i \in 0..(n - 1) |-> Empty]

\* Mutant of grow: the entries keep their slot numbers.
growInPlace(m) ==
    LET n == IF Size(m) * 2 < MinSlots THEN MinSlots ELSE Size(m) * 2 IN
    [m EXCEPT !.slots = [i \in 0..(n - 1) |-> IF i < Size(m) THEN m.slots[i] ELSE Empty]]

\* Reinsert an entry of the old slots.
Moved(slots, e) == IF e.ref = 0 THEN slots ELSE With(slots, Probe(slots, e.key), e)

\* Double, and reinsert the entries in slot order.
grow(m) ==
    LET n == IF Size(m) * 2 < MinSlots THEN MinSlots ELSE Size(m) * 2
        old == [i \in 1..Size(m) |-> m.slots[i - 1]] IN
    [m EXCEPT !.slots = FoldLeft(Moved, Fresh(n), old)]

\* reserve, before its probe: room for one more entry.
Reserved(m) == IF 4 * (m.used + 1) > 3 * Size(m) THEN grow(m) ELSE m

put(m, k, r) ==
    LET g == Reserved(m)
        i == Probe(g.slots, k) IN
    [slots |-> With(g.slots, i, [key |-> k, ref |-> r]),
     used  |-> IF g.slots[i].ref = 0 THEN g.used + 1 ELSE g.used]

\* Mutant of Shifts: the chain does not wrap around the end of the table.
ShiftsNoWrap(h, i, j) == j > i /\ (h <= i \/ h > j)

\* Does the entry of home h at slot j have to move into the gap at i?
Shifts(h, i, j) ==
    \/ j > i /\ (h <= i \/ h > j)
    \/ j < i /\ (h <= i /\ h > j)

\* One turn of the walk: the slot after w.at, whose entry may move into the gap.
Walked(w, turn) ==
    LET n == Cardinality(DOMAIN w.slots)
        j == (w.at + 1) % n
        e == w.slots[j] IN
    IF w.stop \/ e.ref = 0 THEN [w EXCEPT !.stop = TRUE]
    ELSE IF Shifts(pkHome(e.key, n), w.gap, j)
         THEN [slots |-> With(w.slots, w.gap, e), gap |-> j, at |-> j, stop |-> FALSE]
         ELSE [w EXCEPT !.at = j]

\* Walk from the gap to the end of the chain, moving entries back over the gap.
Closed(m, i) ==
    LET from == [slots |-> m.slots, gap |-> i, at |-> i, stop |-> FALSE]
        end == FoldLeft(Walked, from, [turn \in 1..(Size(m) - 1) |-> turn]) IN
    With(end.slots, end.gap, Empty)

delAt(m, i) == [slots |-> Closed(m, i), used |-> m.used - 1]

\* Enough slots for hint entries without a growth.
init(hint) ==
    LET n == Min({s \in Sizes : 4 * hint <= 3 * s}) IN
    [slots |-> Fresh(n), used |-> 0]

----------------------------------------------------------------------------
(* The calls of the store.                                                 *)

Zero == [slots |-> <<>>, used |-> 0]

Init ==
    /\ hash \in [Keys -> 0..(HashRange - 1)]
    /\ map \in {Zero, init(0)}
    /\ rowOf = [k \in Keys |-> 0]

\* The journaled insert: reserve, reject a duplicate, journal, commit.  A
\* duplicate and a failing journal leave the growth behind.
Insert(k, r) ==
    /\ Size(Reserved(map)) <= MaxSlots
    /\ UNCHANGED hash
    /\ \/ get(map, k) = 0 /\ map' = put(map, k, r) /\ rowOf' = [rowOf EXCEPT ![k] = r]
       \/ map' = Reserved(map) /\ UNCHANGED rowOf

\* put: the assignment of replay, of a commit and of a compaction.
Put(k, r) ==
    /\ Size(Reserved(map)) <= MaxSlots
    /\ map' = put(map, k, r)
    /\ rowOf' = [rowOf EXCEPT ![k] = r]
    /\ UNCHANGED hash

\* find, and delAt unless the journal fails.
Delete(k) ==
    /\ get(map, k) # 0
    /\ map' = delAt(map, Probe(map.slots, k))
    /\ rowOf' = [rowOf EXCEPT ![k] = 0]
    /\ UNCHANGED hash

\* One live row of a compaction.
Entered(m, e) == put(m, e.key, e.ref)

\* compactShardLocked: a new map of the right size, the live rows renumbered in
\* arena order, which may be any order of their keys.
Compact ==
    \E present \in SetToSeqs({k \in Keys : rowOf[k] # 0}) :
        LET live == [i \in 1..Len(present) |-> [key |-> present[i], ref |-> i]] IN
        /\ map' = FoldLeft(Entered, init(map.used), live)
        /\ rowOf' = [k \in Keys |-> IF rowOf[k] = 0 THEN 0 ELSE CHOOSE i \in DOMAIN present : present[i] = k]
        /\ UNCHANGED hash

Next ==
    \/ \E k \in Keys, r \in Rows : Insert(k, r) \/ Put(k, r)
    \/ \E k \in Keys : Delete(k)
    \/ Compact

Spec == Init /\ [][Next]_vars

----------------------------------------------------------------------------
(* Properties.                                                             *)

(* Type of the state; a map has no slots or a power of two of them. *)
TypeOK ==
    /\ hash \in [Keys -> 0..(HashRange - 1)]
    /\ map.used \in Nat
    /\ map.slots \in [DOMAIN map.slots -> Slot]
    /\ Size(map) \in {0} \cup Sizes
    /\ DOMAIN map.slots = 0..(Size(map) - 1)
    /\ rowOf \in [Keys -> Nat]

(* Every key that was stored and not removed is found under its last row   *)
(* number and every other key is not found, after any sequence of inserts, *)
(* failed inserts, overwrites, deletions, growths and compactions.         *)
LookupIsRight == \A k \in Keys : get(map, k) = rowOf[k]

(* No chain has a hole: between the home slot of an entry and its slot     *)
(* every slot is taken, also across the end of the table.  It is what the  *)
(* backward shift of delAt has to restore.                                 *)
NoHoles ==
    \A j \in DOMAIN map.slots :
        LET n == Size(map)
            e == map.slots[j]
            h == pkHome(e.key, n) IN
        e.ref # 0 => \A d \in 0..((j - h + n) % n) : map.slots[(h + d) % n].ref # 0

(* The count of entries is exact and the load stays within 3/4, so there   *)
(* is always an empty slot and every probe ends.                           *)
LoadIsBounded ==
    /\ map.used = Cardinality({i \in DOMAIN map.slots : map.slots[i].ref # 0})
    /\ 4 * map.used <= 3 * Size(map)

(* grow: "chains only shorten".  No run of taken slots is longer after a   *)
(* growth than the longest was before.                                     *)
Run(m) ==
    LET n == Size(m) IN
    Max({0} \cup {d \in 1..n : \E i \in DOMAIN m.slots :
                                  \A e \in 0..(d - 1) : m.slots[(i + e) % n].ref # 0})
GrowthShortensChains == Size(map) \in 1..(HashRange \div 2) => Run(grow(map)) <= Run(map)

(* The table's shape after any history, failed reservations included: what *)
(* get relies on to find a key, and to stop.                               *)
MapInv ==
    /\ TypeOK
    /\ NoHoles
    /\ LoadIsBounded
    /\ GrowthShortensChains

=============================================================================
