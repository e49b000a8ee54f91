------------------------------ MODULE SecIndex ------------------------------
(***************************************************************************)
(* One table with one secondary index, maintained asynchronously           *)
(* (secindex.go): writers change rows and note the primary key in a dirty  *)
(* list under the shard lock (store_write.go), the merger folds the dirty  *)
(* keys into the index, and readers combine index hits with the dirty      *)
(* overlay (exec_select.go, join.go).                                      *)
(*                                                                         *)
(* A row is its indexed cell.  The index is its reverse map (rev) and the  *)
(* entries a lookup sees: the hash buckets, updated by every apply, or the *)
(* sorted view, folded once per merge.  A shard's RWMutex appears where it *)
(* is held across something another goroutine can observe: by a writer     *)
(* between its append to the dirty list and its update of the atomic       *)
(* counter, which indexed reads load without the lock.                     *)
(***************************************************************************)
EXTENDS Integers, Sequences, FiniteSets, SequencesExt, FiniteSetsExt, Sums

CONSTANTS
    PK,         \* primary keys
    Key,        \* non-NULL values of the indexed column
    NShards,    \* number of shards
    shardOf,    \* the shard of each primary key
    Ordered,    \* TRUE for an ORDERED INDEX, FALSE for a hash index
    Readers,    \* goroutines running an indexed query
    MaxWrites,  \* bound on writes
    MaxReads,   \* bound on queries
    Null,       \* a NULL cell, never indexed
    Absent      \* no live row

Shard == 1..NShards
Cell == Key \cup {Null}

ASSUME ShardBounds == NShards \in Nat \ {0} /\ shardOf \in [PK -> Shard]
ASSUME IndexKinds == Ordered \in BOOLEAN
ASSUME WorkBounds == MaxWrites \in Nat /\ MaxReads \in Nat
ASSUME NullIsNoKey == Null \notin Key /\ Absent \notin Cell

VARIABLES
    row,        \* the live rows
    dirtyRead,  \* tableShard.dirtyRead: inserted or updated since the last merge
    dirtyDel,   \* tableShard.dirtyDel: deleted since the last merge
    count,      \* table.readDirtyCount
    lock,       \* the writer inside a shard lock: what it still has to count
    rev,        \* secIndex.rev
    entries,    \* secIndex.fwd or secIndex.sorted, as pairs of key and pk
    mpc,        \* progress of mergeIndexes, which mergeMu serialises
    mshard,     \* the shard the merge is at
    batch,      \* dirty keys of that shard still to reconcile
    seen,       \* the projected cell of the first of them
    taken,      \* how much of each shard's lists the merge covers
    changed,    \* changedPerIdx: moved keys to fold into the sorted view
    reader,     \* the state of each reader
    writes, reads

tableVars == <<row, dirtyRead, dirtyDel, lock, writes>>
mergeVars == <<mpc, mshard, batch, seen, taken, changed>>
vars == <<tableVars, count, rev, entries, mergeVars, reader, reads>>

None == [kind |-> "free"]
NoRange == [r |-> 0, d |-> 0]

\* keyFromCells: the key under which the index must hold a row, Null for none.
KeyFromCells(cell) == IF cell \in Key THEN cell ELSE Null

\* lookup: the bucket of k, or the equal-key run of the sorted view.
Lookup(k) == {p \in PK : <<k, p>> \in entries}

Free(s) == lock[s] = None

\* drops: the shards the merge took entries from and has not trimmed yet.
Drops == {s \in Shard : taken[s] # NoRange}

\* A query: what it is, how far it is, and what it has gathered.  The history
\* fields are the rows that have matched since it began (must), the rows
\* written meanwhile (touched) and whether a merge dropped entries meanwhile.
IdleReader == [pc |-> "idle", kind |-> "select", key |-> Null, pks |-> {}, dirty |-> {},
               shard |-> 0, todo |-> {}, check |-> TRUE, res |-> {},
               must |-> {}, touched |-> {}, dropped |-> FALSE]

\* rebuildIndexes at boot: every index holds exactly the non-NULL live cells.
Init ==
    /\ row \in [PK -> Cell \cup {Absent}]
    /\ rev = [p \in PK |-> KeyFromCells(row[p])]
    /\ entries = {<<row[p], p>> : p \in {q \in PK : row[q] \in Key}}
    /\ dirtyRead = [s \in Shard |-> <<>>]
    /\ dirtyDel = [s \in Shard |-> <<>>]
    /\ count = 0
    /\ lock = [s \in Shard |-> None]
    /\ mpc = "idle"
    /\ mshard = 0
    /\ batch = <<>>
    /\ seen = Absent
    /\ taken = [s \in Shard |-> NoRange]
    /\ changed = {}
    /\ reader = [r \in Readers |-> IdleReader]
    /\ writes = 0
    /\ reads = 0

----------------------------------------------------------------------------
(* Writers.                                                                *)

\* A row changes: queries in flight stop relying on it unless it still
\* matches.
ObserveWrite(p, cell) ==
    reader' = [r \in Readers |->
        [reader[r] EXCEPT !.must = IF cell = reader[r].key THEN @ ELSE @ \ {p},
                          !.touched = @ \cup {p}]]

\* insertJournaled, updateByPKJournaled and their variants: the row, then
\* markDirtyLocked's append.  The lock is kept until the count.
Put(p, cell) ==
    LET s == shardOf[p] IN
    /\ writes < MaxWrites
    /\ Free(s)
    /\ row' = [row EXCEPT ![p] = cell]
    /\ dirtyRead' = [dirtyRead EXCEPT ![s] = Append(@, p)]
    /\ lock' = [lock EXCEPT ![s] = [kind |-> "read", pk |-> p]]
    /\ writes' = writes + 1
    /\ ObserveWrite(p, cell)
    /\ UNCHANGED <<dirtyDel, count, rev, entries, mergeVars, reads>>

\* deleteByPKJournaled: tombstone, then markDelDirtyLocked.
Delete(p) ==
    LET s == shardOf[p] IN
    /\ writes < MaxWrites
    /\ Free(s)
    /\ row[p] # Absent
    /\ row' = [row EXCEPT ![p] = Absent]
    /\ dirtyDel' = [dirtyDel EXCEPT ![s] = Append(@, p)]
    /\ lock' = [lock EXCEPT ![s] = [kind |-> "del", pk |-> p]]
    /\ writes' = writes + 1
    /\ ObserveWrite(p, Absent)
    /\ UNCHANGED <<dirtyRead, count, rev, entries, mergeVars, reads>>

\* The atomic Add after the append, and the deferred unlock.
CountAndUnlock(s) ==
    /\ ~Free(s)
    /\ count' = IF lock[s].kind = "read" THEN count + 1 ELSE count
    /\ lock' = [lock EXCEPT ![s] = None]
    /\ UNCHANGED <<row, dirtyRead, dirtyDel, writes, rev, entries, mergeVars, reader, reads>>

----------------------------------------------------------------------------
(* The merger: table.mergeIndexes.                                         *)

MergeBegin ==
    /\ mpc = "idle"
    /\ mpc' = "snapshot"
    /\ mshard' = 1
    /\ UNCHANGED <<tableVars, count, rev, entries, batch, seen, taken, changed, reader, reads>>

\* Mutant of MergeSnapshot: the lists are swapped out instead of copied.
MergeSnapshotSwaps ==
    /\ mpc = "snapshot"
    /\ mshard \in Shard
    /\ Free(mshard)
    /\ batch' = dirtyRead[mshard] \o dirtyDel[mshard]
    /\ taken' = [taken EXCEPT ![mshard] =
                    [r |-> Len(dirtyRead[mshard]), d |-> Len(dirtyDel[mshard])]]
    /\ dirtyRead' = [dirtyRead EXCEPT ![mshard] = <<>>]
    /\ dirtyDel' = [dirtyDel EXCEPT ![mshard] = <<>>]
    /\ mpc' = "project"
    /\ UNCHANGED <<row, lock, writes, count, rev, entries, mshard, seen, changed, reader, reads>>

\* Snapshot the dirty lists of one shard under its read lock.
MergeSnapshot ==
    /\ mpc = "snapshot"
    /\ mshard \in Shard
    /\ Free(mshard)
    /\ batch' = dirtyRead[mshard] \o dirtyDel[mshard]
    /\ taken' = [taken EXCEPT ![mshard] =
                    [r |-> Len(dirtyRead[mshard]), d |-> Len(dirtyDel[mshard])]]
    /\ mpc' = "project"
    /\ UNCHANGED <<tableVars, count, rev, entries, mshard, seen, changed, reader, reads>>

\* getByPKProjectInto: the live cell of the next dirty key.
MergeProject ==
    /\ mpc = "project"
    /\ batch # <<>>
    /\ Free(mshard)
    /\ seen' = row[Head(batch)]
    /\ mpc' = "apply"
    /\ UNCHANGED <<tableVars, count, rev, entries, mshard, batch, taken, changed, reader, reads>>

\* secIndex.apply, with the cell projected before: a hash index moves its entry
\* at once, an ordered one remembers what to fold.
Apply(p, key) ==
    /\ rev' = [rev EXCEPT ![p] = key]
    /\ IF Ordered
         THEN /\ changed' = IF key = rev[p] THEN changed ELSE changed \cup {p}
              /\ UNCHANGED entries
         ELSE /\ entries' = IF key = rev[p] THEN entries
                            ELSE (entries \ {<<rev[p], p>>})
                                 \cup (IF key \in Key THEN {<<key, p>>} ELSE {})
              /\ UNCHANGED changed

MergeApply ==
    /\ mpc = "apply"
    /\ Apply(Head(batch), KeyFromCells(seen))
    /\ batch' = Tail(batch)
    /\ seen' = Absent
    /\ mpc' = "project"
    /\ UNCHANGED <<tableVars, count, mshard, taken, reader, reads>>

\* The shard's batch is done; after the last shard the merge returns when there
\* is nothing to drop.
MergeNextShard ==
    /\ mpc = "project"
    /\ batch = <<>>
    /\ \/ /\ mshard < NShards
          /\ mshard' = mshard + 1
          /\ mpc' = "snapshot"
       \/ /\ mshard = NShards
          /\ mshard' = 0
          /\ mpc' = IF Drops = {} THEN "idle" ELSE "fold"
    /\ UNCHANGED <<tableVars, count, rev, entries, batch, seen, taken, changed, reader, reads>>

\* Mutant of MergeFold: superseded entries stay in the sorted view.
MergeFoldAddsOnly ==
    /\ mpc = "fold"
    /\ entries' = entries \cup {<<rev[p], p>> : p \in {q \in changed : rev[q] \in Key}}
    /\ changed' = {}
    /\ mshard' = Min(Drops)
    /\ mpc' = "drop"
    /\ UNCHANGED <<tableVars, count, rev, batch, seen, taken, reader, reads>>

\* mergeSorted: entries of changed keys are superseded by what rev holds.
MergeFold ==
    /\ mpc = "fold"
    /\ entries' = {e \in entries : e[2] \notin changed}
                  \cup {<<rev[p], p>> : p \in {q \in changed : rev[q] \in Key}}
    /\ changed' = {}
    /\ mshard' = Min(Drops)
    /\ mpc' = "drop"
    /\ UNCHANGED <<tableVars, count, rev, batch, seen, taken, reader, reads>>

\* Mutant of MergeDrop: the lists are cleared, later appends included.
MergeDropAll ==
    /\ mpc = "drop"
    /\ Free(mshard)
    /\ dirtyRead' = [dirtyRead EXCEPT ![mshard] = <<>>]
    /\ dirtyDel' = [dirtyDel EXCEPT ![mshard] = <<>>]
    /\ mpc' = "uncount"
    /\ UNCHANGED <<row, lock, writes, count, rev, entries, mshard, batch, seen, taken, changed,
                   reader, reads>>

\* Mutant of MergeDrop: the delete list is never trimmed.
MergeDropKeepsDeletes ==
    /\ mpc = "drop"
    /\ Free(mshard)
    /\ dirtyRead' = [dirtyRead EXCEPT ![mshard] = SubSeq(@, taken[mshard].r + 1, Len(@))]
    /\ mpc' = "uncount"
    /\ UNCHANGED <<row, dirtyDel, lock, writes, count, rev, entries, mshard, batch, seen, taken,
                   changed, reader, reads>>

\* Drop the prefixes the merge covered, under the shard lock.
MergeDrop ==
    /\ mpc = "drop"
    /\ Free(mshard)
    /\ dirtyRead' = [dirtyRead EXCEPT ![mshard] = SubSeq(@, taken[mshard].r + 1, Len(@))]
    /\ dirtyDel' = [dirtyDel EXCEPT ![mshard] = SubSeq(@, taken[mshard].d + 1, Len(@))]
    /\ reader' = [r \in Readers |-> [reader[r] EXCEPT !.dropped = @ \/ reader[r].pc # "idle"]]
    /\ mpc' = "uncount"
    /\ UNCHANGED <<row, lock, writes, count, rev, entries, mshard, batch, seen, taken, changed, reads>>

\* Only then lower the counter, outside the lock.
MergeUncount ==
    /\ mpc = "uncount"
    /\ count' = count - taken[mshard].r
    /\ taken' = [taken EXCEPT ![mshard] = NoRange]
    /\ mshard' = IF Drops = {mshard} THEN 0 ELSE Min(Drops \ {mshard})
    /\ mpc' = IF Drops = {mshard} THEN "idle" ELSE "drop"
    /\ UNCHANGED <<tableVars, rev, entries, batch, seen, changed, reader, reads>>

----------------------------------------------------------------------------
(* Readers of WHERE col = k.  "exact" is a plan whose WHERE is just that    *)
(* equality (idxExact), "select" one with more to check, "join" the probe  *)
(* side of a join.                                                         *)

SetReader(r, rec) ==
    /\ reader' = [reader EXCEPT ![r] = rec]
    /\ UNCHANGED <<tableVars, count, rev, entries, mergeVars>>

\* The keys whose write has not returned yet.
BeingWritten == {lock[s].pk : s \in {t \in Shard : ~Free(t)}}

\* The rows a scan would return now.
Matching(k) == {p \in PK : row[p] = k} \ BeingWritten

ReadBegin(r) ==
    /\ reader[r].pc = "idle"
    /\ reads < MaxReads
    /\ reads' = reads + 1
    /\ \E k \in Key, kind \in {"select", "exact", "join"} :
          SetReader(r, [IdleReader EXCEPT
              !.pc = CASE kind = "select" -> "lookup"
                       [] kind = "exact" -> "count"
                       [] kind = "join" -> "overlay",
              !.kind = kind, !.key = k,
              !.must = Matching(k), !.touched = BeingWritten])

\* execSelectIdx's fast path is tried when the counter reads zero.
ReadCount(r) ==
    /\ reader[r].pc = "count"
    /\ SetReader(r, [reader[r] EXCEPT !.pc = IF count = 0 THEN "one" ELSE "lookup"])
    /\ UNCHANGED reads

\* lookupOne: no hit returns nothing, one hit is fetched without a check of the
\* WHERE, more hits go the general way.
ReadLookupOne(r) ==
    LET hits == Lookup(reader[r].key) IN
    /\ reader[r].pc = "one"
    /\ SetReader(r, IF Cardinality(hits) > 1
                      THEN [reader[r] EXCEPT !.pc = "lookup"]
                      ELSE [reader[r] EXCEPT !.pc = "fetch", !.todo = hits, !.check = FALSE])
    /\ UNCHANGED reads

\* si.lookup: a SELECT goes on to the overlay, a join probe has it already.
ReadLookup(r) ==
    LET hits == Lookup(reader[r].key) IN
    /\ reader[r].pc = "lookup"
    /\ SetReader(r, IF reader[r].kind = "join"
                      THEN [reader[r] EXCEPT !.pc = "fetch", !.pks = hits,
                                             !.todo = hits \cup reader[r].dirty]
                      ELSE [reader[r] EXCEPT !.pc = "overlay", !.pks = hits])
    /\ UNCHANGED reads

\* What follows dirtyPKs: the probe looks up, a SELECT fetches; its WHERE is not
\* checked again when it is exact and the overlay came back empty.
AfterOverlay(rec) ==
    IF rec.kind = "join"
      THEN [rec EXCEPT !.pc = "lookup"]
      ELSE [rec EXCEPT !.pc = "fetch", !.todo = rec.pks \cup rec.dirty,
                       !.check = rec.kind # "exact" \/ rec.dirty # {}]

\* dirtyPKs: nothing when the counter is zero, else a walk over the shards.
ReadOverlay(r) ==
    /\ reader[r].pc = "overlay"
    /\ SetReader(r, IF count = 0
                      THEN AfterOverlay(reader[r])
                      ELSE [reader[r] EXCEPT !.pc = "walk", !.shard = 1])
    /\ UNCHANGED reads

\* Mutant of ReadWalk: the walk stops before the last shard.
ReadWalkShort(r) ==
    LET s == reader[r].shard
        live == {p \in Range(dirtyRead[s]) : row[p] # Absent}
        rec == [reader[r] EXCEPT !.dirty = @ \cup live]
    IN
    /\ reader[r].pc = "walk"
    /\ Free(s)
    /\ SetReader(r, IF s + 1 < NShards THEN [rec EXCEPT !.shard = s + 1] ELSE AfterOverlay(rec))
    /\ UNCHANGED reads

\* One shard of that walk, under its read lock; dead rows are left out.
ReadWalk(r) ==
    LET s == reader[r].shard
        live == {p \in Range(dirtyRead[s]) : row[p] # Absent}
        rec == [reader[r] EXCEPT !.dirty = @ \cup live]
    IN
    /\ reader[r].pc = "walk"
    /\ Free(s)
    /\ SetReader(r, IF s < NShards THEN [rec EXCEPT !.shard = s + 1] ELSE AfterOverlay(rec))
    /\ UNCHANGED reads

\* getByPK of one candidate, with the WHERE check unless it was skipped.
ReadFetch(r) ==
    /\ reader[r].pc = "fetch"
    /\ \E p \in reader[r].todo :
          /\ Free(shardOf[p])
          /\ SetReader(r, [reader[r] EXCEPT
                 !.todo = @ \ {p},
                 !.res = IF row[p] # Absent /\ (reader[r].check => row[p] = reader[r].key)
                           THEN @ \cup {<<p, row[p]>>} ELSE @])
    /\ UNCHANGED reads

\* The result set goes back to the caller.
ReadReturn(r) ==
    /\ reader[r].pc = "fetch"
    /\ reader[r].todo = {}
    /\ SetReader(r, IdleReader)
    /\ UNCHANGED reads

----------------------------------------------------------------------------

Write == \E p \in PK : Delete(p) \/ \E cell \in Cell : Put(p, cell)
Unlock == \E s \in Shard : CountAndUnlock(s)
Merge == MergeSnapshot \/ MergeProject \/ MergeApply \/ MergeNextShard \/ MergeFold
         \/ MergeDrop \/ MergeUncount
Read(r) == ReadBegin(r) \/ ReadCount(r) \/ ReadLookupOne(r) \/ ReadLookup(r)
           \/ ReadOverlay(r) \/ ReadWalk(r) \/ ReadFetch(r) \/ ReadReturn(r)

Next == Write \/ Unlock \/ MergeBegin \/ Merge \/ \E r \in Readers : Read(r)

Spec == Init /\ [][Next]_vars

\* The ticker fires again and again, a started merge goes on, and a writer
\* inside the lock leaves it.
Fairness == WF_vars(MergeBegin) /\ WF_vars(Merge) /\ WF_vars(Unlock)

FairSpec == Spec /\ Fairness

----------------------------------------------------------------------------
(* Properties.                                                             *)

ReaderPc == {"idle", "count", "one", "lookup", "overlay", "walk", "fetch"}

ReaderState ==
    [pc : ReaderPc, kind : {"select", "exact", "join"}, key : Key \cup {Null},
     pks : SUBSET PK, dirty : SUBSET PK, shard : 0..NShards, todo : SUBSET PK,
     check : BOOLEAN, res : SUBSET (PK \X Cell),
     must : SUBSET PK, touched : SUBSET PK, dropped : BOOLEAN]

TypeOK ==
    /\ row \in [PK -> Cell \cup {Absent}]
    /\ rev \in [PK -> Cell]
    /\ entries \subseteq Key \X PK
    /\ dirtyRead \in [Shard -> Seq(PK)] /\ dirtyDel \in [Shard -> Seq(PK)]
    /\ count \in Int
    /\ lock \in [Shard -> {None} \cup [kind : {"read", "del"}, pk : PK]]
    /\ mpc \in {"idle", "snapshot", "project", "apply", "fold", "drop", "uncount"}
    /\ mshard \in 0..NShards
    /\ batch \in Seq(PK)
    /\ seen \in Cell \cup {Absent}
    /\ taken \in [Shard -> [r : Nat, d : Nat]]
    /\ changed \subseteq PK
    /\ reader \in [Readers -> ReaderState]
    /\ writes \in 0..MaxWrites
    /\ reads \in 0..MaxReads

\* The key is in a dirty list, waiting for the merger.
InRead(p) == p \in Range(dirtyRead[shardOf[p]])
InDel(p) == p \in Range(dirtyDel[shardOf[p]])
Dirty(p) == InRead(p) \/ InDel(p)

\* The index holds the row exactly where it belongs.
Indexed(p) == \A k \in Key : <<k, p>> \in entries <=> row[p] = k

\* The merger's no-gap rule: a key leaves the dirty lists only when the index
\* agrees with its row, whatever was written while the merge ran.
CleanIsIndexed == \A p \in PK : Dirty(p) \/ Indexed(p)

\* A live row whose entry is missing or wrong is in the read overlay: a delete
\* list alone never hides a row from readers.
StaleIsInOverlay ==
    \A p \in PK : row[p] # Absent /\ ~Indexed(p) => InRead(p)

\* No key is in two buckets, so that intersecting two indexes' buckets and
\* counting a bucket (COUNT of an equality) are right.
OneEntryPerPK == \A e, f \in entries : e[2] = f[2] => e = f

\* The overlay entries of a shard whose writer has counted them.
Counted(s) == IF lock[s].kind = "read" THEN Len(dirtyRead[s]) - 1 ELSE Len(dirtyRead[s])

\* The lock-free counter accounts for every overlay entry, but for the one a
\* writer still holds the lock for and the ones a merge is about to subtract.
\* In particular zero means that no completed write is in the overlay.
CountIsExact ==
    count = SumOver([s \in Shard |-> Counted(s)], Shard)
            + (IF mpc = "uncount" THEN taken[mshard].r ELSE 0)

----------------------------------------------------------------------------
(* What the merger knows while it runs, which the rules above rest on.     *)

\* The elements of a list between two positions.
Between(l, lo, hi) == {l[n] : n \in lo..hi}

\* What a shard's lists still hold of what the merge took.
Kept(s) == IF mpc = "uncount" /\ s = mshard THEN NoRange ELSE taken[s]

\* The key was written after the merge took its shard's lists, or the merge
\* has not taken them yet.
LateRead(p) == p \in Between(dirtyRead[shardOf[p]], Kept(shardOf[p]).r + 1, Len(dirtyRead[shardOf[p]]))
LateDel(p) == p \in Between(dirtyDel[shardOf[p]], Kept(shardOf[p]).d + 1, Len(dirtyDel[shardOf[p]]))
Late(p) == LateRead(p) \/ LateDel(p)

\* The key is in the part of the lists that the merge took.
Covered(p) == p \in Between(dirtyRead[shardOf[p]], 1, Kept(shardOf[p]).r)
                    \cup Between(dirtyDel[shardOf[p]], 1, Kept(shardOf[p]).d)

\* Each step of the merge finds what the one before left: shards not yet reached
\* are not taken, the batch is finished before the fold and the fold before the
\* drop.
MergePhases ==
    /\ mpc \in {"snapshot", "project", "apply"} => mshard # 0
    /\ mpc = "apply" => batch # <<>>
    /\ mpc \notin {"project", "apply"} => batch = <<>>
    /\ mpc = "idle" => Drops = {}
    /\ mpc = "snapshot" => \A s \in Shard : s >= mshard => taken[s] = NoRange
    /\ mpc \in {"project", "apply"} => \A s \in Shard : s > mshard => taken[s] = NoRange
    /\ mpc = "fold" => Drops # {}
    /\ mpc \in {"drop", "uncount"} => mshard \in Drops
    /\ ~Ordered \/ mpc \in {"idle", "drop", "uncount"} => changed = {}

\* Lists hold keys of their own shard, a writer's entry is the last of its list,
\* and no list is shorter than what the merge took of it.
ListsFit ==
    \A s \in Shard :
        /\ \A p \in Range(dirtyRead[s]) \cup Range(dirtyDel[s]) : shardOf[p] = s
        /\ lock[s].kind = "read" => dirtyRead[s] # <<>> /\ dirtyRead[s][Len(dirtyRead[s])] = lock[s].pk
        /\ lock[s].kind # "free" => shardOf[lock[s].pk] = s
        /\ Kept(s).r <= Counted(s) /\ Kept(s).d <= Len(dirtyDel[s])

\* What is being reconciled is still listed: it was taken and not dropped.
WorkIsCovered == \A p \in Range(batch) \cup changed : Covered(p)

\* The reverse map has the row of a key that is neither waiting for this merge
\* nor left to the next, and the cell projected for a key is its row's unless
\* the next merge sees to it.
RevFollowsRow ==
    \A p \in PK :
        /\ Late(p) \/ p \in Range(batch) \/ rev[p] = KeyFromCells(row[p])
        /\ mpc = "apply" /\ p = Head(batch) => Late(p) \/ seen = row[p]

\* The entries are what the reverse map says, but for keys left to the fold.
EntriesFollowRev == \A p \in PK \ changed : \A k \in Key : <<k, p>> \in entries <=> rev[p] = k

\* A live row in a delete list was written again after the delete.
LiveIsRead ==
    \A p \in PK : row[p] # Absent =>
        /\ LateDel(p) => LateRead(p)
        /\ InDel(p) => InRead(p)

MergeInv ==
    /\ MergePhases
    /\ ListsFit
    /\ WorkIsCovered
    /\ RevFollowsRow
    /\ EntriesFollowRev
    /\ LiveIsRead

----------------------------------------------------------------------------
(* What a query may rely on between two of its steps.                      *)

\* The rows that did not change since the query began, as far as it can tell.
Stable(q) == q.must \cup (PK \ q.touched)

\* The key is in the overlay, by a write that was counted; the same by one that
\* the merge has not taken.
Overlaid(p) == p \in Between(dirtyRead[shardOf[p]], 1, Counted(shardOf[p]))
OverlaidLate(p) ==
    p \in Between(dirtyRead[shardOf[p]], Kept(shardOf[p]).r + 1, Counted(shardOf[p]))

\* What RevFollowsRow and LiveIsRead say holds of a stable row by counted writes
\* alone: a write that repeats the row's cell takes nothing away.
CountedWritesSuffice(p) ==
    /\ OverlaidLate(p) \/ p \in Range(batch) \/ rev[p] = KeyFromCells(row[p])
    /\ mpc = "apply" /\ p = Head(batch) => OverlaidLate(p) \/ seen = row[p]
    /\ LateDel(p) => OverlaidLate(p)
    /\ InDel(p) => Overlaid(p)

\* The index has the row, and no step of a merge takes it away.
Safe(p) ==
    /\ rev[p] = KeyFromCells(row[p])
    /\ p \notin changed
    /\ mpc = "apply" /\ p = Head(batch) => seen = row[p]

\* What a query has found so far is right about a row.
FoundRight(q, p) == p \in q.pks <=> row[p] = q.key

\* How far each kind of query is with the rows it must find.
ReaderProgress(q) ==
    LET live == {p \in Stable(q) : row[p] # Absent} IN
    /\ q.pc # "idle" => q.key \in Key
    /\ q.pc \in {"count", "one"} => q.kind = "exact"
    /\ q.pc = "walk" => q.shard \in Shard
    /\ q.pc # "fetch" => q.res = {} /\ q.check
    /\ q.kind = "join" => q.check
    /\ q.pc = "one" => \A p \in live : Safe(p)
    /\ q.pc = "lookup" /\ q.kind = "join" => \A p \in q.must : p \in q.dirty \/ Safe(p)
    /\ q.pc = "walk" /\ q.kind = "join" =>
          \A p \in q.must : shardOf[p] < q.shard => p \in q.dirty \/ Safe(p)
    /\ q.pc \in {"overlay", "walk"} /\ q.kind # "join" /\ ~q.dropped =>
          \A p \in live : FoundRight(q, p) \/ Overlaid(p)
    /\ q.pc = "walk" /\ q.kind # "join" /\ ~q.dropped =>
          \A p \in live : shardOf[p] < q.shard => FoundRight(q, p) \/ p \in q.dirty
    /\ q.pc = "fetch" /\ (q.kind = "join" \/ ~q.dropped) =>
          q.must \subseteq q.todo \cup {x[1] : x \in q.res}
    /\ q.pc = "fetch" /\ ~q.dropped =>
          /\ \A p \in q.todo \ q.touched : q.check \/ row[p] \in {q.key, Absent}
          /\ \A x \in q.res : x[2] = q.key \/ x[1] \in q.touched

ReaderInv ==
    \A r \in Readers :
        /\ \A p \in reader[r].must : row[p] = reader[r].key
        /\ reader[r].pc # "idle" =>
              \A p \in Stable(reader[r]) : row[p] # Absent => CountedWritesSuffice(p)
        /\ ReaderProgress(reader[r])

\* The index and its bookkeeping at every step of writers and merger: the no-gap
\* rule, the overlay that makes up for what the index lacks, one entry a key, and
\* the counter that lets a reader skip the overlay.
IndexInv ==
    /\ TypeOK
    /\ CleanIsIndexed
    /\ StaleIsInOverlay
    /\ OneEntryPerPK
    /\ CountIsExact
    /\ MergeInv
    /\ ReaderInv

----------------------------------------------------------------------------
(* What queries return.                                                    *)

ResultPKs(r) == {x[1] : x \in reader[r].res}
Returning(r) == reader[r].pc = "fetch" /\ reader[r].todo = {}

\* A query that no merge dropped entries under finds every row that matched
\* throughout, and returns a row that does not match only if that row was
\* written meanwhile.
QuietReadIsScan ==
    \A r \in Readers : Returning(r) /\ ~reader[r].dropped =>
        /\ reader[r].must \subseteq ResultPKs(r)
        /\ \A x \in reader[r].res : x[2] = reader[r].key \/ x[1] \in reader[r].touched

\* A join probe, which takes the overlay before the index, misses no row that
\* matched throughout, merges or not.
JoinMissesNothing ==
    \A r \in Readers : Returning(r) /\ reader[r].kind = "join" =>
        reader[r].must \subseteq ResultPKs(r)

\* Every write reaches the index.
WritesAreIndexed == \A p \in PK : Dirty(p) ~> ~Dirty(p) /\ Indexed(p)

=============================================================================
