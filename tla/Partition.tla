----------------------------- MODULE Partition -----------------------------
(***************************************************************************)
(* A partitioned table: shards chosen by the partition value, a table-wide *)
(* directory from primary key to row location (partition_store.go), the    *)
(* tombstones that deletes leave behind, and the background sweeper that   *)
(* renumbers the rows of a mostly dead shard (store_compact.go,            *)
(* compact.go).                                                            *)
(*                                                                         *)
(* Every writer holds the directory lock and the locks of the shards it    *)
(* changes while it changes anything, so taking the last lock, the change  *)
(* and the release are one step; the waits in between are steps.  Readers  *)
(* hold one lock at a time.  A row is its primary key and its partition    *)
(* value, both immutable; the other cells, the byte counts and the journal *)
(* are the subject of Store.                                               *)
(***************************************************************************)
EXTENDS Integers, Sequences, FiniteSets, SequencesExt, Filter

CONSTANTS
    PKs, Parts,
    NShards,            \* number of shards
    shardOf,            \* table.shardIdxOf on partition values
    Writers, Readers,   \* goroutines that call Exec / Transaction, Query
    Sweeper,            \* the goroutine of startCompactLoop
    compactMinSlots,    \* 64
    minTailPrune,       \* 16
    pkRetryBudget,      \* 8
    MaxSlots,           \* bound on the slots of all arenas together
    None                \* no location, no lock holder, a tombstone

Shard == 1..NShards
Live == [pk : PKs, part : Parts]
Loc == [shard : Shard, rowID : Nat \ {0}]
Holders == Writers \cup {Sweeper}

ASSUME PartitionBounds ==
    /\ NShards \in Nat \ {0} /\ MaxSlots \in Nat
    /\ compactMinSlots \in Nat /\ minTailPrune \in Nat /\ pkRetryBudget \in Nat
ASSUME PartitionRouting == shardOf \in [Parts -> Shard]
ASSUME NoneIsApart == None \notin Live \cup Loc \cup Holders \cup PKs
ASSUME SweeperIsApart == Sweeper \notin Writers
ASSUME FiniteKeys == IsFiniteSet(PKs)

VARIABLES
    rows,       \* tableShard.rows: the arena, row numbers counted from 1
    live,       \* tableShard.live
    tails,      \* tableShard.tails: the row numbers of a partition
    tailsDead,  \* tableShard.tailsDead
    dir,        \* pkDirectory.idx
    dirLock,    \* pkDirectory.mu: the writer and the readers that hold it
    shardLock,  \* tableShard.mu: who holds it for writing between two steps
    wr,         \* what each writer is doing
    rd,         \* what each reader is doing
    sw          \* what the sweeper is doing

dataVars == <<rows, live, tails, tailsDead, dir>>
lockVars == <<dirLock, shardLock>>
vars == <<dataVars, lockVars, wr, rd, sw>>

----------------------------------------------------------------------------
(* The storage of a table as a value, and what the store methods do to it. *)

Table == [rows |-> rows, live |-> live, tails |-> tails, tailsDead |-> tailsDead, dir |-> dir]

At(t, loc) == IF loc.rowID <= Len(t.rows[loc.shard]) THEN t.rows[loc.shard][loc.rowID] ELSE None
IsRow(r) == r # None
Numbers(s) == [i \in 1..Len(s) |-> i]

\* Append the row, its number to the partition's list, its place to the directory.
addRow(t, p, q) ==
    LET s == shardOf[q]
        id == Len(t.rows[s]) + 1 IN
    [t EXCEPT !.rows[s] = Append(@, [pk |-> p, part |-> q]),
              !.live[s] = @ + 1,
              !.tails[q] = Append(@, id),
              !.dir[p] = [shard |-> s, rowID |-> id]]

\* The numbers of a partition's live rows.
liveTail(t, q) == Kept(t.tails[q], LAMBDA i : At(t, [shard |-> shardOf[q], rowID |-> i]) # None)

\* Count one more dead number, and drop the dead ones once they are half the list.
tailsTombstone(t, q) ==
    LET dead == t.tailsDead[q] + 1
        size == Len(t.tails[q]) IN
    IF dead * 2 < size \/ size < minTailPrune
    THEN [t EXCEPT !.tailsDead[q] = dead]
    ELSE [t EXCEPT !.tails[q] = liveTail(t, q), !.tailsDead[q] = 0]

\* Tombstone the row the directory points at and forget the key.
removeRow(t, p) ==
    LET loc == t.dir[p]
        q == At(t, loc).part IN
    [tailsTombstone([t EXCEPT !.rows[loc.shard][loc.rowID] = None, !.live[loc.shard] = @ - 1], q)
        EXCEPT !.dir[p] = None]

\* A DELETE of an absent key does nothing.
deleteRow(t, p) == IF t.dir[p] = None THEN t ELSE removeRow(t, p)

\* Mutant of compactShardLocked: the directory keeps the old numbers.
compactKeepsDir(t, s) ==
    LET new == Kept(t.rows[s], IsRow)
        of(q) == Kept(Numbers(new), LAMBDA i : new[i].part = q) IN
    [t EXCEPT
        !.rows[s] = new,
        !.tails = [q \in Parts |-> IF shardOf[q] = s THEN of(q) ELSE @[q]],
        !.tailsDead = [q \in Parts |-> IF shardOf[q] = s THEN 0 ELSE @[q]]]

\* Mutant of compactShardLocked: the partition lists keep the old numbers.
compactKeepsTails(t, s) ==
    LET new == Kept(t.rows[s], IsRow)
        at(p) == {i \in 1..Len(new) : new[i].pk = p} IN
    [t EXCEPT
        !.rows[s] = new,
        !.dir = [p \in PKs |-> IF at(p) = {} THEN @[p]
                               ELSE [shard |-> s, rowID |-> CHOOSE i \in at(p) : TRUE]]]

\* Rebuild the arena with the live rows only and rewrite every row number.
compactShardLocked(t, s) ==
    LET new == Kept(t.rows[s], IsRow)
        of(q) == Kept(Numbers(new), LAMBDA i : new[i].part = q)
        at(p) == {i \in 1..Len(new) : new[i].pk = p} IN
    [t EXCEPT
        !.rows[s] = new,
        !.tails = [q \in Parts |-> IF shardOf[q] = s THEN of(q) ELSE @[q]],
        !.tailsDead = [q \in Parts |-> IF shardOf[q] = s THEN 0 ELSE @[q]],
        !.dir = [p \in PKs |-> IF at(p) = {} THEN @[p]
                               ELSE [shard |-> s, rowID |-> CHOOSE i \in at(p) : TRUE]]]

Slots(t) == Cardinality(UNION {{s} \X (1..Len(t.rows[s])) : s \in Shard})

shardDense(t, s) ==
    /\ Len(t.rows[s]) - t.live[s] > t.live[s]
    /\ Len(t.rows[s]) >= compactMinSlots

\* What a scan of one partition visits, under the shard's read lock: the rows of
\* its list, without the dead ones.
keyAt(t, loc) == IF At(t, loc) = None THEN None ELSE At(t, loc).pk
listed(t, q) == [i \in 1..Len(t.tails[q]) |-> keyAt(t, [shard |-> shardOf[q], rowID |-> t.tails[q][i]])]
scanPartition(t, q) == Kept(listed(t, q), IsRow)

\* The live primary keys of one shard, in arena order.
shardPKs(s) ==
    LET seen == Kept(rows[s], IsRow) IN [k \in 1..Len(seen) |-> seen[k].pk]

----------------------------------------------------------------------------
(* History of a running read: the keys it may miss, because they were      *)
(* absent at some moment of it (or, for a scan, because a transaction      *)
(* moved them to another partition), and how often the key being resolved  *)
(* was renumbered.                                                         *)

PartOf(t, p) == IF t.dir[p] = None THEN None ELSE At(t, t.dir[p]).part

Cap(n) == IF n > pkRetryBudget THEN pkRetryBudget ELSE n

\* How often a scan has returned a key that it may not miss.
Counted(st) == [st EXCEPT !.got = [p \in PKs |-> IF p \in st.excused THEN 0 ELSE @[p]]]

Noticed(t) ==
    [r \in Readers |->
        IF rd[r].pc = "idle" THEN rd[r]
        ELSE Counted([rd[r] EXCEPT
                !.excused = @ \cup
                    IF rd[r].job = "point" THEN {p \in {rd[r].key} : t.dir[p] = None}
                    ELSE {p \in PKs : t.dir[p] = None \/ PartOf(t, p) # PartOf(Table, p)},
                !.relocs = IF rd[r].todo # <<>> /\ t.dir[Head(rd[r].todo)] # dir[Head(rd[r].todo)]
                           THEN Cap(@ + 1) ELSE @])]

\* The table becomes t.
Store(t) ==
    /\ rows' = t.rows
    /\ live' = t.live
    /\ tails' = t.tails
    /\ tailsDead' = t.tailsDead
    /\ dir' = t.dir
    /\ rd' = Noticed(t)

NoStore == UNCHANGED <<dataVars, rd>>

----------------------------------------------------------------------------
(* Locks.  The order is directory, then shards ascending.                  *)

Idle == [kind |-> "idle", pk |-> None, loc |-> None]

FreeDir == dirLock.w = None /\ dirLock.r = {}
ReadableDir == dirLock.w = None /\ sw.pc # "queued"
FreeShard(s) == shardLock[s] = None
HeldShards(w) == {s \in Shard : shardLock[s] = w}

\* Everything w holds is released, except the shard it took in this very step.
Release(w) ==
    /\ dirLock' = [w |-> IF dirLock.w = w THEN None ELSE dirLock.w, r |-> dirLock.r \ {w}]
    /\ shardLock' = [s \in Shard |-> IF shardLock[s] = w THEN None ELSE shardLock[s]]

\* w waits for the last shard of S only, and it is free: the step that takes it
\* also does the work and releases everything.
Hold(w, S) ==
    IF S = {} THEN HeldShards(w) = {}
    ELSE HeldShards(w) = S \ {Max(S)} /\ FreeShard(Max(S))

\* The next shard of a writer that needs several: the lowest it does not have.
LockShard(w) ==
    /\ wr[w].kind \in {"deleteWhere", "updateWhere", "txn"}
    /\ \E s \in Shard :
        /\ wr[w].kind # "txn" => \A u \in 1..(s - 1) : shardLock[u] = w
        /\ \A u \in HeldShards(w) : u < s
        /\ s < NShards
        /\ FreeShard(s)
        /\ shardLock' = [shardLock EXCEPT ![s] = w]
    /\ UNCHANGED <<dirLock, wr, sw>> /\ NoStore

----------------------------------------------------------------------------
(* Writers.                                                                *)

\* insert, delete, DELETE WHERE and a commit start with the directory's write lock.
LockDir(w, kind) ==
    /\ wr[w] = Idle
    /\ FreeDir
    /\ dirLock' = [dirLock EXCEPT !.w = w]
    /\ wr' = [wr EXCEPT ![w] = [Idle EXCEPT !.kind = kind]]
    /\ UNCHANGED <<shardLock, sw>> /\ NoStore

\* UPDATE WHERE takes no directory lock: no row changes its place.
StartUpdateWhere(w) ==
    /\ wr[w] = Idle
    /\ wr' = [wr EXCEPT ![w] = [Idle EXCEPT !.kind = "updateWhere"]]
    /\ UNCHANGED <<lockVars, sw>> /\ NoStore

Done(w) == wr' = [wr EXCEPT ![w] = Idle] /\ Release(w) /\ UNCHANGED sw

\* The journal takes the record and the table becomes t, or the statement fails
\* (no capacity, a journal error) and nothing changes.
Journaled(t) == Store(t) \/ NoStore

insertPartitioned(w, p, q) ==
    /\ wr[w].kind = "insert" /\ Done(w)
    /\ \/ dir[p] # None /\ NoStore      \* ErrDuplicatePK, no shard is locked
       \/ /\ dir[p] = None
          /\ Hold(w, {shardOf[q]})
          /\ IF Slots(Table) < MaxSlots THEN Journaled(addRow(Table, p, q)) ELSE NoStore

deleteByPKJournaledPartitioned(w, p) ==
    /\ wr[w].kind = "delete" /\ Done(w)
    /\ \/ dir[p] = None /\ NoStore
       \/ dir[p] # None /\ Hold(w, {dir[p].shard}) /\ Journaled(removeRow(Table, p))

\* Every matching row of every shard, in one step under all the locks.
deleteWhereAllPartitioned(w, match) ==
    /\ wr[w].kind = "deleteWhere" /\ Done(w)
    /\ Hold(w, Shard)
    /\ LET pending == SetToSeq({p \in match : dir[p] # None}) IN
        Journaled(FoldLeft(deleteRow, Table, pending))

updateWhereAll(w) ==
    /\ wr[w].kind = "updateWhere" /\ Done(w)
    /\ Hold(w, Shard)
    /\ NoStore

\* Mutant of UpdateLookup: the directory is released before the shard is locked.
UpdateLookupReleased(w, p) ==
    /\ wr[w] = Idle
    /\ ReadableDir
    /\ dir[p] # None
    /\ wr' = [wr EXCEPT ![w] = [kind |-> "update", pk |-> p, loc |-> dir[p]]]
    /\ UNCHANGED <<lockVars, sw>> /\ NoStore

\* UPDATE by primary key: the location is looked up under the directory's read
\* lock, which is kept while the writer waits for the shard.
UpdateLookup(w, p) ==
    /\ wr[w] = Idle
    /\ ReadableDir
    /\ dir[p] # None
    /\ dirLock' = [dirLock EXCEPT !.r = @ \cup {w}]
    /\ wr' = [wr EXCEPT ![w] = [kind |-> "update", pk |-> p, loc |-> dir[p]]]
    /\ UNCHANGED <<shardLock, sw>> /\ NoStore

updateByPKJournaledPartitioned(w) ==
    /\ wr[w].kind = "update" /\ Done(w)
    /\ Hold(w, {wr[w].loc.shard})
    /\ NoStore

----------------------------------------------------------------------------
(* Transactions of one or two staged statements.                           *)

Staged == [kind : {"del"}, pk : PKs] \cup [kind : {"ins"}, pk : PKs, part : Parts]

\* The shards to lock: an INSERT's by its partition, a DELETE's by the directory.
collectShards(staged) ==
    {IF m.kind = "ins" THEN shardOf[m.part] ELSE dir[m.pk].shard :
        m \in {x \in ToSet(staged) : x.kind = "ins" \/ dir[x.pk] # None}}

\* The walk over the staged statements rejects the INSERT of a key that is there.
Accepts(t, m) == m.kind = "ins" => t.dir[m.pk] = None

Apply(t, m) == IF m.kind = "ins" THEN addRow(t, m.pk, m.part) ELSE deleteRow(t, m.pk)

commit(w, m1, m2) ==
    /\ wr[w].kind = "txn" /\ Done(w)
    /\ Hold(w, collectShards(<<m1, m2>>))
    /\ LET t1 == Apply(Table, m1)
           t2 == Apply(t1, m2) IN
        IF Accepts(Table, m1) /\ Accepts(t1, m2) /\ Slots(t2) <= MaxSlots
        THEN Journaled(t2) ELSE NoStore

Finish(w) ==
    \/ \E p \in PKs, q \in Parts : insertPartitioned(w, p, q)
    \/ \E p \in PKs : deleteByPKJournaledPartitioned(w, p)
    \/ \E match \in SUBSET PKs : deleteWhereAllPartitioned(w, match)
    \/ updateWhereAll(w)
    \/ updateByPKJournaledPartitioned(w)
    \/ \E m1, m2 \in Staged : commit(w, m1, m2)

Writer(w) ==
    \/ \E kind \in {"insert", "delete", "deleteWhere", "txn"} : LockDir(w, kind)
    \/ StartUpdateWhere(w)
    \/ LockShard(w)
    \/ \E p \in PKs : UpdateLookup(w, p)
    \/ Finish(w)

----------------------------------------------------------------------------
(* Readers.  A point read and the batched scan resolve keys through the    *)
(* directory: look the location up, release, then read it under the        *)
(* shard's lock and look again if another row or none is there.            *)

NoRead == [pc |-> "idle", job |-> "none", key |-> None, shard |-> 0, todo |-> <<>>, got |-> [p \in PKs |-> 0],
           loc |-> None, retry |-> 0, relocs |-> 0, excused |-> {}]

Absent == {p \in PKs : dir[p] = None}

Begin(r, job, pc, key) ==
    /\ rd[r].pc = "idle"
    /\ rd' = [rd EXCEPT ![r] = [NoRead EXCEPT !.pc = pc, !.job = job, !.key = key, !.shard = 1,
                                              !.todo = IF key = None THEN <<>> ELSE <<key>>,
                                              !.excused = IF key = None THEN Absent ELSE Absent \cap {key}]]
    /\ UNCHANGED <<dataVars, lockVars, wr, sw>>

getByPKPartitioned(r, p) == Begin(r, "point", "lookup", p)
scanShardsBatched(r) == Begin(r, "batched", "snap", None)
scanAll(r) == Begin(r, "all", "pass", None)

ReaderStep(r, state) ==
    /\ rd' = [rd EXCEPT ![r] = Counted(state)]
    /\ UNCHANGED <<dataVars, lockVars, wr, sw>>

\* The next shard, or the end, once this one has no keys left to resolve.
Onward(st) ==
    IF st.todo # <<>> THEN [st EXCEPT !.pc = "lookup", !.retry = 0, !.relocs = 0, !.loc = None]
    ELSE IF st.job = "point" \/ st.shard = NShards
         THEN [st EXCEPT !.pc = "done", !.loc = None, !.retry = 0, !.relocs = 0]
         ELSE [st EXCEPT !.pc = IF st.job = "all" THEN "pass" ELSE "snap", !.shard = @ + 1,
                         !.loc = None, !.retry = 0, !.relocs = 0]

\* scanAll: one shard's rows under its read lock.
Pass(r) ==
    LET st == rd[r]
        pks == shardPKs(st.shard) IN
    /\ st.pc = "pass" /\ FreeShard(st.shard)
    /\ ReaderStep(r, Onward([st EXCEPT !.got = [p \in PKs |-> @[p] + Cardinality({i \in DOMAIN pks : pks[i] = p})]]))

\* scanShardsBatched: snapshot one shard's live keys.
Snap(r) ==
    LET st == rd[r] IN
    /\ st.pc = "snap" /\ FreeShard(st.shard)
    /\ ReaderStep(r, Onward([st EXCEPT !.todo = shardPKs(st.shard)]))

Lookup(r) ==
    LET st == rd[r]
        p == Head(st.todo) IN
    /\ st.pc = "lookup" /\ ReadableDir
    /\ ReaderStep(r, IF dir[p] = None THEN Onward([st EXCEPT !.todo = Tail(@)])
                     ELSE [st EXCEPT !.pc = "read", !.loc = dir[p]])

\* Mutant of ReadRow: a stale location means the key is absent.
ReadRowOnce(r) ==
    LET st == rd[r]
        p == Head(st.todo)
        row == At(Table, st.loc) IN
    /\ st.pc = "read" /\ FreeShard(st.loc.shard)
    /\ ReaderStep(r,
        IF row # None /\ row.pk = p THEN Onward([st EXCEPT !.got[p] = @ + 1, !.todo = Tail(@)])
        ELSE Onward([st EXCEPT !.todo = Tail(@),
                               !.excused = IF st.relocs = pkRetryBudget THEN @ \cup {p} ELSE @]))

\* Mutant of ReadRow: any live row at the location will do.
ReadRowUnchecked(r) ==
    LET st == rd[r]
        row == At(Table, st.loc) IN
    /\ st.pc = "read" /\ FreeShard(st.loc.shard)
    /\ ReaderStep(r,
        IF row # None THEN Onward([st EXCEPT !.got[row.pk] = @ + 1, !.todo = Tail(@)])
        ELSE [st EXCEPT !.pc = "lookup", !.loc = None])

\* A key whose location was stale on every try is reported absent.
ReadRow(r) ==
    LET st == rd[r]
        p == Head(st.todo)
        row == At(Table, st.loc) IN
    /\ st.pc = "read" /\ FreeShard(st.loc.shard)
    /\ ReaderStep(r,
        CASE row # None /\ row.pk = p ->
                Onward([st EXCEPT !.got[p] = @ + 1, !.todo = Tail(@)])
          [] (row = None \/ row.pk # p) /\ st.retry + 1 < pkRetryBudget ->
                [st EXCEPT !.pc = "lookup", !.loc = None, !.retry = @ + 1]
          [] OTHER ->
                Onward([st EXCEPT !.todo = Tail(@),
                                  !.excused = IF st.relocs = pkRetryBudget THEN @ \cup {p} ELSE @]))

Return(r) == rd[r].pc = "done" /\ ReaderStep(r, NoRead)

Reader(r) ==
    \/ \E p \in PKs : getByPKPartitioned(r, p)
    \/ scanShardsBatched(r) \/ scanAll(r)
    \/ Pass(r) \/ Snap(r) \/ Lookup(r) \/ ReadRow(r) \/ Return(r)

----------------------------------------------------------------------------
(* The sweeper: one shard after the other, on every tick.                  *)

NextShard(s) == IF s = NShards THEN 1 ELSE s + 1

\* Mutant of PreCheck: the sweep ends at the first shard that is not dense.
PreCheckStops ==
    /\ sw.pc = "check" /\ FreeShard(sw.shard)
    /\ sw' = IF shardDense(Table, sw.shard) THEN [sw EXCEPT !.pc = "dense"]
             ELSE [sw EXCEPT !.shard = 1]
    /\ UNCHANGED <<lockVars, wr>> /\ NoStore

\* The check under the shard's read lock; only a dense shard is worth more.
PreCheck ==
    /\ sw.pc = "check" /\ FreeShard(sw.shard)
    /\ sw' = IF shardDense(Table, sw.shard) THEN [sw EXCEPT !.pc = "dense"]
             ELSE [sw EXCEPT !.shard = NextShard(@)]
    /\ UNCHANGED <<lockVars, wr>> /\ NoStore

\* Calling Lock queues the sweeper ahead of every later reader of the directory.
QueueForDir ==
    /\ sw.pc = "dense"
    /\ sw' = [sw EXCEPT !.pc = "queued"]
    /\ UNCHANGED <<lockVars, wr>> /\ NoStore

SweepLockDir ==
    /\ sw.pc = "queued" /\ FreeDir
    /\ dirLock' = [dirLock EXCEPT !.w = Sweeper]
    /\ sw' = [sw EXCEPT !.pc = "locked"]
    /\ UNCHANGED <<shardLock, wr>> /\ NoStore

\* Density is checked again: the shard may have changed since.
compactShardIfDense ==
    /\ sw.pc = "locked" /\ FreeShard(sw.shard)
    /\ Store(IF shardDense(Table, sw.shard) THEN compactShardLocked(Table, sw.shard) ELSE Table)
    /\ Release(Sweeper)
    /\ sw' = [pc |-> "check", shard |-> NextShard(sw.shard)]
    /\ UNCHANGED wr

Sweep == PreCheck \/ QueueForDir \/ SweepLockDir \/ compactShardIfDense

----------------------------------------------------------------------------
Init ==
    /\ rows = [s \in Shard |-> <<>>]
    /\ live = [s \in Shard |-> 0]
    /\ tails = [q \in Parts |-> <<>>]
    /\ tailsDead = [q \in Parts |-> 0]
    /\ dir = [p \in PKs |-> None]
    /\ dirLock = [w |-> None, r |-> {}]
    /\ shardLock = [s \in Shard |-> None]
    /\ wr = [w \in Writers |-> Idle]
    /\ rd = [r \in Readers |-> NoRead]
    /\ sw = [pc |-> "check", shard |-> 1]

Next == (\E w \in Writers : Writer(w)) \/ (\E r \in Readers : Reader(r)) \/ Sweep

Spec == Init /\ [][Next]_vars

(* A goroutine that can run runs, and a goroutine that waits for a mutex   *)
(* gets it: sync.RWMutex makes later readers wait behind a waiting writer  *)
(* and hands a mutex over after a bounded wait.                            *)
Fairness ==
    /\ \A w \in Writers : SF_vars(LockShard(w) \/ Finish(w))
    /\ SF_vars(Sweep)

FairSpec == Spec /\ Fairness

----------------------------------------------------------------------------
(* Properties.                                                             *)

(* Type of the state. *)
TypeOK ==
    /\ rows \in [Shard -> Seq(Live \cup {None})]
    /\ live \in [Shard -> Nat]
    /\ tails \in [Parts -> Seq(Nat \ {0})]
    /\ tailsDead \in [Parts -> Nat]
    /\ dir \in [PKs -> Loc \cup {None}]
    /\ dirLock \in [w : Holders \cup {None}, r : SUBSET Holders]
    /\ shardLock \in [Shard -> Holders \cup {None}]
    /\ wr \in [Writers -> [kind : {"idle", "insert", "delete", "deleteWhere", "updateWhere", "update", "txn"},
                           pk : PKs \cup {None}, loc : Loc \cup {None}]]
    /\ sw \in [pc : {"check", "dense", "queued", "locked"}, shard : Shard]

(* The directory and the arenas agree: a key's location holds that key's   *)
(* row, and every live row is where the directory says                     *)
(* (partition_store.go: uniqueness and WHERE id=? go through it).          *)
DirectoryAgrees ==
    /\ \A p \in PKs : dir[p] # None => At(Table, dir[p]) # None /\ At(Table, dir[p]).pk = p
    /\ \A s \in Shard : \A i \in 1..Len(rows[s]) :
        rows[s][i] # None => /\ dir[rows[s][i].pk] = [shard |-> s, rowID |-> i]
                             /\ shardOf[rows[s][i].part] = s

(* A partition's list names every live row of it, once and in insert       *)
(* order, and tailsDead counts exactly the dead numbers still in it, so a  *)
(* prune is never missed nor made too early (tailsTombstone).              *)
TailsAreExact ==
    \A q \in Parts :
        LET s == shardOf[q] IN
        /\ \A i, j \in 1..Len(tails[q]) : i < j => tails[q][i] < tails[q][j]
        /\ \A i \in 1..Len(rows[s]) :
            rows[s][i] # None /\ rows[s][i].part = q => i \in ToSet(tails[q])
        /\ \A i \in ToSet(tails[q]) :
            i <= Len(rows[s]) /\ (rows[s][i] # None => rows[s][i].part = q)
        /\ tailsDead[q] = Cardinality({i \in ToSet(tails[q]) : rows[s][i] = None})

(* shard.live is the number of live rows, which the density test of the    *)
(* sweeper and the stats read instead of walking the arena.                *)
LiveIsExact ==
    \A s \in Shard : live[s] = Cardinality({i \in 1..Len(rows[s]) : rows[s][i] # None})

(* Who changes the table has the directory for itself; an UPDATE by        *)
(* primary key shares it, and with it keeps the location it found.         *)
LocksAgree ==
    /\ dirLock.w # None => dirLock.r = {}
    /\ \A w \in Writers :
        /\ wr[w].kind \in {"insert", "delete", "deleteWhere", "txn"} => dirLock.w = w
        /\ wr[w].kind = "update" => /\ w \in dirLock.r
                                    /\ wr[w].pk # None /\ wr[w].loc # None
                                    /\ wr[w].loc = dir[wr[w].pk]
    /\ sw.pc = "locked" => dirLock.w = Sweeper

(* The five pieces of a partitioned table (arena, directory, partition     *)
(* lists, dead counts, live count) agree after every insert, delete, move, *)
(* prune and compaction, although each rewrites a part of them.            *)
PartitionInv ==
    /\ TypeOK
    /\ DirectoryAgrees
    /\ TailsAreExact
    /\ LiveIsExact
    /\ LocksAgree

(* An UPDATE by primary key that waits for its shard under the directory's *)
(* read lock finds its row there: neither a compaction nor a move slips in *)
(* between (updateByPKJournaledPartitioned would report 0 rows).           *)
UpdateFindsItsRow ==
    \A w \in Writers : wr[w].kind = "update" =>
        At(Table, wr[w].loc) # None /\ At(Table, wr[w].loc).pk = wr[w].pk

(* A point read reports a key absent only if the table lacked it at some   *)
(* moment of the read: a compaction, or a transaction that moves the row   *)
(* to another partition, does not make it disappear, except when its       *)
(* location changed under every one of the pkRetryBudget tries.            *)
PointReadIsTruthful ==
    \A r \in Readers :
        rd[r].pc = "done" /\ rd[r].job = "point" /\ rd[r].got[rd[r].key] = 0 =>
            rd[r].key \in rd[r].excused

(* A scan of the whole table, by shard or in batches of keys, sees every   *)
(* row that stayed where it was exactly once, whatever is renumbered       *)
(* meanwhile (scanShardsBatched: a renumber can neither skip a live row    *)
(* nor yield one twice).                                                   *)
ScanSeesEachRowOnce ==
    \A r \in Readers :
        rd[r].pc = "done" /\ rd[r].job \in {"batched", "all"} =>
            \A p \in PKs \ rd[r].excused :
                rd[r].got[p] = 1

(* Seen through scanPartition, the table is a list of keys per partition:  *)
(* tombstones, prunes and compactions are invisible, and transactions,     *)
(* DELETE WHERE and moves are atomic.                                      *)
Abs == INSTANCE PartitionMap WITH list <- [q \in Parts |-> scanPartition(Table, q)]
ImplementsMap == Abs!Spec

(* A shard that is more than half dead does not stay so: the sweeper gets  *)
(* to it, whatever the writers do (compact.go).                            *)
DenseIsReclaimed == \A s \in Shard : shardDense(Table, s) ~> ~shardDense(Table, s)

=============================================================================
