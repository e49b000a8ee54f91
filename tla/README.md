# A TLA+ verification of hazedb

hazedb is an in-process, memory-resident SQL store for Go. Rows live in sharded
arenas in memory; a write-ahead log of small, born-sealed segment files makes
writes durable; a background loop drains those segments into a SQLite file, which
is the base the next boot loads. Secondary indexes are maintained asynchronously:
writers note the primary key in a dirty list, a merger reconciles, and readers
combine index hits with the unmerged keys.

The project models the parts where goroutines, crashes and I/O errors meet, and the
algorithms that must give one answer along many paths (access paths, joins, hashing,
key encoding). TLC checks them on small instances. The main results about the durability layer,
the row store and its byte budget, the secondary indexes, the partitioned store, the registry and
the key generator are proved with TLAPS for every number of records, rows, keys, shards, callers and faults.

## 1. Inventory

| component | source | state | operations | interacts with |
|---|---|---|---|---|
| write-ahead log | `wal.go`, `wal_segment.go` | pending buffer, last segment number, sticky error, segment files | `openWAL`, `writeRecord`, `flush`, `close`, `replayFrom`, `removeDrainedSegments` | written by every mutating verb under the shard lock; flusher goroutine; drain reads its files |
| mirror and drain | `drain.go` | SQLite rows, durable cursor, in-memory cursor and table registry | `activateMirror`, `drainOnce`, `drainSegment`, `applyRecord`, `register`, `dropTable` | reads segments, deletes them; started by Open, stopped by Close |
| open, close, recovery | `db.go`, `recover_sqlite.go`, `db_replay.go` | `closed` flag, the loops | `Open`, `Close`, `FlushWAL`, `recoverFromSQLite`, `applyReplayRecord` | orders all of the above |
| row store | `store*.go` | shards: arena, pk map, dirty lists, byte tally | insert, update, delete by PK, by candidates, by predicate over all shards | WAL (journal callback), budget, indexes |
| partitioned store, compaction | `partition_store.go`, `store_compact.go`, `compact.go` | PK directory, partition tails, tombstones | partition routed writes, point reads with bounded retry, sweep | lock order directory, shard, WAL |
| PK map | `pkmap.go` | open-addressed table | get, reserve/commit, put, del, grow | one per shard |
| secondary indexes | `secindex.go`, `composite_key.go` | forward and reverse map, sorted view, dirty counters | `apply`, `lookup`, `lookupOne`, `prefixLookup`, `mergeIndexes`, `rebuildIndexes` | writers, merger goroutine, indexed reads |
| indexed reads, joins | `exec_select.go`, `join.go`, `query_stream.go` | none | candidate sets, ordered walks, probes | index, overlay, row store |
| transactions | `txn.go`, `db_exec.go`, `exec_write.go` | staged mutations, overlay | stage, commit | catalog, shard locks, budget, WAL |
| byte budget | `budget.go`, `stats.go` | one atomic total | reserve, release, adjust | inserts, commits, deletes |
| catalog and DDL | `catalog.go`, `schema.go`, `stmt.go` | immutable snapshot behind a pointer | create, drop, plan binding | WAL, plans, drain |
| codec | `mutation_codec.go`, `value.go`, `uuid.go` | none | encode/decode of mutations and envelopes | WAL, replay, drain |
| SQL front end, evaluation | `lexer.go`, `parser.go`, `ast.go`, `plan.go`, `eval.go`, `filter.go` | statement cache | parse, plan, evaluate | executors |
| query API and wire format | `db_query.go`, `query_stream.go`, `wire.go` | none | dispatch, JSON | executors |
| key generator | `uuid.go` | one atomic word of milliseconds and a counter | `NewUUIDv7` | every insert without a key |
| registry, Caddy module | `db_registry.go`, `caddymodule/` | named slots, each handler's database | register, look up, conditional deregister; provision, clean up | Caddy's reloads, consumers in the host process |
| PHP extension, spikes, options, events | `addons/`, `spike/`, `options.go`, `events.go` | none | - | - |

What makes each of them correct:

* **log, mirror, recovery**: a record whose seal returned nil survives any crash;
  the mirror is a prefix of the log; segment numbers are never reused below the
  cursor; memory is what the log says; Close loses nothing acknowledged.
* **secondary indexes**: a key leaves the dirty lists only when the index agrees
  with its row; the lock-free counter is exact; a query sees what a scan would.
* **row store, partitioned store**: PK unique, directory and arena agree, compaction
  moves no row out of a reader's sight, tallies equal the rows they count.
* **transactions, budget**: all or nothing in memory and in the log, no deadlock over
  shard locks, the budget equals the live bytes and a failed commit moves nothing.
* **catalog**: whatever was journaled can be replayed by the next boot.
* **PK map**: a key is found under its last row number, and every probe ends.
* **queries, joins, writes by WHERE**: whatever path the planner picks, and however far
  the index lags, the answer is that of a plain scan; every executor gives the same.
* **composite keys**: bytes sort like the tuples they encode.
* **registry**: one slot for a name, never a closed database in it, none left open behind.
* **key generator**: keys increase whatever the clock does.

Hard behaviours: interleaving of writers, flusher, drain, merger and Close; crashes
and power loss between any two file operations; I/O errors part way through a flush
or a transaction; stale directory listings; counters read without a lock; values
taken before and used after a concurrent merge or compaction; indexes that lag behind the
rows a statement reads; reloads that overlap; clocks that jump. `PROJECT.json` lists them with
their lines.

## 2. Modules

| module | models |
|---|---|
| `Wal` | the log handle and the segment directory; `flushLocked` in three steps |
| `Mirror` | EXTENDS `Wal`: the drain loop, its transaction and the cursor |
| `Durability` | EXTENDS `Mirror`: writers, flusher, drain loop, Close, Open, crashes, damage; all durability properties and the inductive invariant |
| `DurableLog` | the abstract specification: a log that may lose an unsafe suffix |
| `DurabilityProofs` | TLAPS proofs about `Durability` |
| `MCDurability` | instances for TLC |
| `SecIndex` | one table, one secondary index: writers, merger, readers |
| `SecIndexProofs` | TLAPS proofs about `SecIndex` |
| `MCSecIndex` | instances for TLC |
| `Catalog` | CREATE, DROP, bound plans, the drain's table registry, seeding, recovery and replay of tables |
| `MCCatalog` | instances for TLC |
| `Store` | the row store of one hash-sharded table: shard locks, staged statements, byte budget, journal, apply, and replay of rows |
| `StoreProofs` | TLAPS proofs about `Store` |
| `MCStore` | instances for TLC |
| `Partition` | a partitioned table: arenas, directory, partition lists, writers, readers, the sweeper, and their locks |
| `PartitionMap` | the abstract specification: a list of keys for each partition |
| `PartitionProofs` | TLAPS proofs about `Partition` |
| `MCPartition` | instances for TLC |
| `PkMap` | the open-addressed map from primary key to row number |
| `MCPkMap` | instances for TLC |
| `CompositeKey` | the byte encoding of index keys and the range of a prefix |
| `Query` | EXTENDS `CompositeKey`: tables with lagging indexes, the planner's choice, the executors of SELECT, QueryRow, COUNT, UPDATE and DELETE |
| `Join` | EXTENDS `Query`: driver choice, driver walks, probes, padding, order and window |
| `MCQuery` | tables, statements and joins for TLC |
| `Registry` | named slots, the handlers' start, reload, roll back and stop |
| `NameProofs` | TLAPS proofs about what a name stands for: `Registry` and `Catalog` |
| `UuidClock` | the key generator's compare-and-swap loop |
| `KeyProofs` | TLAPS proofs about keys: `PkMap`, `UuidClock` and `CompositeKey` |
| `MCProcess` | EXTENDS `Registry` and `UuidClock`: what all databases of a process share, for TLC |
| `Filter` | the elements of a list that pass a test (`Partition`, `PartitionMap`) |
| `Sums` | the sum of a function over a finite set (`Store`, `SecIndexProofs`) |
| `FoldFacts` | lemmas: induction over the numbers and the subsets of a finite set, and the sums of `Sums` |
| `LeftFold` | lemmas about a left fold, for any step operator; instantiated once for each fold a proof needs |

A definition whose comment begins with "Mutant" is a plausible bug in the definition it names; the specification does not use it.
The runs in which it takes that definition's place show that the property can fail.

### 2.1 Durability: correspondence

* A record is its **log sequence number**, the order in which `writeRecord` appended
  it under `w.mu`. Sets of numbers stand for ordered bytes (buffer, segment) and for
  the rows that result from applying them (memory, mirror). The data in a record is
  not told apart by any property here: what the properties compare is which records
  took effect.
* `buf`, `seg`, `err` are the fields of `wal`; `fpc # "idle"` is `w.mu` held by a
  flush, at the temp file or after the rename; `fby` says who gets its result.
* `visible` is what the directory lists; `synced` the entries a power loss certainly
  leaves. After a power loss the un-fsynced renames survive as a prefix in the order
  they were made (a journaling file system), and a removal that was not fsynced may be undone.
  A process crash leaves `visible` as it is.
* `content[n]` is the readable prefix of segment n. Bit rot shortens it: `scanRecords`
  stops at the first bad envelope, and both replay and drain go on with the next
  segment. A version or decode error, which is fatal, is a `DrainFailed`/`OpenFailed`.
* `base`, `cursor` are the committed SQLite state; SQLite is external, taken to be
  atomic and durable at commit (the companion is opened with `synchronous=FULL`).
* `life` walks through Open (`activate`, `reclaim`), `up`, and Close (`finalFlush`,
  `finalDrain`, `draining`, `walClose`, `closed`). A crash is possible in each.
* Writers: `Enter` is the verb's closed check, `Journal` is `writeRecord`, `JournalAndFlush` is `writeRecord`
  past the size trigger, which flushes inline; `Apply` is the change of memory after it.
  An update by PK changes its row first and reverts it on failure, but under the shard
  lock, so that no one can see the difference.
* `hist` is a history variable: the log memory stands for. `rejected`, `sealed`,
  `rotted`, `lost`, `lostRecs` are histories too; no action reads them.

### 2.2 SecIndex: correspondence

* A row is its indexed cell. `entries` is what a lookup sees: hash buckets, or the
  sorted view of an ordered index, as pairs of key and PK; `rev` is the reverse map.
* `Put` is an insert or an update of the indexed column, `Delete` a delete; both end
  in `markDirtyLocked`/`markDelDirtyLocked`. The append and the atomic counter are
  separate steps because readers load the counter without the lock; `lock[s]` is the
  writer between the two.
* The merge takes a step for each lock it takes: snapshot, project, apply, fold,
  drop, uncount, shard by shard.
* A reader is a `select` (index, overlay, then fetch with the full WHERE), an `exact`
  plan (the point-read fast path, and no WHERE check when the overlay is empty) or a
  `join` probe (overlay before index). `must`, `touched`, `dropped` are histories.

### 2.3 Catalog: correspondence

* `cat` is the snapshot behind `DB.cat`: `byID`, `byName` and, for each number, the rows of
  its table, as the set of mutations applied to it. Numbers are tableIDs plus one.
* `CreateJournal` and `DropJournal` are the verbs up to `writeRecord`, `Publish` the swap of
  the pointer; `ddl` is `ddlMu` held in between. How a record becomes durable is the subject
  of `Durability`: here journaling is one durable step, which is sound because a crash
  loses a suffix of the log only.
* `Bind` is the plan lookup of a write (`exec`) or of a transaction's first statement (`tx`),
  `CheckConflict` the pointer comparison in `Tx.commit`, `Write` the journaling and applying.
* `sq` is the committed SQLite state: `_hz_tables` and the user tables, which go by name
  there. `tables` is `sqliteMirror.tables`, changed in place by a transaction in progress;
  `DrainRollback` restores the one and not the other.
* `Open` seeds, recovers and replays in one step: nothing else runs then, and a crash in the
  middle leaves what the next Open finds anyway (seeding is idempotent).
* `truth` is a history variable, what each name holds according to the log (followed as long as none of the following has happened); `straggled`,
  `forgot`, `doubled` record that one of the three causes of a failing Open has happened, and `Sound` that none has.

### 2.4 Store: correspondence

* A row is its **size** (`rowCost`), 0 if there is none; a mutation sets the size of a primary key. That is
  what admission, the overlay, replay and the tallies tell apart. `shardOf` is the hash, as a constant.
* A call is a PK-pinned statement (`one`), a transaction or multi-row INSERT (`txn`), or an UPDATE or DELETE by
  predicate (`match`) over candidates of an index or all keys. What the predicate and the new values are is left open: a `match`
  is any list of rows in any order, each with its own new size, and the shards locked, one or all (a row that is absent
  when it resolves is passed over). `Begin` is the call's binding (for a transaction,
  the entry of `commit`); the race with a DROP at that point is in `Catalog`.
* `Lock` takes one shard at a time, in ascending order; all are released in one step, as the order of
  release matters to nobody. `Resolve` walks the statements against the overlay with the locks held.
* `Reserve` and `BackOut` are the two atomic additions of `reserve`: others see the counter in between. `Release`
  is the transaction's early return of freed bytes, before its rows go; outside a transaction `Apply` moves
  the counter row by row.
* `Journal` is `writeRecord` as far as its caller can tell; `JournalFails` is its sticky error. An UPDATE by PK
  that changes its row in place and reverts it on failure does so under its lock.
* `Reopen(k)` is a boot after the first k records were drained: the mirror's rows are inserted, the others replayed.
* `base` is the rows at boot. `grew`, `peaked`, `wrapped` are histories of the three causes of a failing boot.
  `grew` is set by any UPDATE outside a transaction that grows a row (`GrowsUngated`), even if it shrinks others by more: it moves the counter row by row.

### 2.5 Partition: correspondence

* A row is its key and its partition. `rows[s]` is the arena of a shard with its tombstones, `tails` and `tailsDead`
  the partition's list and dead count, `dir` the PK directory, `live` the shard's counter.
* A statement takes the directory, then its shards, then changes the table. Taking the last lock, the change and the
  release are one step, since no one can see the table in between; every wait is a state of its own.
* Writers insert, update by PK, delete by PK and by partition, and commit transactions that move a row to another
  partition. An update by PK looks its location up under the directory's read lock and keeps that lock while it waits for the shard.
* The sweeper checks a shard under its read lock, lets go, queues for the directory and checks again. `queued`
  is Go's RWMutex: a waiting writer keeps later readers out.
* A reader is a point read (location, shard, retry up to `pkRetryBudget`), a scan of the whole table by shard, or a
  batched one that snapshots keys and resolves them later. `got` and `excused` are histories: what it returned how often, and
  which keys the table lacked, or moved, at some moment of the read.

### 2.6 PkMap: correspondence

* `hash` is a variable that no step changes: Init takes every function from keys to `0..HashRange-1`, which stands for 2^64. The
  home slot is its leading bits, as in the code.
* `Insert` is `reserve` and `commit`, with the journal failing or not in between: a failed one may still have grown the map. `Put`,
  `Delete` (backward shift) and `Compact` (a map rebuilt with a size hint) are the others. `rowOf` is the history to compare with.
* The loops are folds of one step: `Moved` reinserts a slot in `grow`, `Walked` is a turn of the walk of `delAt`, `Entered` a row of `Compact`.
  `Sizes` are the slot counts a map can have.

### 2.7 Query, Join, CompositeKey: correspondence

* A table is its live rows, its rows as of the last merge and the dirty lists. The actions insert, update, delete and merge.
  A statement runs between two of them; how one overlaps with a merge is the subject of `SecIndex`.
* `Plans` is the planner (`plan.go`): the conjuncts, the point read, the index equalities, the composite prefix, the ordered walk,
  the probe by key, exactness. `execSelect`, `streamSelect`, `queryRow`, `countRows` and `WriteTargets` are the executors, path by
  path; an answer is a sequence of primary keys. Compiled filters and the interpreter are told apart.
* Values are integers and NULL; evaluation errors, arithmetic and comparisons across kinds are left out.
* `NullPin` names the one exception to the reference: `col = NULL` on an indexed column (section 5).
* The properties of one table are asked while the other is empty (`Alone`). Those of `topN` and of the encoding do not depend on the
  state and are asked once.
* `CompositeKey` has bytes `0..Top`, signed integers of `Width` bytes, UUIDs of `IdWidth`, strings up to `MaxLen` and indexes up to `MaxCols`
  columns. The encoding is a left fold that appends to a buffer, as in the code: over the bytes of a string, over the cells of a tuple.

### 2.8 Registry, UuidClock: correspondence

* A slot goes by the process that made it, a database by its handler. The steps of `dbSlotForName` (read lock, write lock with a second
  look), `Provision` (defaults, open, init script, register) and `Cleanup` are separate.
* Caddy is external: it loads one configuration at a time, swaps, and cleans up the old one; or rolls the new one back; or stops.
  `rolledBack` is a history of the names whose load failed after its registration.
* `uuidStamp` is the word `ms * Field + ctr`, with `CMax` for the counter's limit and room above it in the field, as in the code.
  Each goroutine reads a clock that may say anything, loads the word and tries the compare-and-swap.
* The two share no variable, so `MCProcess` explores each while the other rests: every state of the process is a pair of theirs.

## 3. Runs

| run | bounds | shows |
|---|---|---|
| `durability` | 2 writers, 2 records, 2 segments, 1 fault, 1 damaged segment, any number of crashes | the inductive invariant `IInv` of the proofs, the safety properties under lost or rotted segments, refinement of `DurableLog`, the cursor's action property; appended is sealed, sealed is drained, Close returns |
| `secindex_merge` | 2 PKs on 2 shards, 2 keys, 3 writes, hash index | merge against writers (`IndexInv`); every write is reconciled |
| `secindex_reads` | the same, 2 writes, 1 query, ordered index | the same with the folded view; queries against writers, merge and fold |
| `catalog` | 2 names, one of them in the bootstrap schema, 3 numbers, 1 writer, 4 records, 1 SQLite fault | a running database shows what its log stands for and the mirror will (`CatalogInv`, with the invariant of the proofs); Open fails only for one of three causes; the mirror catches up with every log |
| `store` | 3 PKs on 2 shards, sizes 1 and 2, cap 3, a table that is empty or full at boot, 2 callers, 2 calls, 2 statements a transaction | memory is the serial run of the log (`StoreInv`); the budget is exact and holds the cap; the log reopens but for three causes; no circular wait |
| `store_wrap` | 1 call, no cap, a count modulo 2 | violation: an envelope too large for its count |
| `partition` | 2 PKs, 3 partitions on 2 shards, 2 writers, the sweeper, arenas of 3 slots, thresholds of 2 | the five pieces agree (`PartitionInv`); an update finds its row; refinement of `PartitionMap`; dense shards are reclaimed; no deadlock |
| `partition_reads` | 2 PKs, 2 partitions, 1 writer, 1 reader, the sweeper, 2 tries | point reads are truthful; a scan sees every row that stays once |
| `pkmap` | 4 keys, every hash below 8, tables of 4 and 8 slots | lookups are right; no holes, bounded load, growth only shortens chains (`MapInv`) |
| `query` | tables of 3 and 2 keys, values 1, 2 and NULL, at most 3 rows in use, 2 dirty entries (1 when both tables have rows), 14 WHEREs, each with no ORDER BY and with two windows of one, some with LIMIT 0 and OFFSET; 14 joins | every path answers like a scan; executors agree; writes hit their WHERE; joins fail only for a cause; the heap and the key encoding are right |
| `join_overlay` | the same tables, one join | violation: a join returns a row that its WHERE excludes |
| `process` | 4 handlers under 2 names, 3 consumers; 3 goroutines, 2 counters a millisecond, 3 milliseconds, 4 keys | `RegistryInv`, a consumer reaches the serving database, `ClockInv` |

Properties that describe one structure are conjoined into one invariant of named parts (`IInv`, `IndexInv`, `CatalogInv`, `StoreInv`,
`PartitionInv`, `MapInv`, `RegistryInv`, `ClockInv`, which include the type invariant, and `ExecutorsAgree`); the parts carry the comments.
`Query` has no type invariant of its own: its actions choose from the typed sets.

Why the bounds suffice. In `durability`, two records in two segments give a drained segment next to one being sealed, and a drain that runs while a
flush does; the guard `seg < MaxSeg` never binds because MaxSeg is MaxLsn and every segment
holds a record. The liveness properties need the whole behaviour graph, which sets the size; safety is proved for all sizes. Crashes and restarts are not bounded.
In `SecIndex` two keys on two
shards give a stale entry next to a fresh one and an overlay walk cut by a write; a merge
may run any number of times, writes and queries are bounded in their guards. In `Catalog` four records are a
table created (or there from the start), written, dropped and created again, with segment boundaries and crashes anywhere. In `Store`
every property relates at most two calls, and two statements are enough for one to depend on the other through the
overlay. Three keys, two of them on one shard, are what an UPDATE that shrinks one row and grows another needs to let in an INSERT
on the other shard half-way: counting that UPDATE by its net growth refutes `CapHolds` and `ReopenFailsForACause` on this instance. The table
is empty at boot or the first shard's rows fill the cap (`FewBoots` in `MCStore`; the proofs start from every filling the cap allows). `CountMod` stands for 2^16: `store` keeps it above
any statement of the instance, `store_wrap` below. In `Partition` two of three partitions share a shard, so that a row can move
within a shard and across; an arena of three slots reaches both thresholds. Statements are not bounded. In `PkMap` four keys with every
hash give chains that wrap around the end of four slots, and one growth. In `Query` three rows are what a window in the middle of an order needs, and two dirty
entries are a row that moved and one that went. The encoding is checked there with three byte values (zero, one between, the largest), integers of
two bytes, UUIDs of one, strings up to two and two columns, and proved for all sizes. In `Registry` four handlers are two reloads of each name, or a
rolled-back load between two good ones; in `UuidClock` four keys exhaust two milliseconds.

Deadlock checking is off in the SecIndex, Store and Process runs because the bounded callers stop
(the merger goes on only while there is a ticker); `NoLockCycle` is the deadlock property of `Store`. In `partition` and `partition_reads`
it is on and is the lock order's property. In the durability and catalog runs it is on, but cannot
fire as a crash is always possible: Close's progress is checked as liveness instead. The data modules (`pkmap`, `query`) have no waiting.

**Fairness.** Go schedules every runnable goroutine and tickers fire again, so flusher,
drain loop, merger and the steps of a call in progress are weakly fair. Nothing obliges a
caller to write or to Close, and no fault, crash or damage is fair. The merge loop's
size trigger only makes it run earlier, so the ticker is what is assumed. In `Partition` a waiting goroutine gets its
lock if the lock is free again and again (strong fairness): Go's mutexes hand over to a waiter that has waited
long enough, and an RWMutex makes later readers wait behind a writer. The sweeper is one goroutine, so one condition on its steps is enough.

## 4. Proofs

Every theorem holds for all values of the constants that satisfy the named ASSUMEs of the modules, which TLC evaluates on each run
and the code justifies: natural bounds, role names that are apart, a routing function from keys to shards, finitely many keys and callers.

| module | theorems |
|---|---|
| `DurabilityProofs` | `IInvAlways`, `TypeCorrect`, `SealedIsSafe`, `NumbersAreFresh`, `TailIsContiguous`, `MirrorPrefix`, `MemoryFollowsLog`, `DiskFollowsLog`, `LogOnDisk`, `CloseDurable`; `CursorMonotone` (action property); `DurabilityRefines` (refinement of `DurableLog`) |
| `StoreProofs` | `MemoryIsTheJournal`, `CounterIsExact`, `CapIsKept`, `CallsNeverDeadlock`, `ReopenIsSafe` |
| `SecIndexProofs` | `IndexIsSound`, `QuietQueriesAreScans`, `JoinProbeIsComplete` |
| `PartitionProofs` | `TableStaysSound`, `UpdateNeverMisses`; `TableIsTheMap` (refinement of `PartitionMap`); `ReadersKeepTrack`, `PointReadsAreTruthful`, `ScansSeeEachRowOnce` |
| `KeyProofs` | `MapKeepsItsRows`, `LookupFindsTheRows`, `TableKeepsItsShape`; `ClockIsSound`; `KeysStandForTuples` |
| `NameProofs` | `CatalogStaysSound`, `MemoryFollowsTheLog`, `OpenNeedsACause`; `RegistryIsSound`, `ConsumersReachServing` |

Each argument is one inductive invariant, preserved by a lemma per action or per kind of step; the theorems combine the lemmas.

* **Durability**: `IInv`, which the run `durability` checks itself. Sealed records are recoverable only if the drain
  cannot pass a segment it has not applied (`NumberInv` relates `wal.seg`, the cursor and
  its copy in memory at each point of the drain), if no durable entry disappears but by a drain
  (`DirInv`), and if the numbering leaves no hole (`UndrainedContiguous`). The mirror is a prefix only if
  segments hold the log in order (`SegmentsOrdered`, `TxOrdered`) and everything in
  the log has a place (`LogPlaced`, `RenamedPlaced`, `LogNumbered`). `VolatileInv` says what a
  restart starts from.
* **Store**: `CoreInv` says of every call what it holds locked (`Climbs`) and that its resolved work still meets the rows (`WorkFit`),
  and that memory is the fold of the journaled records with the pending one whole or absent (`MemoryFollowsLog`). The lock order alone gives
  `NoLockCycle`: the caller with the highest lock can go on. The counter needs three accounts at once (`Books`): the tallies and what is reserved,
  the rows it has been moved for, the journaled rows; a step that leaves one of them alone moves another, and the cap follows from the third.
  `ReplayInv` follows the records as `Open` would apply them, from any point where the mirror may have stopped.
* **SecIndex**: `MergeInv` says, for each point of a merge, which part of each dirty list the merge has taken, what it has read of it and
  what the lists still cover: a key the merge read before a write was listed after its snapshot by that write. `ReaderInv` says the same of a query:
  what the index part it has read lacks is in the overlay it will read, unless the key was written or dropped since.
* **Partition**: the store methods are functions of the table (`addRow`, `removeRow`, `compactShardLocked`), so each is shown to map a sound
  table to a sound one, for arenas and lists of any length and any threshold; a statement is a fold of them. The invariant is `PartitionInv`
  itself: `LocksAgree` is the part that makes it inductive and gives `UpdateFindsItsRow`.
  For `TableIsTheMap`, what a partition shows is the live rows of its arena in slot order; each store method changes that list as one operation of
  `PartitionMap` does, and a compaction not at all, so that a statement is one step of the map and everything else a stutter.
  The readers need a second invariant, `ReadersInv`: every failed try of a point read was a change of its key's location, so that a read that
  gives up has seen more of them than the budget and is excused (`Tries`); and a scan has returned, once, exactly the unexcused
  keys of the shards behind it and, of the shard it is in, those no longer to resolve (`Counts`).
* **PkMap**: `MapSound`. Every table has an empty slot, so that slots can be counted from behind it: in that numbering no chain wraps, and a key
  lies between its home and the end of its run of used slots. `delAt` is a walk with a moving gap: at each step the table without the gap has
  no hole but the gap, and a row moved back into the gap stays behind its home. Growing is a fold of inserts into an empty table, and the live entries are in bijection with
  the keys, which bounds the load. That a growth lengthens no run is a pigeonhole argument (`RunsWereThere`): the keys
  in the first `e + 1` slots behind an empty slot of the doubled table had their old homes among the first `e + 1` slots behind its half;
  were slot `e` of these empty, no chain would have passed it, and `e + 1` keys would have shared `e` slots. The assumptions are that the hash range is a power of two and the smallest size
  one of its divisors, 2 or more.
* **Catalog**: `MirrorMeetsMemory`, a part of `CatalogInv` that the run checks too. `Effect` says what a record does to SQLite, and `Drained` folds it over the undrained
  log: where SQLite will be. The invariant is that no record of the log fails there, that `Drained` holds what the log stands for, and that the catalog, with the
  CREATE or DROP in progress (`Announced`), has the same tables, numbers and rows. So a journaled record moves `Drained` and the catalog alike; the drain,
  which on such a log has no choice (`RunsExact`), moves SQLite towards a `Drained` that stays; and replaying the log over what SQLite
  loads gives the catalog that matches `Drained` (`ReplayFollows`). Seeding plants bootstrap tables ahead of the log, which commutes with records that do not name them
  (`PlantedAhead`): the others are `Doubled`. All of it speaks of `Sound` histories only, as does `truth`; the three causes that end them are findings (section 5).
* **Registry**: the parts of `RegistryInv` that are inductive (`LifeCycle`, `OneAtWork`, `CellsFollowHandlers`) determine what a slot holds at each
  stage of a load; the other two follow.
* **UuidClock**: the word is the last key claimed (`StampIsLast`), and its lead over the clock is counted by the exhausted milliseconds (`DriftIsCounted`).
* **CompositeKey**: no state, so the theorem is a plain fact, `KeysSortLikeTuples`, for any number of values in a byte, any widths, lengths and columns.
  The run `query` evaluates it for its constants where the tables are empty (`KeysAreTuples`). It rests on one relation:
  two byte strings part (`Parts`) if the one is lower where they first differ, before either ends. Parting survives whatever is put before or behind both, so it
  is enough that the codes of two cells part as the cells are ordered (`CellsPart`): integers at the first of their bytes where the quotients by the
  powers of the base differ, strings at the first escape that differs or at the terminator, which is below any escape. A key therefore begins with
  a searched prefix or parts from it, and of such keys both searches find the first kind (`SearchesFindThePrefix`).

The provers have no induction over data. `FoldFacts` derives it in set form (a set of numbers, or of subsets of a finite set, that is closed under one
step is everything), and from it the existence of the functions that the recursive definitions of sums and folds choose. `LeftFold` does so
for a left fold with the step operator as a constant; a proof module instantiates it for each fold of its model, which gives the lemmas
on prefixes and concatenations of records. `Partition` filters lists with `Kept`, which picks positions in ascending order, because
what `SelectSeq` computes is out of the provers' reach.

Only model-checked: the liveness properties (fairness is out of the prover's reach); what the recursive algorithms of
`Query` and `Join` compute.

## 5. Findings

Shown by a run that TLC refutes:

1. **A statement over 65536 rows or more writes a record no boot accepts** (`mutation_codec.go:118`, run `store_wrap`). The
   count of the envelope is cut to 16 bits; only transactions have a limit.
2. **A join can return a row its WHERE excludes** (`join.go:1092`, run `join_overlay`). A driver read through a composite prefix drops the
   equalities the prefix stands for, and then also yields the dirty rows, which are in no prefix.

Each of the following is an excuse named in a property (a history variable or a predicate): without it TLC refutes the property.

* `rejected` in `MemoryIsLog`: a rejected write can come back. If the directory fsync fails after the rename, the
  caller gets an error and memory is unchanged, but the drain mirrors the segment and the next boot replays it (`wal.go:237`).
* `dropped` in `QuietReadIsScan`: a query can miss a row during a merge, because the index is read before the overlay (`exec_select.go:324`).
  The join probe reads them in the other order and misses nothing. Likewise the skipped WHERE check of an exact plan can return
  a row that no longer matches (`exec_select.go:450`).
* `straggled`, `forgot`, `doubled` in `OpenFailsForACause`: a transaction journals behind the DROP of its table, the check of the catalog pointer coming before the
  locks (`txn.go:220`), and a plain write has no check (`catalog.go:154`); a rolled back drain forgets a table (`drain.go:460`);
  a bootstrap name is registered twice (`drain.go:139`).
* `grew` in `CapHolds`, `grew` and `peaked` in `ReopenFailsForACause`: replay gates every INSERT, but live an UPDATE grows ungated and a transaction
  is gated by its net growth, so that a full store can refuse its own log (`store_write.go:102`). An UPDATE of several rows need not grow
  them on balance: it moves the counter row by row (`store_write.go:455`, `511`), and while a row has shrunk and another is
  still to grow, an INSERT elsewhere reserves the room. The rows then exceed MaxBytes, though budget.go:15 says the ceiling is
  never exceeded, and the next Open refuses that INSERT.
* `NullPin` in `SelectIsScan`: a scan finds NULL equal to NULL (`value.go:229`), an index lookup finds nothing (`secindex.go:24`).
* `StrayDirty` (finding 2), `PinnedTwice`, `NullSortKey`, `LookupLoses` in `JoinFailsForACause`: a prefix walk drops all equalities
  on a pinned column, `a = 1 AND a = 2` included; a driver walk over a nullable column loses rows with NULL there; a probe through a
  composite index with a nullable component loses merged rows.
* `rolledBack` in `SameInstance`: a Caddy load that fails after its registration empties the slot while the old handler still serves.

Seen while modelling, without a property that excuses it:

* DROP TABLE frees nothing under MaxBytes until a restart (`catalog.go:161`); `Store` keeps the bytes of a dropped table in its counter;
* a writer past the closed check appends after the final flush, so that a clean shutdown can leave a
  tail; nothing is lost (`drain.go:559`);
* table numbers are reused after a restart (`catalog.go:123`);
* a transaction that frees bytes returns them before its rows go: memory may hold more than MaxBytes for a moment,
  which is why `CapHolds` speaks of the journaled rows (`txn.go:355`);
* LIMIT plus OFFSET near the largest integer wraps, and a negative bound means none (`exec_select.go:1067`);
* sort and heap take NULL to be equal to everything, so that an order with NULLs is no order;
* `Cleanup` sets the handler's database to nil while requests may be in flight (they are answered with 500); and two WAL writers
  on one directory overlap during a reload, which `module.go:17` documents.

## 6. Plan

Every component with state that interleaves is modelled, and every safety property of one is proved. What remains:

* `Query`: `TopNKeepsBest`, whose heap is a fold of pushes, with the heap order over the slots as its invariant; then the executors one access path at a time,
  each against the scan of the rows it leaves out.

The suite stays at a dozen runs.

## 7. Not modelled

Lexer, parser, name resolution and parameter binding, JSON and result formatting, HTTP routes, the Caddyfile parser, options, logging, the cgo bridge
of the PHP extension and the prototypes: sequential code without state that interleaves, on strings. Of the queries, the read path pinned
to a partition, evaluation errors, arithmetic and comparisons across kinds. SQLite, the file system and Caddy are external, modelled by what the code relies on.
