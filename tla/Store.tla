------------------------------- MODULE Store -------------------------------
(***************************************************************************)
(* The row store of one hash-sharded table: writers that lock shards,      *)
(* resolve their statements, reserve bytes, journal one record, apply and  *)
(* unlock (store_write.go, txn.go, budget.go), and what a boot makes of    *)
(* the records (db_replay.go, recover_sqlite.go).                          *)
(*                                                                         *)
(* A row is its size, 0 if it is absent; a mutation sets the size of a     *)
(* primary key.  Secondary indexes, partitions and the catalog are other   *)
(* modules' subjects.                                                      *)
(***************************************************************************)
EXTENDS Integers, Sequences, FiniteSets, SequencesExt, FiniteSetsExt, Sums

CONSTANTS
    PK,         \* primary keys
    NShards,    \* number of shards
    shardOf,    \* table.shardIdxOf: the shard of each key
    Size,       \* row sizes (rowCost)
    MaxBytes,   \* Options.MaxBytes, 0 for no cap
    Callers,    \* goroutines that call Exec or Transaction
    Kinds,      \* the calls they make: "one", "txn", "match"
    MaxCalls,   \* bound on the calls ever made
    MaxStaged,  \* maxTxnMutations (1000)
    CountMod,   \* 2^16, the count of a TXN envelope is taken modulo this
    Free        \* a shard lock nobody holds

Shard == 1..NShards

ASSUME StoreBounds == NShards \in Nat /\ MaxBytes \in Nat /\ MaxCalls \in Nat
ASSUME Routing == shardOf \in [PK -> Shard]
ASSUME Sizes == Size \subseteq Nat \ {0}
ASSUME NobodyIsFree == Free \notin Callers
ASSUME FiniteSetting == IsFiniteSet(PK) /\ IsFiniteSet(Callers)
ASSUME EnvelopeFits == MaxStaged \in Nat /\ CountMod \in Nat \ {0, 1} /\ MaxStaged < CountMod

VARIABLES
    rows,       \* the live row of each key
    bytes,      \* tableShard.bytes
    total,      \* byteBudget.total
    lock,       \* who holds tableShard.mu for writing
    pc,         \* progress of each caller
    job,        \* its call, and from Resolve on its effects and reservation
    log,        \* the records journaled since boot
    walErr,     \* the log's sticky error
    dropped,    \* DROP TABLE has removed this table from the catalog
    base,       \* the rows at boot
    calls,
    grew,       \* history: an UPDATE outside a transaction grew a row, ungated
    peaked,     \* history: a record needs more on the way than it reserved
    wrapped     \* history: a TXN envelope had too many mutations for its count

vars == <<rows, bytes, total, lock, pc, job, log, walErr, dropped, base, calls, grew, peaked, wrapped>>
historyVars == <<grew, peaked, wrapped>>

Sum(r, S) == SumOver(r, S)
InShard(s) == {p \in PK : shardOf[p] = s}
AddCost(n, a) == n + a.cost
Costs(acts) == FoldLeft(AddCost, 0, acts)

----------------------------------------------------------------------------
(* Calls.                                                                  *)

Stmt == [op : {"insert", "update"}, pk : PK, size : Size]
            \cup [op : {"delete"}, pk : PK, size : {0}]

\* A PK-pinned statement; a transaction; an UPDATE or DELETE of the rows that
\* match among some candidates (by an index, or all of them by a scan).
OneCall == [kind : {"one"}, stmts : {<<s>> : s \in Stmt}]
TxnCall == [kind : {"txn"}, stmts : BoundedSeq(Stmt, MaxStaged) \ {<<>>}]
\* The rows are any, in any order, each with an image of its own; the candidates
\* lie in one shard, or all are locked.
MatchCall ==
    {j \in [kind : {"match"}, locks : {Shard} \cup {{s} : s \in Shard},
            stmts : BoundedSeq(Stmt, Cardinality(PK))] :
        /\ \A i \in DOMAIN j.stmts : /\ j.stmts[i].op = j.stmts[1].op /\ j.stmts[i].op # "insert"
                                     /\ shardOf[j.stmts[i].pk] \in j.locks
        /\ \A i, k \in DOMAIN j.stmts : j.stmts[i].pk = j.stmts[k].pk => i = k}
Call == {j \in OneCall \cup TxnCall \cup MatchCall : j.kind \in Kinds}

NoCall == [kind |-> "none"]

Init ==
    /\ base \in {r \in [PK -> Size \cup {0}] : MaxBytes = 0 \/ Sum(r, PK) <= MaxBytes}
    /\ rows = base
    /\ bytes = [s \in Shard |-> Sum(base, InShard(s))]
    /\ total = IF MaxBytes = 0 THEN 0 ELSE Sum(base, PK)
    /\ lock = [s \in Shard |-> Free]
    /\ pc = [c \in Callers |-> "idle"]
    /\ job = [c \in Callers |-> NoCall]
    /\ log = <<>>
    /\ walErr = FALSE
    /\ dropped = FALSE
    /\ calls = 0
    /\ grew = FALSE /\ peaked = FALSE /\ wrapped = FALSE

Begin(c) ==
    /\ pc[c] = "idle"
    /\ ~dropped
    /\ calls < MaxCalls
    /\ \E j \in Call : job' = [job EXCEPT ![c] = j]
    /\ pc' = [pc EXCEPT ![c] = "lock"]
    /\ calls' = calls + 1
    /\ UNCHANGED <<rows, bytes, total, lock, log, walErr, dropped, base, historyVars>>

----------------------------------------------------------------------------
(* Locks: collectShards, lockCandidateShards, lockAllShards.               *)

\* Mutant of ShardSet: a transaction locks the shard of its first statement.
ShardSetFirst(j) ==
    IF j.kind = "match" THEN j.locks ELSE {shardOf[j.stmts[1].pk]}

ShardSet(j) ==
    IF j.kind = "match" THEN j.locks ELSE {shardOf[j.stmts[i].pk] : i \in DOMAIN j.stmts}

Held(c) == {s \in Shard : lock[s] = c}
Missing(c) == ShardSet(job[c]) \ Held(c)

\* Mutant of NextShard: a transaction locks its shards downwards.
NextShardDown(c) == IF job[c].kind = "txn" THEN Max(Missing(c)) ELSE Min(Missing(c))

\* Shards are locked in ascending order.
NextShard(c) == Min(Missing(c))

Lock(c) ==
    /\ pc[c] = "lock"
    /\ Missing(c) # {}
    /\ lock[NextShard(c)] = Free
    /\ lock' = [lock EXCEPT ![NextShard(c)] = c]
    /\ UNCHANGED <<rows, bytes, total, pc, job, log, walErr, dropped, base, calls, historyVars>>

Unlock(c) ==
    /\ pc[c] = "unlock"
    /\ lock' = [s \in Shard |-> IF lock[s] = c THEN Free ELSE lock[s]]
    /\ pc' = [pc EXCEPT ![c] = "idle"]
    /\ job' = [job EXCEPT ![c] = NoCall]
    /\ UNCHANGED <<rows, bytes, total, log, walErr, dropped, base, calls, historyVars>>

----------------------------------------------------------------------------
(* Resolve: the effects of the statements, in order.                       *)

Effect(s, old) == [op |-> s.op, pk |-> s.pk, size |-> s.size, cost |-> s.size - old]

\* A statement against the overlay: a duplicate INSERT fails the call, an
\* UPDATE or DELETE of an absent row does nothing.
Stage(w, s) ==
    CASE ~w.ok \/ (s.op # "insert" /\ w.overlay[s.pk] = 0) -> w
      [] w.ok /\ s.op = "insert" /\ w.overlay[s.pk] # 0 -> [w EXCEPT !.ok = FALSE]
      [] OTHER -> [w EXCEPT !.overlay[s.pk] = s.size,
                            !.acts = Append(@, Effect(s, w.overlay[s.pk]))]

Walk(j) == FoldLeft(Stage, [overlay |-> rows, acts |-> <<>>, ok |-> TRUE], j.stmts)

\* Mutant of Gate: a transaction's bytes are not reserved.
GateInsertOnly(kind, acts) ==
    IF kind = "one" /\ acts[1].op = "insert" THEN Costs(acts) ELSE 0

\* What must be reserved before the record is journaled: a plain INSERT's row,
\* the net growth of a transaction.
Gate(kind, acts) ==
    IF (kind = "one" /\ acts[1].op = "insert") \/ kind = "txn" THEN Max({0, Costs(acts)}) ELSE 0

Resolve(c) ==
    LET j == job[c]
        w == Walk(j)
        gate == Gate(j.kind, w.acts)
    IN
    /\ pc[c] = "lock"
    /\ Missing(c) = {}
    /\ IF ~w.ok \/ w.acts = <<>>
         THEN pc' = [pc EXCEPT ![c] = "unlock"] /\ UNCHANGED job
         ELSE /\ pc' = [pc EXCEPT ![c] = IF gate > 0 /\ MaxBytes > 0 THEN "reserve" ELSE "journal"]
              /\ job' = [job EXCEPT ![c] = [kind |-> j.kind, acts |-> w.acts,
                                            gate |-> IF MaxBytes > 0 THEN gate ELSE 0]]
    /\ UNCHANGED <<rows, bytes, total, lock, log, walErr, dropped, base, calls, historyVars>>

----------------------------------------------------------------------------
(* The byte budget: a counter changed without a lock.                      *)

\* Mutant of Reserve: the counter is checked before the bytes are added.
ReserveChecksFirst(c) ==
    /\ pc[c] = "reserve"
    /\ total' = total + job[c].gate
    /\ pc' = [pc EXCEPT ![c] = IF total > MaxBytes THEN "backout" ELSE "journal"]
    /\ UNCHANGED <<rows, bytes, lock, job, log, walErr, dropped, base, calls, historyVars>>

Reserve(c) ==
    /\ pc[c] = "reserve"
    /\ total' = total + job[c].gate
    /\ pc' = [pc EXCEPT ![c] = IF total' > MaxBytes THEN "backout" ELSE "journal"]
    /\ UNCHANGED <<rows, bytes, lock, job, log, walErr, dropped, base, calls, historyVars>>

\* The reservation is returned, after an overshoot or a failed journal write.
BackOut(c) ==
    /\ pc[c] = "backout"
    /\ total' = total - job[c].gate
    /\ pc' = [pc EXCEPT ![c] = "unlock"]
    /\ UNCHANGED <<rows, bytes, lock, job, log, walErr, dropped, base, calls, historyVars>>

----------------------------------------------------------------------------
(* Journal and apply.                                                      *)

\* A single mutation has a record of its own, the others share an envelope.
Record(j) == [count |-> IF j.kind = "one" THEN 1 ELSE Len(j.acts) % CountMod, muts |-> j.acts]

\* An UPDATE outside a transaction grows a row: nothing is reserved for it.
GrowsUngated(j) ==
    /\ j.kind # "txn" /\ j.acts[1].op = "update"
    /\ \E k \in DOMAIN j.acts : j.acts[k].cost > 0

Journal(c) ==
    LET rec == Record(job[c])
        acts == job[c].acts
    IN
    /\ pc[c] = "journal"
    /\ ~walErr
    /\ log' = Append(log, rec)
    /\ pc' = [pc EXCEPT ![c] = IF MaxBytes > 0 /\ job[c].kind = "txn" /\ Costs(acts) < 0
                                  THEN "release" ELSE "apply"]
    /\ wrapped' = (wrapped \/ rec.count # Len(acts))
    /\ peaked' = (peaked \/ \E k \in DOMAIN acts :
                     acts[k].op = "insert" /\ Costs(SubSeq(acts, 1, k)) > Max({0, Costs(acts)}))
    /\ grew' = (grew \/ GrowsUngated(job[c]))
    /\ UNCHANGED <<rows, bytes, total, lock, job, walErr, dropped, base, calls>>

\* Mutant of JournalFails: the reservation is kept.
JournalFailsKeeps(c) ==
    /\ pc[c] = "journal"
    /\ walErr' = TRUE
    /\ pc' = [pc EXCEPT ![c] = "unlock"]
    /\ UNCHANGED <<rows, bytes, total, lock, job, log, dropped, base, calls, historyVars>>

\* The log refuses the record: nothing is applied, and it refuses all others.
JournalFails(c) ==
    /\ pc[c] = "journal"
    /\ walErr' = TRUE
    /\ pc' = [pc EXCEPT ![c] = IF job[c].gate > 0 THEN "backout" ELSE "unlock"]
    /\ UNCHANGED <<rows, bytes, total, lock, job, log, dropped, base, calls, historyVars>>

\* A transaction that frees bytes returns them once it is journaled.
Release(c) ==
    /\ pc[c] = "release"
    /\ total' = total + Costs(job[c].acts)
    /\ pc' = [pc EXCEPT ![c] = "apply"]
    /\ UNCHANGED <<rows, bytes, lock, job, log, walErr, dropped, base, calls, historyVars>>

\* The counter has moved before the rows do.
Prepaid(j) == j.kind = "txn" \/ j.gate > 0

\* One mutation is applied; an UPDATE or DELETE outside a transaction moves the
\* counter row by row.
Apply(c) ==
    LET a == Head(job[c].acts) IN
    /\ pc[c] = "apply"
    /\ rows' = [rows EXCEPT ![a.pk] = a.size]
    /\ bytes' = [bytes EXCEPT ![shardOf[a.pk]] = @ + a.cost]
    /\ total' = IF MaxBytes = 0 \/ Prepaid(job[c]) THEN total ELSE total + a.cost
    /\ job' = [job EXCEPT ![c].acts = Tail(@)]
    /\ pc' = IF Len(job[c].acts) = 1 THEN [pc EXCEPT ![c] = "unlock"] ELSE pc
    /\ UNCHANGED <<lock, log, walErr, dropped, base, calls, historyVars>>

\* dropTable: the table leaves the catalog, calls in progress keep it.
DropTable ==
    /\ ~dropped
    /\ dropped' = TRUE
    /\ UNCHANGED <<rows, bytes, total, lock, pc, job, log, walErr, base, calls, historyVars>>

----------------------------------------------------------------------------

Step(c) ==
    \/ Lock(c) \/ Resolve(c) \/ Reserve(c) \/ BackOut(c)
    \/ Journal(c) \/ JournalFails(c) \/ Release(c) \/ Apply(c) \/ Unlock(c)

Next == DropTable \/ \E c \in Callers : Begin(c) \/ Step(c)

Spec == Init /\ [][Next]_vars

----------------------------------------------------------------------------
(* What a boot makes of the records: the first k of them are in the mirror, *)
(* whose rows are inserted, and the others are replayed.                   *)

\* The rows after some mutations.
SetRow(x, m) == [x EXCEPT ![m.pk] = m.size]
After(r, muts) == FoldLeft(SetRow, r, muts)

Fits(r) == MaxBytes = 0 \/ Sum(r, PK) <= MaxBytes

ReplayMut(x, m) ==
    LET r == [x.rows EXCEPT ![m.pk] = m.size] IN
    [rows |-> r,
     ok |-> /\ x.ok
            /\ m.op = "insert" => x.rows[m.pk] = 0 /\ Fits(r)
            /\ m.op = "update" => x.rows[m.pk] # 0]

ReplayRecord(x, rec) ==
    LET y == FoldLeft(ReplayMut, x, rec.muts) IN [y EXCEPT !.ok = @ /\ rec.count = Len(rec.muts)]

AddMuts(muts, rec) == muts \o rec.muts
Muts(recs) == FoldLeft(AddMuts, <<>>, recs)

Reopen(k) ==
    LET loaded == After(base, Muts(SubSeq(log, 1, k)))
    IN FoldLeft(ReplayRecord, [rows |-> loaded, ok |-> Fits(loaded)], SubSeq(log, k + 1, Len(log)))

----------------------------------------------------------------------------
(* Properties.                                                             *)

Act == [op : {"insert", "update", "delete"}, pk : PK, size : Size \cup {0}, cost : Int]
Working == {"reserve", "backout", "journal", "release", "apply"}

TypeOK ==
    /\ rows \in [PK -> Size \cup {0}] /\ base \in [PK -> Size \cup {0}]
    /\ bytes \in [Shard -> Nat] /\ total \in Nat
    /\ lock \in [Shard -> Callers \cup {Free}]
    /\ pc \in [Callers -> Working \cup {"idle", "lock", "unlock"}]
    /\ DOMAIN job = Callers
    /\ \A c \in Callers :
          /\ pc[c] = "lock" => job[c] \in Call
          /\ pc[c] \in Working =>
                job[c] \in [kind : {"one", "txn", "match"}, acts : Seq(Act), gate : Nat]
    /\ log \in Seq([count : 0..(CountMod - 1), muts : Seq(Act)])
    /\ calls \in 0..MaxCalls /\ {walErr, dropped, grew, peaked, wrapped} \subseteq BOOLEAN

\* The rows the records stand for.
Journaled == After(base, Muts(log))

\* Memory is the serial execution of the journaled records, each whole or not
\* at all: journal order is apply order wherever two calls meet, and a call
\* the log refused leaves nothing.
MemoryIsReplay ==
    LET r == Journaled IN \A p \in PK : lock[shardOf[p]] = Free => rows[p] = r[p]

\* Each mutation meets the row it was resolved against, and costs the difference.
FitOn(r, muts) ==
    \A k \in DOMAIN muts :
        LET old == After(r, SubSeq(muts, 1, k - 1))[muts[k].pk] IN
        /\ muts[k].op = "insert" <=> old = 0
        /\ muts[k].op = "delete" <=> muts[k].size = 0
        /\ muts[k].cost = muts[k].size - old

\* No journaled INSERT meets a row and no journaled UPDATE misses one, so that
\* replay never refuses a record for its rows.
RecordsFitTogether == FitOn(base, Muts(log))

\* A caller takes its locks upwards and keeps them until it is done.
LocksAscend ==
    \A c \in Callers :
        /\ pc[c] = "idle" => Held(c) = {}
        /\ pc[c] = "lock" => /\ Held(c) \subseteq ShardSet(job[c])
                             /\ \A h \in Held(c), m \in Missing(c) : h < m

\* What a call resolved under its locks stays right until it is applied.
WorkFit(c) ==
    LET acts == job[c].acts IN
    /\ acts # <<>>
    /\ \A i \in DOMAIN acts : lock[shardOf[acts[i].pk]] = c
    /\ pc[c] # "backout" => FitOn(rows, acts)
    /\ pc[c] \in {"reserve", "backout", "journal"} =>
          job[c].gate = IF MaxBytes > 0 THEN Gate(job[c].kind, acts) ELSE 0
    /\ pc[c] \in {"reserve", "journal"} =>
          /\ job[c].kind = "one" => Len(acts) = 1
          /\ job[c].kind = "match" =>
                \A i \in DOMAIN acts : acts[i].op = acts[1].op /\ acts[i].op # "insert"
    /\ pc[c] = "release" => MaxBytes > 0 /\ job[c].kind = "txn" /\ Costs(acts) < 0
    /\ pc[c] = "apply" /\ ~Prepaid(job[c]) /\ MaxBytes > 0 /\ ~grew =>
          \A i \in DOMAIN acts : acts[i].cost <= 0
WorkFits == \A c \in Callers : pc[c] \in Working => WorkFit(c)

\* The records are ahead of the rows by what the holders of the locks have still
\* to apply.
MemoryFollowsLog ==
    LET r == Journaled IN
    \A p \in PK :
        LET c == lock[shardOf[p]] IN
        r[p] = IF c \in Callers /\ pc[c] \in {"release", "apply"}
                         THEN After(rows, job[c].acts)[p] ELSE rows[p]

\* The rows and the log agree at every step, whoever holds which shard: memory is
\* what the records say and the records can be replayed one after the other.
StoreInv ==
    /\ TypeOK
    /\ MemoryIsReplay
    /\ RecordsFitTogether
    /\ LocksAscend
    /\ WorkFits
    /\ MemoryFollowsLog

----------------------------------------------------------------------------
(* The counter.                                                            *)

\* What the counter holds for each call beyond the shard tallies.
Reserved ==
    [c \in Callers |->
        CASE pc[c] \in {"backout", "journal"} -> job[c].gate
          [] pc[c] = "apply" /\ Prepaid(job[c]) -> Costs(job[c].acts)
          [] OTHER -> 0]

\* What the log may still grow by.
Granted == [c \in Callers |-> IF pc[c] = "journal" THEN job[c].gate ELSE 0]

\* The counter is the sum of the shard tallies and of the reservations in
\* flight, and a tally the size of its shard's rows, however calls interleave
\* and fail.
BudgetIsExact ==
    /\ MaxBytes > 0 => total = Sum(bytes, Shard) + Sum(Reserved, Callers)
    /\ \A s \in Shard : bytes[s] = Sum(rows, InShard(s))

\* budget.go: the ceiling is never exceeded, but by an UPDATE outside a
\* transaction that grows a row, whatever it does to the others (it moves the
\* counter row by row, and an INSERT fits where it has dipped): the journaled
\* rows fit at any time, with what is about to be journaled.
CapHolds == MaxBytes > 0 /\ ~grew => Sum(Journaled, PK) + Sum(Granted, Callers) <= MaxBytes

\* Open fails on the store's own records, at whatever point they were drained,
\* only after an ungated growth, a transaction that needs more on the way than
\* in the end, or an envelope too large for its count.
ReopenFailsForACause ==
    (\E k \in 0..Len(log) : ~Reopen(k).ok) => grew \/ peaked \/ wrapped

\* Calls do not wait for each other in a circle.
NoLockCycle ==
    (\E c \in Callers : pc[c] # "idle") =>
        \E c \in Callers : /\ pc[c] # "idle"
                           /\ pc[c] = "lock" /\ Missing(c) # {} => lock[NextShard(c)] = Free

\* txn.go: a committed envelope always replays cleanly.
ReopenSucceeds == \A k \in 0..Len(log) : Reopen(k).ok

=============================================================================
