----------------------------- MODULE Durability -----------------------------
(***************************************************************************)
(* A WAL-backed database from Open to Close and across crashes: writers    *)
(* journal and then apply (db_exec.go, store_write.go, txn.go), the        *)
(* flusher seals, the drain loop mirrors, Close tears down in order        *)
(* (db.go), and a boot rebuilds memory from the mirror plus the undrained  *)
(* tail (db.go, recover_sqlite.go, db_replay.go).                          *)
(*                                                                         *)
(* Memory is the set of records applied to it.  The table data behind a    *)
(* record, and the shard lock that orders two writers of one row, are left *)
(* to other modules: here every journaled record is independent.           *)
(***************************************************************************)
EXTENDS Mirror

CONSTANTS
    Writers,    \* goroutines that call Exec or commit a transaction
    MaxFaults,  \* bound on I/O and SQLite errors
    MaxDamage   \* bound on segments lost or corrupted from outside

ASSUME FaultBounds == MaxFaults \in Nat /\ MaxDamage \in Nat
ASSUME WritersAreNotRoles == Writers \cap {"nobody", "flusher", "final", "close"} = {}

VARIABLES
    life,       \* where Open, Close or the process is
    wpc,        \* progress of each writer
    wlsn,       \* the record a writer has journaled, 0 for none
    mem,        \* records applied to the in-memory tables
    next,       \* the next log sequence number
    hist,       \* history: the log memory is rebuilt from, as of the last boot
    rejected,   \* history: appended to the buffer, then reported as failed
    rotted,     \* history: records made unreadable by bit rot
    lostRecs,   \* history: records in undrained segments removed from outside
    lost,       \* history: the numbers of those segments
    faults, damage

lifeVars == <<life, wpc, wlsn, mem, next, hist, rejected>>
envVars == <<rotted, lostRecs, lost, faults, damage>>
vars == <<walVars, mirrorVars, lifeVars, envVars>>

Callers == Writers \cup {"nobody", "flusher", "final", "close"}

Opening == {"activate", "reclaim"}
Running == {"up", "finalFlush", "finalDrain", "draining", "walClose", "closed"}

InFlight == {wlsn[w] : w \in {v \in Writers : wpc[v] \in {"flushing", "journaled"}}}
Damaged == rotted \cup lostRecs

Init ==
    /\ WalInit("nobody")
    /\ MirrorInit
    /\ life = "down"
    /\ wpc = [w \in Writers |-> "idle"]
    /\ wlsn = [w \in Writers |-> 0]
    /\ mem = {}
    /\ next = 1
    /\ hist = {}
    /\ rejected = {}
    /\ rotted = {}
    /\ lostRecs = {}
    /\ lost = {}
    /\ faults = 0
    /\ damage = 0

Fault == faults < MaxFaults /\ faults' = faults + 1

----------------------------------------------------------------------------
(* Writers.  The public verb checks db.closed, then writeRecord appends    *)
(* under w.mu, then the rows are applied under the shard lock.             *)

Enter(w) ==
    /\ life = "up"
    /\ wpc[w] = "idle"
    /\ wpc' = [wpc EXCEPT ![w] = "entered"]
    /\ UNCHANGED <<walVars, mirrorVars, envVars, life, wlsn, mem, next, hist, rejected>>

\* The record is in the buffer, in log order, with w.mu held.
Append(w) ==
    /\ wpc[w] = "entered"
    /\ MuFree
    /\ err = "none"
    /\ next \in Lsn
    /\ buf' = buf \cup {next}
    /\ hist' = hist \cup {next}
    /\ wlsn' = [wlsn EXCEPT ![w] = next]
    /\ next' = next + 1
    /\ UNCHANGED <<mirrorVars, envVars, life, mem, rejected,
                   seg, err, visible, synced, content, sealed>>

\* writeRecord below the size trigger.
Journal(w) ==
    /\ Append(w)
    /\ wpc' = [wpc EXCEPT ![w] = "journaled"]
    /\ UNCHANGED <<fpc, fby, temps>>

\* writeRecord at flushMaxBytes: the same call goes on into flushLocked.
JournalAndFlush(w) ==
    /\ Append(w)
    /\ wpc' = [wpc EXCEPT ![w] = "flushing"]
    /\ FlushTemp(w)

\* writeRecord returns the sticky error, or ErrClosed after wal.close.
JournalRefused(w) ==
    /\ wpc[w] = "entered"
    /\ MuFree
    /\ err # "none"
    /\ wpc' = [wpc EXCEPT ![w] = "idle"]
    /\ UNCHANGED <<walVars, mirrorVars, envVars, life, wlsn, mem, next, hist, rejected>>

\* The caller applies the journaled mutation and returns nil.
Apply(w) ==
    /\ wpc[w] = "journaled"
    /\ mem' = mem \cup {wlsn[w]}
    /\ wpc' = [wpc EXCEPT ![w] = "idle"]
    /\ wlsn' = [wlsn EXCEPT ![w] = 0]
    /\ UNCHANGED <<walVars, mirrorVars, envVars, life, next, hist, rejected>>

----------------------------------------------------------------------------
(* flushLocked's result goes to its caller.                                *)

\* The flusher's tick, or FlushWAL from any goroutine.
FlushTick ==
    /\ life \in {"up", "finalFlush", "finalDrain", "draining"}
    /\ MuFree
    /\ ~NothingToFlush
    /\ FlushTemp("flusher")
    /\ UNCHANGED <<mirrorVars, lifeVars, envVars,
                   buf, seg, err, visible, synced, content, sealed>>

Rename ==
    /\ FlushRename
    /\ lost' = lost \ {seg + 1}
    /\ UNCHANGED <<mirrorVars, lifeVars, rotted, lostRecs, faults, damage>>

\* Mutant: a writer whose record triggered the flush returns before it applies.
FlushOkForgets ==
    /\ FlushDone("nobody")
    /\ wpc' = [w \in Writers |-> IF fby = w THEN "idle" ELSE wpc[w]]
    /\ life' = CASE fby = "final" -> "finalDrain"
                 [] fby = "close" -> "closed"
                 [] OTHER -> life
    /\ err' = IF fby = "close" THEN "closed" ELSE err
    /\ UNCHANGED <<mirrorVars, envVars, wlsn, mem, next, hist, rejected>>

FlushOk ==
    /\ FlushDone("nobody")
    /\ wpc' = [w \in Writers |-> IF fby = w THEN "journaled" ELSE wpc[w]]
    /\ life' = CASE fby = "final" -> "finalDrain"
                 [] fby = "close" -> "closed"
                 [] OTHER -> life
    /\ err' = IF fby = "close" THEN "closed" ELSE err
    /\ UNCHANGED <<mirrorVars, envVars, wlsn, mem, next, hist, rejected>>

\* A writer whose inline flush fails reports the error and applies nothing,
\* though its record is already in the buffer.
FlushFailed ==
    /\ Fault
    /\ FlushFail("nobody")
    /\ wpc' = [w \in Writers |-> IF fby = w THEN "idle" ELSE wpc[w]]
    /\ wlsn' = [w \in Writers |-> IF fby = w THEN 0 ELSE wlsn[w]]
    /\ rejected' = rejected \cup {wlsn[w] : w \in {v \in Writers : fby = v}}
    /\ life' = CASE fby = "final" -> "finalDrain"
                 [] fby = "close" -> "closed"
                 [] OTHER -> life
    /\ UNCHANGED <<mirrorVars, mem, next, hist, rotted, lostRecs, lost, damage>>

----------------------------------------------------------------------------
(* The drain loop: a tick while the database is up, one last drainOnce     *)
(* during Close.                                                           *)

DrainTick ==
    /\ life = "up"
    /\ DrainList
    /\ UNCHANGED <<lifeVars, envVars>>

DrainStep ==
    /\ DrainApply \/ DrainCommit \/ DrainReclaim \/ DrainReturn
    /\ UNCHANGED <<lifeVars, envVars>>

DrainFailed ==
    /\ Fault
    /\ DrainError
    /\ UNCHANGED <<lifeVars, rotted, lostRecs, lost, damage>>

----------------------------------------------------------------------------
(* Close: mark closed, stop the drain loop (final flush, final drain),     *)
(* stop the flusher, seal what is left, reject further writes.             *)

CloseBegin ==
    /\ life = "up"
    /\ life' = "finalFlush"
    /\ UNCHANGED <<walVars, mirrorVars, envVars, wpc, wlsn, mem, next, hist, rejected>>

\* db.wal.flush() once the drain goroutine is between two ticks.
FinalFlush ==
    /\ life = "finalFlush"
    /\ dpc = "idle"
    /\ MuFree
    /\ \/ /\ ~NothingToFlush
          /\ FlushTemp("final")
          /\ UNCHANGED life
       \/ /\ NothingToFlush
          /\ life' = "finalDrain"
          /\ UNCHANGED <<fpc, fby, temps>>
    /\ UNCHANGED <<mirrorVars, envVars, wpc, wlsn, mem, next, hist, rejected,
                   buf, seg, err, visible, synced, content, sealed>>

FinalDrain ==
    /\ life = "finalDrain"
    /\ DrainList
    /\ life' = "draining"
    /\ UNCHANGED <<envVars, wpc, wlsn, mem, next, hist, rejected>>

\* Mutant: close marks the log closed without its last seal.
WalCloseUnsealed ==
    /\ life = "draining"
    /\ dpc = "idle"
    /\ MuFree
    /\ err' = IF err = "none" THEN "closed" ELSE err
    /\ life' = "closed"
    /\ UNCHANGED <<fpc, fby, temps>>
    /\ UNCHANGED <<mirrorVars, envVars, wpc, wlsn, mem, next, hist, rejected,
                   buf, seg, visible, synced, content, sealed>>

\* Mutant: close waits until the buffer has been sealed.
WalCloseWaits ==
    /\ life = "draining"
    /\ dpc = "idle"
    /\ MuFree
    /\ buf = {}
    /\ err' = IF err = "none" THEN "closed" ELSE err
    /\ life' = "closed"
    /\ UNCHANGED <<fpc, fby, temps>>
    /\ UNCHANGED <<mirrorVars, envVars, wpc, wlsn, mem, next, hist, rejected,
                   buf, seg, visible, synced, content, sealed>>

\* wal.close after the drain goroutine ended.
WalClose ==
    /\ life = "draining"
    /\ dpc = "idle"
    /\ MuFree
    /\ \/ /\ ~NothingToFlush
          /\ FlushTemp("close")
          /\ life' = "walClose"
          /\ UNCHANGED err
       \/ /\ NothingToFlush
          /\ err' = IF err = "none" THEN "closed" ELSE err
          /\ life' = "closed"
          /\ UNCHANGED <<fpc, fby, temps>>
    /\ UNCHANGED <<mirrorVars, envVars, wpc, wlsn, mem, next, hist, rejected,
                   buf, seg, visible, synced, content, sealed>>

----------------------------------------------------------------------------
(* Open.                                                                   *)

OpenBegin ==
    /\ life = "down"
    /\ OpenWal("nobody")
    /\ life' = "activate"
    /\ UNCHANGED <<mirrorVars, envVars, wpc, wlsn, mem, next, hist, rejected>>

\* activateMirror loads the cursor, recoverFromSQLite loads the rows.
LoadMirror ==
    /\ life = "activate"
    /\ lastDrained' = cursor
    /\ mem' = base
    /\ life' = "reclaim"
    /\ UNCHANGED <<walVars, envVars, base, cursor, dpc, todo, tx,
                   wpc, wlsn, next, hist, rejected>>

\* removeDrainedSegments, one file at a time.
RemoveDrained ==
    /\ life = "reclaim"
    /\ \E n \in visible : n <= lastDrained /\ RemoveSegment(n)
    /\ UNCHANGED <<mirrorVars, lifeVars, envVars, buf, seg, err, fpc, fby,
                   temps, synced, content, sealed>>

\* Mutant: boot takes the tail as it finds it.
TailAnything == TRUE

DrainedRemoved == \A n \in visible : n > lastDrained
TailContiguous == \A n \in visible : n - 1 = lastDrained \/ n - 1 \in visible

\* Mutant: numbering resumes at the highest file on disk.
ReplayNoRenumber ==
    /\ life = "reclaim"
    /\ DrainedRemoved
    /\ TailContiguous
    /\ mem' = mem \cup Contents(visible, lastDrained)
    /\ hist' = mem'
    /\ life' = "up"
    /\ UNCHANGED <<mirrorVars, envVars, wpc, wlsn, next, rejected, seg,
                   buf, err, fpc, fby, temps, visible, synced, content, sealed>>

\* replayFrom applies the tail; numbering resumes above the cursor.
Replay ==
    /\ life = "reclaim"
    /\ DrainedRemoved
    /\ TailContiguous
    /\ mem' = mem \cup Contents(visible, lastDrained)
    /\ hist' = mem'
    /\ seg' = IF seg < lastDrained THEN lastDrained ELSE seg
    /\ life' = "up"
    /\ UNCHANGED <<mirrorVars, envVars, wpc, wlsn, next, rejected,
                   buf, err, fpc, fby, temps, visible, synced, content, sealed>>

\* Everything in memory is gone: the process died, or Open gave up.
VolatileLost ==
    /\ WalVolatileLost("nobody")
    /\ MirrorVolatileLost
    /\ life' = "down"
    /\ wpc' = [w \in Writers |-> "idle"]
    /\ wlsn' = [w \in Writers |-> 0]
    /\ mem' = {}
    /\ rejected' = {}
    /\ UNCHANGED <<base, cursor, content, sealed, next, hist, rotted, lostRecs, lost, damage>>

\* errWALMissingSegment aborts Open.
ReplayRefused ==
    /\ life = "reclaim"
    /\ DrainedRemoved
    /\ ~TailContiguous
    /\ VolatileLost
    /\ UNCHANGED <<temps, visible, synced, faults>>

\* Any other error of Open: everything opened so far is torn down.
OpenFailed ==
    /\ life \in Opening
    /\ Fault
    /\ VolatileLost
    /\ UNCHANGED <<temps, visible, synced>>

----------------------------------------------------------------------------
(* The environment.                                                        *)

\* The process dies, or exits after Close.
Crash ==
    /\ life # "down"
    /\ VolatileLost
    /\ UNCHANGED <<temps, visible, synced, faults>>

PowerLoss ==
    /\ VolatileLost
    /\ visible' \in PowerLossDirs
    /\ synced' = visible'
    /\ temps' \in SUBSET temps
    /\ UNCHANGED faults

\* A segment above the cursor disappears from the directory.
LoseSegment(n) ==
    /\ damage < MaxDamage
    /\ n \in visible
    /\ n > cursor
    /\ visible' = visible \ {n}
    /\ synced' = synced \ {n}
    /\ lost' = lost \cup {n}
    /\ lostRecs' = lostRecs \cup content[n]
    /\ damage' = damage + 1
    /\ UNCHANGED <<mirrorVars, lifeVars, buf, seg, err, fpc, fby, temps,
                   content, sealed, rotted, faults>>

\* Bit rot: record l of segment n no longer has a valid envelope, so that a
\* scan of the segment stops before it.
RotSegment(n, l) ==
    /\ damage < MaxDamage
    /\ n \in visible
    /\ n > cursor
    /\ l \in content[n]
    /\ content' = [content EXCEPT ![n] = {m \in content[n] : m < l}]
    /\ rotted' = rotted \cup {m \in content[n] : m >= l}
    /\ damage' = damage + 1
    /\ UNCHANGED <<mirrorVars, lifeVars, buf, seg, err, fpc, fby, temps, visible,
                   synced, sealed, lostRecs, lost, faults>>

----------------------------------------------------------------------------

WriterNext(w) ==
    \/ Enter(w) \/ Journal(w) \/ JournalAndFlush(w) \/ JournalRefused(w) \/ Apply(w)
FlushNext == FlushTick \/ Rename \/ FlushOk \/ FlushFailed
DrainNext == DrainTick \/ DrainStep \/ DrainFailed
CloseNext == CloseBegin \/ FinalFlush \/ FinalDrain \/ WalClose
OpenNext ==
    OpenBegin \/ LoadMirror \/ RemoveDrained \/ Replay \/ ReplayRefused \/ OpenFailed
EnvNext ==
    \/ Crash
    \/ PowerLoss
    \/ \E n \in SegNo : LoseSegment(n)
    \/ \E n \in SegNo, l \in Lsn : RotSegment(n, l)

Next ==
    \/ \E w \in Writers : WriterNext(w)
    \/ FlushNext \/ DrainNext \/ CloseNext \/ OpenNext \/ EnvNext

Spec == Init /\ [][Next]_vars

\* The runtime schedules every goroutine and every ticker fires again; Go's
\* mutexes and channel receives do not starve a waiter.  Nothing obliges a
\* caller to write or to call Close, and nothing obliges a crash.
Fairness ==
    /\ WF_vars(FlushTick) /\ WF_vars(Rename) /\ WF_vars(FlushOk)
    /\ WF_vars(DrainTick) /\ WF_vars(DrainStep)
    /\ WF_vars(FinalFlush) /\ WF_vars(FinalDrain) /\ WF_vars(WalClose)
    /\ \A w \in Writers : WF_vars(Journal(w) \/ JournalAndFlush(w) \/ JournalRefused(w) \/ Apply(w))

FairSpec == Spec /\ Fairness

----------------------------------------------------------------------------
(* Properties.                                                             *)

TypeOK ==
    /\ WalTypeOK(Callers)
    /\ MirrorTypeOK
    /\ life \in {"down"} \cup Opening \cup Running
    /\ wpc \in [Writers -> {"idle", "entered", "flushing", "journaled"}]
    /\ wlsn \in [Writers -> 0..MaxLsn]
    /\ mem \subseteq Lsn
    /\ next \in 1..(MaxLsn + 1)
    /\ hist \subseteq Lsn
    /\ rejected \subseteq 0..MaxLsn
    /\ rotted \subseteq Lsn
    /\ lostRecs \subseteq Lsn
    /\ lost \subseteq SegNo
    /\ faults \in 0..MaxFaults
    /\ damage \in 0..MaxDamage

\* Once flushLocked has returned nil for a record, a boot finds it again after
\* any crash or power loss, at whatever point of the drain it strikes: in the
\* mirror, or in a segment whose directory entry is durable.  Only damage to
\* the files from outside is excused.
SealedRecoverable == sealed \subseteq Recoverable(visible \cap synced) \cup Damaged

\* flushLocked never seals onto a number the drain has passed or a file that
\* exists: those records would be skipped by the drain and by replay.
FreshSegmentNumber == fpc = "temp" => seg + 1 > cursor /\ seg + 1 \notin visible

\* The undrained range has no gap the system made itself: the only numbers
\* missing between the cursor and a listed segment were removed from outside.
UndrainedContiguous ==
    \A n \in visible : \A k \in (cursor + 1)..n : k \in visible \cup lost

\* The mirror never runs ahead over a missing segment: when it holds a record
\* it holds every earlier record of the log that is not bit-rotted.
MirrorIsPrefix == \A l \in base, m \in hist : m < l => m \in base \cup rotted

\* While the database runs, the log is exactly what memory holds, what a
\* writer is about to apply, and what a writer was told had failed.
MemoryIsLog == life \in Running => hist = mem \cup InFlight \cup rejected

\* The disk and the buffer hold nothing that is not of the log: no segment is
\* left over from before a restart that dropped its records.
DiskWithinLog == Recoverable(visible) \cup buf \subseteq hist

\* Everything in the log is in the mirror, in the undrained tail or still in
\* the buffer (docs/durability.md 2), damage excused.
LogWithinDisk ==
    life \in Running => hist \subseteq Recoverable(visible) \cup buf \cup Damaged

\* When Close returns nil, every write it raced with that was acknowledged, or
\* will be, is on disk.
CloseIsDurable ==
    life = "closed" /\ err = "closed" =>
        mem \cup InFlight \subseteq Recoverable(visible) \cup Damaged

\* The durable cursor passes a segment only in a step that leaves every record
\* still readable in it, and all that was mirrored before, in the mirror; it
\* passes one segment at a time and never goes back.
CursorStep ==
    /\ base \subseteq base'
    /\ cursor' # cursor => cursor' = cursor + 1 /\ content[cursor + 1] \subseteq base'
CursorAdvances == [][CursorStep]_<<cursor, base>>

\* Every sealed segment reaches the mirror unless the process stops first or a
\* segment below it was lost.
SealedIsDrained ==
    \A n \in SegNo :
        life = "up" /\ n \in visible ~> cursor >= n \/ life \in {"down", "closed"} \/ lost # {}

\* Every appended record is sealed, or the log has failed or the process died.
AppendedIsSealed ==
    \A l \in Lsn : l \in buf ~> l \in sealed \/ err = "failed" \/ life = "down"

\* Close returns.
CloseReturns == life = "finalFlush" ~> life \in {"closed", "down"}

----------------------------------------------------------------------------
(* The strengthening that makes the properties inductive.                  *)

\* The highest number that may be listed: one above wal.seg while a rename
\* waits for its directory fsync, or once a flush has failed there.
Top == IF fpc = "renamed" \/ err = "failed" THEN seg + 1 ELSE seg

\* The records at or below segment n of the log, rotted ones included.
Below(n) == base \cup rotted \cup Contents(1..n, cursor)

\* Nothing volatile outlives the process, and w.mu protects the log's error.
VolatileInv ==
    /\ life \notin Running =>
          /\ buf = {} /\ err = "none" /\ fpc = "idle"
          /\ dpc = "idle" /\ tx = {}
          /\ rejected = {} /\ \A w \in Writers : wpc[w] = "idle"
    /\ fpc # "idle" => err = "none"
    /\ fpc # "idle" \/ err = "failed" => seg < MaxSeg
    /\ err = "closed" => buf = {}
    /\ \A w \in Writers : wpc[w] = "flushing" <=> fpc # "idle" /\ fby = w
    /\ life = "reclaim" => mem = base

\* Where wal.seg, the cursor and its in-memory copy stand to each other.
NumberInv ==
    /\ life \in Opening => \A n \in visible : n <= seg
    /\ life \in Running => cursor <= Top /\ \A n \in visible : n <= Top
    /\ life \in Running \cup {"reclaim"} =>
          cursor = IF dpc = "committed" THEN lastDrained + 1 ELSE lastDrained
    /\ dpc = "tx" => lastDrained + 1 <= Top

\* What the directory holds: durable entries gone from it are drained, an
\* unsynced rename is above every synced one, and no number below wal.seg is
\* missing but by damage.
DirInv ==
    /\ \A n \in synced \ visible : n <= cursor
    /\ \A n \in synced \cap visible, k \in visible : k < n => k \in synced
    /\ lost \cap (visible \cup synced) = {}
    /\ \A n \in lost : content[n] \subseteq lostRecs
    /\ life \in Running \cup Opening =>
          \A k \in SegNo : cursor < k /\ k <= seg => k \in visible \cup lost
    /\ fpc = "renamed" => seg + 1 \in visible \cup lost \/ cursor = seg + 1

\* Where the records of the log are: each below the next number; in the mirror
\* or in a segment up to wal.seg, or still pending; and what is pending while a
\* rename awaits its fsync is in the renamed file too.
LogNumbered == \A m \in hist : m < next
LogPlaced == life \in Running => hist \subseteq Below(seg) \cup buf
RenamedPlaced == fpc = "renamed" => buf \subseteq Below(seg + 1)

\* Segments, and the transaction that replays one, follow the log's order.
SegmentsOrdered ==
    \A n \in visible : n > cursor =>
        \A l \in content[n], m \in hist : m < l => m \in Below(n)
TxOrdered ==
    dpc = "tx" =>
        /\ tx \subseteq hist
        /\ content[lastDrained + 1] \subseteq tx
        /\ \A l \in tx, m \in hist : m < l => m \in base \cup rotted \cup tx

IInv ==
    /\ TypeOK
    /\ VolatileInv
    /\ NumberInv
    /\ DirInv
    /\ UndrainedContiguous
    /\ LogNumbered
    /\ LogPlaced
    /\ RenamedPlaced
    /\ SegmentsOrdered
    /\ TxOrdered
    /\ MirrorIsPrefix
    /\ SealedRecoverable
    /\ DiskWithinLog
    /\ MemoryIsLog

----------------------------------------------------------------------------
(* The promise to a caller, and the refinement that keeps it.              *)

Promise == INSTANCE DurableLog WITH
    log <- hist, safe <- sealed \ Damaged, holes <- rotted

KeepsPromise == Promise!Spec

=============================================================================
