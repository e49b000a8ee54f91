-------------------------- MODULE DurabilityProofs --------------------------
(***************************************************************************)
(* Proofs about Durability, for every number of writers, records, segments *)
(* and faults.  IInv (defined in Durability) is inductive: one lemma per   *)
(* action below shows that the action preserves it, and IInvStep collects  *)
(* them.  The theorems at the end follow from it.                          *)
(***************************************************************************)
EXTENDS Durability, FoldFacts

\* scanMaxSeg returns a bound of the listed numbers that is itself listed,
\* or 0 for an empty directory.
LEMMA ScanMaxSegBound ==
    ASSUME visible \subseteq SegNo
    PROVE  /\ ScanMaxSeg \in 0..MaxSeg
           /\ \A n \in visible : n <= ScanMaxSeg
           /\ ScanMaxSeg = 0 \/ ScanMaxSeg \in visible
<1> USE WalBounds DEF SegNo
<1>0. \A n \in visible : n \in Nat /\ 1 <= n /\ n <= MaxSeg
  OBVIOUS
<1>1. CASE visible = {}
  BY <1>1 DEF ScanMaxSeg
<1>2. CASE visible # {}
  <2> DEFINE Bounds == {b \in Nat : \A m \in visible : m <= b}
  <2>1. MaxSeg \in Bounds
    BY <1>0
  <2>0. PICK v \in visible : TRUE
    BY <1>2
  <2>2. PICK b \in Bounds : \A c \in Bounds : b <= c
    BY <2>1, NatMin
  <2>3. b \in visible
    <3>1. b # 0
      BY <1>0, <2>0, <2>2
    <3>2. b - 1 \in Nat /\ b - 1 \notin Bounds
      BY <3>1, <2>2
    <3>3. PICK m \in visible : ~(m <= b - 1)
      BY <3>2
    <3> QED BY <3>3, <2>2
  <2>4. \E x \in visible : \A y \in visible : x >= y
    BY <2>3, <2>2
  <2>5. Max(visible) \in visible /\ \A y \in visible : Max(visible) >= y
    BY <2>4 DEF Max
  <2>6. ScanMaxSeg = Max(visible)
    BY <1>2 DEF ScanMaxSeg
  <2> HIDE DEF SegNo
  <2> QED BY <1>0, <2>5, <2>6
<1> QED BY <1>1, <1>2

----------------------------------------------------------------------------
(* The initial state.                                                      *)

\* The empty store satisfies the invariant.
LEMMA InitIInv == Init => IInv
<1> SUFFICES ASSUME Init PROVE IInv
  OBVIOUS
<1> USE WalBounds, FaultBounds DEF Init, WalInit, MirrorInit, Lsn, SegNo
<1>1. TypeOK
  BY DEF TypeOK, WalTypeOK, MirrorTypeOK, Callers
<1>2. VolatileInv /\ NumberInv /\ DirInv /\ UndrainedContiguous
  BY DEF VolatileInv, NumberInv, DirInv, UndrainedContiguous, Running, Opening
<1>3. LogNumbered /\ LogPlaced /\ RenamedPlaced /\ SegmentsOrdered /\ TxOrdered
  BY DEF LogNumbered, LogPlaced, RenamedPlaced, SegmentsOrdered, TxOrdered, Running
<1>4. MirrorIsPrefix /\ SealedRecoverable /\ DiskWithinLog /\ MemoryIsLog
  BY DEF MirrorIsPrefix, SealedRecoverable, DiskWithinLog, Recoverable, Contents,
         MemoryIsLog, Running
<1> QED BY <1>1, <1>2, <1>3, <1>4 DEF IInv

----------------------------------------------------------------------------
(* Steps that leave the log, the directory and the mirror alone.           *)

\* The conjuncts of IInv about the log, the directory and the mirror.
DataInv ==
    /\ NumberInv /\ DirInv /\ UndrainedContiguous
    /\ LogNumbered /\ LogPlaced /\ RenamedPlaced /\ SegmentsOrdered /\ TxOrdered
    /\ MirrorIsPrefix /\ SealedRecoverable /\ DiskWithinLog

dataVars == <<buf, seg, visible, synced, content, sealed, base, cursor,
              lastDrained, next, hist, rotted, lostRecs, lost>>

\* A step of a running process that leaves the log, the directory and the
\* mirror alone preserves what the invariant says about them.
LEMMA DataFrame ==
    ASSUME IInv, UNCHANGED dataVars,
           life \in Running, life' \in Running,
           fpc' = "renamed" <=> fpc = "renamed",
           err' = "failed" <=> err = "failed",
           dpc' = "committed" <=> dpc = "committed",
           dpc' = "tx" => dpc = "tx" /\ tx' = tx
    PROVE  DataInv'
<1> USE DEF IInv, dataVars
<1>1. NumberInv'
  BY DEF NumberInv, Top, Running, Opening
<1>2. DirInv' /\ UndrainedContiguous'
  BY DEF DirInv, UndrainedContiguous
<1>3. LogNumbered' /\ LogPlaced' /\ RenamedPlaced'
  BY DEF LogNumbered, LogPlaced, RenamedPlaced, Below, Contents
<1>4. SegmentsOrdered' /\ TxOrdered' /\ MirrorIsPrefix'
  BY DEF SegmentsOrdered, TxOrdered, MirrorIsPrefix, Below, Contents
<1>5. SealedRecoverable' /\ DiskWithinLog'
  BY DEF SealedRecoverable, DiskWithinLog, Recoverable, Contents, Damaged
<1> QED BY <1>1, <1>2, <1>3, <1>4, <1>5 DEF DataInv

\* What a writer has journaled and not yet applied is in the log.
LEMMA InFlightInLog ==
    ASSUME IInv, NEW w \in Writers, wpc[w] \in {"flushing", "journaled"}
    PROVE  life \in Running /\ wlsn[w] \in hist /\ wlsn[w] \in Lsn
<1>1. life \in Running
  BY DEF IInv, VolatileInv
<1>2. wlsn[w] \in InFlight
  BY DEF InFlight
<1> QED BY <1>1, <1>2 DEF IInv, MemoryIsLog, TypeOK

\* A writer passing the closed check preserves the invariant.
LEMMA EnterStep ==
    ASSUME IInv, NEW w \in Writers, Enter(w)
    PROVE  IInv'
<1> USE DEF IInv, Enter, walVars, mirrorVars, drainVars, envVars
<1>1. DataInv'
  BY DataFrame DEF dataVars, Running
<1>2. TypeOK'
  BY DEF TypeOK, WalTypeOK, MirrorTypeOK
<1>3. VolatileInv' /\ MemoryIsLog'
  BY DEF TypeOK, VolatileInv, MemoryIsLog, InFlight, Running
<1> QED BY <1>1, <1>2, <1>3 DEF DataInv

\* writeRecord returning the sticky error preserves the invariant.
LEMMA JournalRefusedStep ==
    ASSUME IInv, NEW w \in Writers, JournalRefused(w)
    PROVE  IInv'
<1> USE DEF IInv, JournalRefused, walVars, mirrorVars, drainVars, envVars
<1>1. DataInv'
  BY DataFrame DEF dataVars, VolatileInv
<1>2. TypeOK'
  BY DEF TypeOK, WalTypeOK, MirrorTypeOK
<1>3. VolatileInv' /\ MemoryIsLog'
  BY DEF TypeOK, VolatileInv, MemoryIsLog, InFlight
<1> QED BY <1>1, <1>2, <1>3 DEF DataInv

\* Applying a journaled mutation to memory preserves the invariant.
LEMMA ApplyStep ==
    ASSUME IInv, NEW w \in Writers, Apply(w)
    PROVE  IInv'
<1> USE DEF Apply, walVars, mirrorVars, drainVars, envVars
<1>0. life \in Running /\ wlsn[w] \in Lsn
  BY InFlightInLog
<1>1. DataInv'
  BY <1>0, DataFrame DEF dataVars
<1>2. TypeOK'
  <2>1. mem' \subseteq Lsn
    BY <1>0 DEF IInv, TypeOK
  <2>2. wlsn' \in [Writers -> 0..MaxLsn]
    BY WalBounds DEF IInv, TypeOK
  <2> QED BY <2>1, <2>2 DEF IInv, TypeOK, WalTypeOK, MirrorTypeOK
<1>3. VolatileInv'
  BY <1>0 DEF IInv, TypeOK, VolatileInv, Running
<1>4. MemoryIsLog'
  <2>1. InFlight = InFlight' \cup {wlsn[w]}
    BY DEF IInv, TypeOK, InFlight
  <2> QED BY <2>1, <1>0 DEF IInv, MemoryIsLog
<1> QED BY <1>1, <1>2, <1>3, <1>4 DEF DataInv, IInv

\* The steps that start flushLocked without appending a record.
LEMMA FlushTickStep ==
    ASSUME IInv, FlushTick
    PROVE  IInv'
<1> USE DEF IInv, FlushTick, FlushTemp, MuFree, NothingToFlush,
            mirrorVars, drainVars, lifeVars, envVars
<1>0. life \in Running
  BY DEF Running
<1>1. DataInv'
  BY <1>0, DataFrame DEF dataVars
<1>2. TypeOK'
  BY WalBounds DEF TypeOK, WalTypeOK, MirrorTypeOK, Callers, SegNo
<1>3. VolatileInv' /\ MemoryIsLog'
  BY <1>0, WritersAreNotRoles DEF VolatileInv, MemoryIsLog, InFlight, Running
<1> QED BY <1>1, <1>2, <1>3 DEF DataInv

\* Close marking the database closed preserves the invariant.
LEMMA CloseBeginStep ==
    ASSUME IInv, CloseBegin
    PROVE  IInv'
<1> USE DEF IInv, CloseBegin, walVars, mirrorVars, drainVars, envVars
<1>1. DataInv'
  BY DataFrame DEF dataVars, Running
<1>2. TypeOK'
  BY DEF TypeOK, WalTypeOK, MirrorTypeOK, Running
<1>3. VolatileInv' /\ MemoryIsLog'
  BY DEF VolatileInv, MemoryIsLog, InFlight, Running
<1> QED BY <1>1, <1>2, <1>3 DEF DataInv

\* The drain loop's final flush preserves the invariant.
LEMMA FinalFlushStep ==
    ASSUME IInv, FinalFlush
    PROVE  IInv'
<1> USE DEF IInv, FinalFlush, FlushTemp, MuFree, NothingToFlush,
            mirrorVars, drainVars, envVars
<1>0. life \in Running /\ life' \in Running
  BY DEF Running
<1>1. DataInv'
  BY <1>0, DataFrame DEF dataVars
<1>2. WalTypeOK(Callers)' /\ MirrorTypeOK'
  <2>1. temps' \subseteq SegNo
    <3>1. temps' = temps \/ (seg < MaxSeg /\ temps' = temps \cup {seg + 1})
      OBVIOUS
    <3>2. seg < MaxSeg => seg + 1 \in SegNo
      BY WalBounds DEF TypeOK, WalTypeOK, SegNo
    <3> QED BY <3>1, <3>2 DEF TypeOK, WalTypeOK
  <2>2. fby' \in Callers
    BY DEF TypeOK, WalTypeOK, Callers
  <2>3. fpc' \in {"idle", "temp", "renamed"} /\ err' \in {"none", "failed", "closed"}
    BY DEF TypeOK, WalTypeOK
  <2> QED BY <2>1, <2>2, <2>3 DEF TypeOK, WalTypeOK, MirrorTypeOK
<1>3. TypeOK'
  BY <1>0, <1>2 DEF TypeOK
<1>4. VolatileInv' /\ MemoryIsLog'
  BY <1>0, WritersAreNotRoles DEF VolatileInv, MemoryIsLog, InFlight, Running
<1> QED BY <1>1, <1>3, <1>4 DEF DataInv

\* wal.close preserves the invariant, whether it has to seal or not.
LEMMA WalCloseStep ==
    ASSUME IInv, WalClose
    PROVE  IInv'
<1> USE DEF IInv, WalClose, FlushTemp, MuFree, NothingToFlush,
            mirrorVars, drainVars, envVars
<1>0. life \in Running /\ life' \in Running
  BY DEF Running
<1>1. DataInv'
  BY <1>0, DataFrame DEF dataVars
<1>2. WalTypeOK(Callers)' /\ MirrorTypeOK'
  <2>1. temps' \subseteq SegNo
    <3>1. temps' = temps \/ (seg < MaxSeg /\ temps' = temps \cup {seg + 1})
      OBVIOUS
    <3>2. seg < MaxSeg => seg + 1 \in SegNo
      BY WalBounds DEF TypeOK, WalTypeOK, SegNo
    <3> QED BY <3>1, <3>2 DEF TypeOK, WalTypeOK
  <2>2. fby' \in Callers
    BY DEF TypeOK, WalTypeOK, Callers
  <2>3. fpc' \in {"idle", "temp", "renamed"} /\ err' \in {"none", "failed", "closed"}
    BY DEF TypeOK, WalTypeOK
  <2> QED BY <2>1, <2>2, <2>3 DEF TypeOK, WalTypeOK, MirrorTypeOK
<1>3. TypeOK'
  BY <1>0, <1>2 DEF TypeOK
<1>4. VolatileInv' /\ MemoryIsLog'
  BY <1>0, WritersAreNotRoles DEF VolatileInv, MemoryIsLog, InFlight, Running
<1> QED BY <1>1, <1>3, <1>4 DEF DataInv

\* Drain steps that commit nothing.
LEMMA DrainListStep ==
    ASSUME IInv, DrainTick \/ FinalDrain
    PROVE  IInv'
<1> USE DEF IInv, DrainTick, FinalDrain, DrainList, walVars, lifeVars, envVars
<1>0. life \in Running /\ life' \in Running
  BY DEF Running
<1>1. DataInv'
  BY <1>0, DataFrame DEF dataVars
<1>2. TypeOK'
  BY <1>0 DEF TypeOK, WalTypeOK, MirrorTypeOK
<1>3. VolatileInv' /\ MemoryIsLog'
  BY <1>0 DEF VolatileInv, MemoryIsLog, InFlight, Running
<1> QED BY <1>1, <1>2, <1>3 DEF DataInv

\* drainOnce returning, normally or with an error, preserves the invariant.
LEMMA DrainGiveUpStep ==
    ASSUME IInv, DrainFailed \/ (DrainReturn /\ UNCHANGED <<lifeVars, envVars>>)
    PROVE  IInv'
<1> USE DEF IInv, DrainFailed, DrainError, DrainReturn, Fault,
            walVars, lifeVars, envVars
<1>0. life \in Running
  BY DEF VolatileInv
<1>1. DataInv'
  BY <1>0, DataFrame DEF dataVars
<1>2. TypeOK'
  <2>1. faults' \in 0..MaxFaults
    BY FaultBounds DEF TypeOK
  <2>2. WalTypeOK(Callers)' /\ MirrorTypeOK'
    BY DEF TypeOK, WalTypeOK, MirrorTypeOK
  <2> QED BY <2>1, <2>2 DEF TypeOK
<1>3. VolatileInv' /\ MemoryIsLog'
  BY <1>0 DEF VolatileInv, MemoryIsLog, InFlight, Running
<1> QED BY <1>1, <1>2, <1>3 DEF DataInv

----------------------------------------------------------------------------
(* Appending a record.                                                     *)

\* Both forms of writeRecord; the flush it may start has not renamed yet.
LEMMA AppendStep ==
    ASSUME IInv, NEW w \in Writers, Journal(w) \/ JournalAndFlush(w)
    PROVE  IInv'
<1> USE DEF Journal, JournalAndFlush, Append, MuFree, FlushTemp,
            mirrorVars, drainVars, envVars
<1>0. /\ life \in Running /\ life' = life
      /\ next \in Lsn /\ buf' = buf \cup {next} /\ hist' = hist \cup {next}
      /\ fpc = "idle" /\ fpc' # "renamed" /\ err = "none" /\ err' = err
      /\ UNCHANGED <<seg, visible, synced, content, sealed, base, cursor,
                     lastDrained, dpc, tx, rotted, lostRecs, lost>>
  BY DEF IInv, VolatileInv
<1>1. WalTypeOK(Callers)'
  <2>1. temps' = temps \/ (seg < MaxSeg /\ temps' = temps \cup {seg + 1})
    OBVIOUS
  <2>2. seg < MaxSeg => seg + 1 \in SegNo
    BY WalBounds DEF IInv, TypeOK, WalTypeOK, SegNo
  <2>3. temps' \subseteq SegNo
    BY <2>1, <2>2 DEF IInv, TypeOK, WalTypeOK
  <2>4. fby' \in Callers /\ fpc' \in {"idle", "temp", "renamed"}
    BY DEF IInv, TypeOK, WalTypeOK, Callers
  <2> QED BY <1>0, <2>3, <2>4 DEF IInv, TypeOK, WalTypeOK
<1>2. TypeOK'
  <2>1. wpc' \in [Writers -> {"idle", "entered", "flushing", "journaled"}]
    BY DEF IInv, TypeOK
  <2>2. wlsn' \in [Writers -> 0..MaxLsn] /\ next' \in 1..(MaxLsn + 1)
    BY WalBounds DEF IInv, TypeOK, Lsn
  <2> QED BY <1>0, <1>1, <2>1, <2>2 DEF IInv, TypeOK, MirrorTypeOK
<1>3. VolatileInv'
  <2>1. wpc'[w] = "flushing" <=> fpc' # "idle"
    BY DEF IInv, TypeOK
  <2>2. fpc' # "idle" => fby' = w /\ seg < MaxSeg
    BY <1>0
  <2>3. \A v \in Writers \ {w} : wpc'[v] = wpc[v]
    BY DEF IInv, TypeOK
  <2> QED BY <1>0, <2>1, <2>2, <2>3 DEF IInv, VolatileInv, Running
<1> HIDE DEF Journal, JournalAndFlush
<1>4. NumberInv' /\ DirInv' /\ UndrainedContiguous'
  BY <1>0 DEF IInv, NumberInv, DirInv, UndrainedContiguous, Top, Running, Opening
<1>5. LogNumbered' /\ next' = next + 1
  BY <1>0, WalBounds DEF IInv, TypeOK, LogNumbered, Lsn, Journal, JournalAndFlush
<1>6. LogPlaced' /\ RenamedPlaced'
  BY <1>0 DEF IInv, LogPlaced, RenamedPlaced, Below, Contents
<1>7. /\ \A l \in hist : ~(next < l)
      /\ \A l \in Recoverable(visible) \cup buf : ~(next < l)
  <2>1. \A l \in hist : l \in Nat /\ l < next
    BY WalBounds DEF IInv, TypeOK, Lsn, LogNumbered
  <2>2. next \in Nat
    BY <1>0, WalBounds DEF Lsn
  <2>3. \A l \in hist : ~(next < l)
    BY <2>1, <2>2
  <2> QED BY <2>3 DEF IInv, DiskWithinLog
<1>8. SegmentsOrdered' /\ MirrorIsPrefix'
  <2>1. Below(0)' = Below(0) /\ \A n \in SegNo : Below(n)' = Below(n)
    BY <1>0 DEF Below, Contents
  <2>2. ASSUME NEW n \in visible, n > cursor, NEW l \in content[n]
        PROVE  ~(next < l)
    BY <1>7, <2>2 DEF Recoverable, Contents, IInv, TypeOK, WalTypeOK
  <2>3. SegmentsOrdered'
    BY <1>0, <2>1, <2>2 DEF IInv, SegmentsOrdered, TypeOK, WalTypeOK
  <2>4. MirrorIsPrefix'
    BY <1>0, <1>7 DEF IInv, MirrorIsPrefix, Recoverable
  <2> QED BY <2>3, <2>4
<1>9. TxOrdered'
  BY <1>0, <1>7 DEF IInv, TxOrdered
<1>10. SealedRecoverable' /\ DiskWithinLog'
  BY <1>0 DEF IInv, SealedRecoverable, DiskWithinLog, Recoverable, Contents, Damaged
<1>11. MemoryIsLog'
  <2>1. InFlight' = InFlight \cup {next}
    BY DEF IInv, TypeOK, InFlight, Journal, JournalAndFlush
  <2> QED BY <1>0, <2>1 DEF IInv, MemoryIsLog, Journal, JournalAndFlush
<1> QED BY <1>2, <1>3, <1>4, <1>5, <1>6, <1>8, <1>9, <1>10, <1>11 DEF IInv

----------------------------------------------------------------------------
(* Losing everything volatile, with the directory as it was or as a power  *)
(* loss may leave it.                                                      *)

\* Losing everything volatile preserves the invariant, for any directory
\* between what is durable and what was visible or durable.
LEMMA RestartStep ==
    ASSUME IInv, VolatileLost,
           \/ UNCHANGED <<visible, synced>>
           \/ visible' \in PowerLossDirs /\ synced' = visible',
           temps' \subseteq temps, faults' \in 0..MaxFaults
    PROVE  IInv'
<1> USE DEF VolatileLost, WalVolatileLost, MirrorVolatileLost
<1>0. /\ life' = "down" /\ dpc' = "idle" /\ fpc' = "idle" /\ buf' = {}
      /\ UNCHANGED <<content, sealed, base, cursor, hist, next, rotted, lostRecs, lost>>
  OBVIOUS
<1>1. /\ visible' \subseteq visible \cup synced
      /\ synced' \subseteq visible \cup synced
      /\ visible \cap synced \subseteq visible' \cap synced'
  BY DEF PowerLossDirs
<1>2. \A n \in visible' : n > cursor => n \in visible
  BY <1>1 DEF IInv, DirInv, TypeOK, WalTypeOK, MirrorTypeOK, SegNo
<1>3. TypeOK'
  <2>1. WalTypeOK(Callers)'
    BY <1>1, WalBounds DEF IInv, TypeOK, WalTypeOK, Callers
  <2>2. MirrorTypeOK'
    BY WalBounds DEF IInv, TypeOK, MirrorTypeOK
  <2> QED BY <2>1, <2>2, WalBounds DEF IInv, TypeOK
<1>4. VolatileInv' /\ NumberInv'
  BY DEF VolatileInv, NumberInv, Running, Opening
<1>5. DirInv'
  <2>1. CASE UNCHANGED <<visible, synced>>
    BY <1>0, <2>1 DEF IInv, DirInv, Running, Opening
  <2>2. CASE visible' \in PowerLossDirs /\ synced' = visible'
    BY <1>0, <1>1, <2>2 DEF IInv, DirInv, Running, Opening
  <2> QED BY <2>1, <2>2
<1>6. UndrainedContiguous'
  <2> SUFFICES ASSUME NEW n \in visible', NEW k \in (cursor + 1)..n
               PROVE  k \in visible' \cup lost
    BY <1>0 DEF UndrainedContiguous
  <2>1. n \in SegNo /\ n > cursor /\ k \in Int /\ k <= n
    BY <1>1, WalBounds DEF IInv, TypeOK, WalTypeOK, MirrorTypeOK, SegNo
  <2>2. n \in visible /\ k \in visible \cup lost
    BY <1>2, <2>1 DEF IInv, UndrainedContiguous
  <2>3. CASE UNCHANGED <<visible, synced>>
    BY <2>2, <2>3
  <2>4. CASE visible' \in PowerLossDirs
    <3>1. k \in visible /\ k \notin synced => n \notin synced /\ (k = n \/ k < n)
      BY <2>1, <2>2 DEF IInv, DirInv, SegNo
    <3> QED BY <2>2, <2>4, <3>1 DEF PowerLossDirs
  <2> QED BY <2>3, <2>4
<1>7. LogNumbered' /\ LogPlaced' /\ RenamedPlaced' /\ TxOrdered' /\ MirrorIsPrefix' /\ MemoryIsLog'
  BY <1>0 DEF IInv, LogNumbered, LogPlaced, RenamedPlaced, TxOrdered, MirrorIsPrefix,
              MemoryIsLog, Running
<1>8. SegmentsOrdered'
  BY <1>0, <1>2 DEF IInv, SegmentsOrdered, Below, Contents
<1>9. SealedRecoverable'
  BY <1>0, <1>1 DEF IInv, SealedRecoverable, Recoverable, Contents, Damaged
<1>10. DiskWithinLog'
  BY <1>0, <1>2 DEF IInv, DiskWithinLog, Recoverable, Contents
<1> QED BY <1>3, <1>4, <1>5, <1>6, <1>7, <1>8, <1>9, <1>10 DEF IInv

\* A crash, a power loss and a failed Open preserve the invariant.
LEMMA DownStep ==
    ASSUME IInv, ReplayRefused \/ OpenFailed \/ Crash \/ PowerLoss
    PROVE  IInv'
<1>1. VolatileLost
  BY DEF ReplayRefused, OpenFailed, Crash, PowerLoss
<1>2. \/ UNCHANGED <<visible, synced>>
      \/ visible' \in PowerLossDirs /\ synced' = visible'
  BY DEF ReplayRefused, OpenFailed, Crash, PowerLoss
<1>3. temps' \subseteq temps
  BY DEF ReplayRefused, OpenFailed, Crash, PowerLoss
<1>4. faults' \in 0..MaxFaults
  BY FaultBounds DEF IInv, TypeOK, Fault, ReplayRefused, OpenFailed, Crash, PowerLoss
<1> QED BY <1>1, <1>2, <1>3, <1>4, RestartStep

----------------------------------------------------------------------------
(* flushLocked.                                                            *)

\* Renaming the temp file into place preserves the invariant.
LEMMA RenameStep ==
    ASSUME IInv, Rename
    PROVE  IInv'
<1> USE DEF Rename, FlushRename, mirrorVars, drainVars, lifeVars
<1>0. /\ life \in Running /\ err = "none" /\ seg + 1 \in SegNo
      /\ cursor <= seg /\ \A n \in visible : n <= seg
      /\ visible' = visible \cup {seg + 1}
      /\ content' = [content EXCEPT ![seg + 1] = buf]
      /\ UNCHANGED <<base, cursor, hist, rotted, buf, seg>>
  BY WalBounds DEF IInv, VolatileInv, NumberInv, Top, TypeOK, WalTypeOK, SegNo
<1>1. /\ content'[seg + 1] = buf
      /\ \A n \in SegNo : n # seg + 1 => content'[n] = content[n]
  BY <1>0 DEF IInv, TypeOK, WalTypeOK
<1>2. TypeOK'
  BY <1>0 DEF IInv, TypeOK, WalTypeOK, MirrorTypeOK
<1>3. VolatileInv' /\ NumberInv'
  <2>1. VolatileInv'
    BY <1>0 DEF IInv, VolatileInv
  <2>2. NumberInv'
    BY <1>0 DEF IInv, TypeOK, WalTypeOK, MirrorTypeOK, NumberInv, Top, Running, Opening, SegNo
  <2> QED BY <2>1, <2>2
<1>4. DirInv' /\ UndrainedContiguous'
  BY <1>0, <1>1, WalBounds DEF IInv, TypeOK, WalTypeOK, MirrorTypeOK, DirInv, UndrainedContiguous,
         Running, SegNo
<1>5. /\ \A n \in 0..seg : Below(n)' = Below(n)
      /\ Below(seg + 1)' = Below(seg) \cup buf
  BY <1>0, <1>1 DEF IInv, TypeOK, WalTypeOK, MirrorTypeOK, Below, Contents, SegNo
<1>6. LogNumbered' /\ LogPlaced' /\ RenamedPlaced' /\ MirrorIsPrefix' /\ MemoryIsLog'
  BY <1>0, <1>5 DEF IInv, TypeOK, WalTypeOK, LogNumbered, LogPlaced, RenamedPlaced, MirrorIsPrefix,
         MemoryIsLog, InFlight
<1>7. SegmentsOrdered'
  <2> SUFFICES ASSUME NEW n \in visible', n > cursor,
                      NEW l \in content'[n], NEW m \in hist, m < l
               PROVE  m \in Below(n)'
    BY <1>0 DEF SegmentsOrdered
  <2>1. CASE n = seg + 1
    BY <1>0, <1>5, <2>1 DEF IInv, LogPlaced
  <2>2. CASE n \in visible /\ n # seg + 1
    BY <1>0, <1>1, <1>5, <2>2 DEF IInv, SegmentsOrdered, TypeOK, WalTypeOK, SegNo
  <2> QED BY <1>0, <2>1, <2>2
<1>8. TxOrdered'
  BY <1>0, <1>1 DEF IInv, TxOrdered, NumberInv, Top, TypeOK, WalTypeOK, MirrorTypeOK, SegNo
<1>9. SealedRecoverable'
  BY <1>0, <1>1 DEF IInv, SealedRecoverable, Recoverable, Contents, Damaged, TypeOK, WalTypeOK, SegNo
<1>10. DiskWithinLog'
  BY <1>0, <1>1 DEF IInv, DiskWithinLog, Recoverable, Contents, TypeOK, WalTypeOK, SegNo
<1> QED BY <1>2, <1>3, <1>4, <1>6, <1>7, <1>8, <1>9, <1>10 DEF IInv

\* The directory fsync that completes a flush preserves the invariant.
LEMMA FlushOkStep ==
    ASSUME IInv, FlushOk
    PROVE  IInv'
<1> USE DEF FlushOk, FlushDone, mirrorVars, drainVars, envVars
<1>0. /\ life \in Running /\ err = "none" /\ seg + 1 \in SegNo
      /\ seg' = seg + 1 /\ fpc' = "idle" /\ buf' = {} /\ synced' = visible
      /\ UNCHANGED <<visible, content, base, cursor, hist, rotted, lostRecs, lost,
                     lastDrained, dpc, tx, next>>
  BY WalBounds DEF IInv, VolatileInv, TypeOK, WalTypeOK, SegNo
<1>1. /\ life' \in Running /\ err' \in {"none", "closed"}
      /\ \A w \in Writers : wpc'[w] = IF fby = w THEN "journaled" ELSE wpc[w]
  BY <1>0 DEF Running
<1>2. TypeOK'
  <2>1. wpc' \in [Writers -> {"idle", "entered", "flushing", "journaled"}]
    BY DEF IInv, TypeOK
  <2>2. WalTypeOK(Callers)'
    BY <1>0, <1>1, WalBounds DEF IInv, TypeOK, WalTypeOK, Callers, SegNo
  <2> QED BY <1>0, <1>1, <2>1, <2>2 DEF IInv, TypeOK, MirrorTypeOK
<1>3. VolatileInv'
  BY <1>0, <1>1 DEF IInv, VolatileInv, Running
<1>4. NumberInv'
  BY <1>0, <1>1 DEF IInv, NumberInv, Top, Running, Opening
<1>5. DirInv' /\ UndrainedContiguous'
  BY <1>0, <1>1 DEF IInv, TypeOK, WalTypeOK, MirrorTypeOK, DirInv, UndrainedContiguous,
                    Running, SegNo
<1>6. Below(seg) \subseteq Below(seg + 1) /\ \A n : Below(n)' = Below(n)
  BY <1>0 DEF IInv, TypeOK, WalTypeOK, Below, Contents
<1>7. LogNumbered' /\ LogPlaced' /\ RenamedPlaced' /\ MirrorIsPrefix'
  BY <1>0, <1>1, <1>6 DEF IInv, LogNumbered, LogPlaced, RenamedPlaced, MirrorIsPrefix
<1>8. SegmentsOrdered' /\ TxOrdered'
  BY <1>0, <1>6 DEF IInv, SegmentsOrdered, TxOrdered
<1>9. SealedRecoverable'
  <2>1. buf \subseteq Recoverable(visible) \cup Damaged
    <3> SUFFICES ASSUME NEW l \in buf, l \notin base, l \notin rotted
                 PROVE  l \in Recoverable(visible) \cup Damaged
      BY DEF Recoverable, Damaged
    <3>1. PICK n \in 1..(seg + 1) : n > cursor /\ l \in content[n]
      BY DEF IInv, RenamedPlaced, Below, Contents
    <3>2. n \in SegNo /\ n \in visible \cup lost
      <4>1. n \in SegNo /\ (n <= seg \/ n = seg + 1)
        BY <1>0, WalBounds DEF IInv, TypeOK, WalTypeOK, SegNo
      <4>2. CASE n <= seg
        BY <1>0, <3>1, <4>1, <4>2 DEF IInv, DirInv
      <4>3. CASE n = seg + 1
        BY <1>0, <3>1, <4>3 DEF IInv, DirInv, TypeOK, MirrorTypeOK
      <4> QED BY <4>1, <4>2, <4>3
    <3>3. n \in lost => l \in lostRecs
      BY <3>1 DEF IInv, DirInv
    <3> QED BY <3>1, <3>2, <3>3 DEF Recoverable, Contents, Damaged, IInv, TypeOK, WalTypeOK
  <2>2. Recoverable(visible \cap synced) \subseteq Recoverable(visible)
    BY DEF Recoverable, Contents
  <2>3. Recoverable(visible \cap synced)' = Recoverable(visible) /\ Damaged' = Damaged
    BY <1>0 DEF Recoverable, Contents, Damaged
  <2> QED BY <2>1, <2>2, <2>3 DEF IInv, SealedRecoverable
<1>10. DiskWithinLog'
  BY <1>0 DEF IInv, DiskWithinLog, Recoverable, Contents
<1>11. MemoryIsLog'
  <2>1. InFlight' = InFlight
    BY <1>1 DEF IInv, VolatileInv, InFlight
  <2> QED BY <1>0, <2>1 DEF IInv, MemoryIsLog
<1> QED BY <1>2, <1>3, <1>4, <1>5, <1>7, <1>8, <1>9, <1>10, <1>11 DEF IInv

\* A failed flush, sticky from then on, preserves the invariant.
LEMMA FlushFailedStep ==
    ASSUME IInv, FlushFailed
    PROVE  IInv'
<1> USE DEF FlushFailed, FlushFail, Fault, mirrorVars, drainVars
<1>0. /\ life \in Running /\ err = "none" /\ seg < MaxSeg
      /\ fpc' = "idle" /\ err' = "failed" /\ faults' \in 0..MaxFaults
      /\ UNCHANGED <<buf, seg, visible, synced, content, sealed, base, cursor, hist,
                     rotted, lostRecs, lost, lastDrained, dpc, tx, next>>
  BY FaultBounds DEF IInv, VolatileInv, TypeOK
<1>1. /\ life' \in Running
      /\ \A w \in Writers : wpc'[w] = IF fby = w THEN "idle" ELSE wpc[w]
      /\ \A w \in Writers : wlsn'[w] = IF fby = w THEN 0 ELSE wlsn[w]
  BY <1>0 DEF Running
<1>2. TypeOK'
  <2>1. /\ wpc' \in [Writers -> {"idle", "entered", "flushing", "journaled"}]
        /\ wlsn' \in [Writers -> 0..MaxLsn]
        /\ rejected' \subseteq 0..MaxLsn
    BY WalBounds DEF IInv, TypeOK
  <2>2. WalTypeOK(Callers)'
    BY <1>0 DEF IInv, TypeOK, WalTypeOK, Callers
  <2> QED BY <1>0, <1>1, <2>1, <2>2 DEF IInv, TypeOK, MirrorTypeOK
<1>3. VolatileInv'
  BY <1>0, <1>1 DEF IInv, VolatileInv, Running
<1>4. NumberInv'
  BY <1>0, <1>1 DEF IInv, TypeOK, WalTypeOK, MirrorTypeOK, NumberInv, Top, Running, Opening, SegNo
<1>5. DirInv' /\ UndrainedContiguous'
  BY <1>0, <1>1 DEF IInv, DirInv, UndrainedContiguous
<1>6. LogNumbered' /\ LogPlaced' /\ RenamedPlaced' /\ SegmentsOrdered' /\ TxOrdered' /\ MirrorIsPrefix'
  BY <1>0, <1>1 DEF IInv, LogNumbered, LogPlaced, RenamedPlaced, SegmentsOrdered, TxOrdered,
                    MirrorIsPrefix, Below, Contents
<1>7. SealedRecoverable' /\ DiskWithinLog'
  BY <1>0 DEF IInv, SealedRecoverable, DiskWithinLog, Recoverable, Contents, Damaged
<1>8. MemoryIsLog'
  <2>1. InFlight \cup rejected = InFlight' \cup rejected'
    <3>1. \A w \in Writers : wpc[w] = "flushing" <=> fby = w
      BY DEF IInv, VolatileInv
    <3> QED BY <1>1, <3>1 DEF InFlight
  <2> QED BY <1>0, <2>1 DEF IInv, MemoryIsLog
<1> QED BY <1>2, <1>3, <1>4, <1>5, <1>6, <1>7, <1>8 DEF IInv

----------------------------------------------------------------------------
(* drainSegment.                                                           *)

\* Applying a segment in an open transaction preserves the invariant.
LEMMA DrainApplyStep ==
    ASSUME IInv, DrainApply, UNCHANGED <<lifeVars, envVars>>
    PROVE  IInv'
<1> USE DEF DrainApply, Expected, walVars, lifeVars, envVars
<1>0. /\ life \in Running /\ lastDrained + 1 \in visible /\ cursor = lastDrained
      /\ lastDrained + 1 <= Top /\ lastDrained + 1 > cursor
      /\ dpc' = "tx" /\ tx' = content[lastDrained + 1]
      /\ UNCHANGED <<buf, seg, fpc, err, visible, synced, content, sealed, base, cursor, hist,
                     rotted, lostRecs, lost, lastDrained, next, life>>
  BY DEF IInv, VolatileInv, NumberInv, TypeOK, MirrorTypeOK
<1>1. TypeOK'
  BY <1>0 DEF IInv, TypeOK, WalTypeOK, MirrorTypeOK, SegNo
<1>2. VolatileInv' /\ MemoryIsLog'
  BY <1>0 DEF IInv, VolatileInv, MemoryIsLog, InFlight, Running
<1>3. NumberInv' /\ DirInv' /\ UndrainedContiguous'
  BY <1>0 DEF IInv, NumberInv, Top, DirInv, UndrainedContiguous
<1>4. LogNumbered' /\ LogPlaced' /\ RenamedPlaced' /\ SegmentsOrdered' /\ MirrorIsPrefix'
  BY <1>0 DEF IInv, LogNumbered, LogPlaced, RenamedPlaced, SegmentsOrdered, MirrorIsPrefix,
              Below, Contents
<1>5. TxOrdered'
  <2>1. Below(lastDrained + 1) = base \cup rotted \cup content[lastDrained + 1]
    BY <1>0 DEF IInv, TypeOK, WalTypeOK, MirrorTypeOK, Below, Contents, SegNo
  <2>2. content[lastDrained + 1] \subseteq hist
    BY <1>0 DEF IInv, TypeOK, WalTypeOK, DiskWithinLog, Recoverable, Contents
  <2> QED BY <1>0, <2>1, <2>2 DEF IInv, TxOrdered, SegmentsOrdered
<1>6. SealedRecoverable' /\ DiskWithinLog'
  BY <1>0 DEF IInv, SealedRecoverable, DiskWithinLog, Recoverable, Contents, Damaged
<1> QED BY <1>1, <1>2, <1>3, <1>4, <1>5, <1>6 DEF IInv

\* The commit moves the segment's records from the tail into the mirror.
LEMMA DrainCommitStep ==
    ASSUME IInv, DrainCommit, UNCHANGED <<lifeVars, envVars>>
    PROVE  IInv'
<1> USE DEF DrainCommit, Expected, walVars, lifeVars, envVars
<1>0. /\ life \in Running /\ cursor = lastDrained
      /\ lastDrained + 1 <= Top /\ lastDrained + 1 \in SegNo
      /\ dpc' = "committed" /\ base' = base \cup tx /\ cursor' = cursor + 1
      /\ UNCHANGED <<buf, seg, fpc, err, visible, synced, content, sealed, hist,
                     rotted, lostRecs, lost, lastDrained, next, life>>
  BY WalBounds DEF IInv, VolatileInv, NumberInv, Top, TypeOK, WalTypeOK, MirrorTypeOK, SegNo
<1>1. TypeOK'
  BY <1>0, WalBounds DEF IInv, TypeOK, WalTypeOK, MirrorTypeOK, SegNo
<1>2. VolatileInv' /\ MemoryIsLog'
  BY <1>0 DEF IInv, VolatileInv, MemoryIsLog, InFlight, Running
<1>3. NumberInv'
  BY <1>0 DEF IInv, NumberInv, Top, Running, Opening, TypeOK, MirrorTypeOK
<1>4. DirInv'
  BY <1>0, WalBounds DEF IInv, DirInv, NumberInv, Top, TypeOK, WalTypeOK, MirrorTypeOK, SegNo, Running
<1>5. UndrainedContiguous'
  BY <1>0, WalBounds DEF IInv, UndrainedContiguous, TypeOK, WalTypeOK, MirrorTypeOK, SegNo
<1>6. content[cursor + 1] \subseteq tx /\ tx \subseteq hist
  BY <1>0 DEF IInv, TxOrdered
<1>7. \A n \in 0..MaxSeg : Below(n) \subseteq Below(n)'
  BY <1>0, <1>6 DEF IInv, TypeOK, WalTypeOK, MirrorTypeOK, Below, Contents, SegNo
<1>8. Recoverable(visible)' \subseteq Recoverable(visible) \cup tx
  BY <1>0 DEF IInv, TypeOK, WalTypeOK, MirrorTypeOK, Recoverable, Contents, SegNo
<1>9. Recoverable(visible \cap synced) \subseteq Recoverable(visible \cap synced)'
  BY <1>0, <1>6 DEF IInv, TypeOK, WalTypeOK, MirrorTypeOK, Recoverable, Contents, SegNo
<1>10. LogNumbered' /\ LogPlaced' /\ TxOrdered'
  BY <1>0, <1>7 DEF IInv, TypeOK, WalTypeOK, LogNumbered, LogPlaced, TxOrdered
<1>11. RenamedPlaced'
  BY <1>0, <1>7, WalBounds DEF IInv, TypeOK, WalTypeOK, RenamedPlaced, VolatileInv
<1>12. SegmentsOrdered'
  BY <1>0, <1>7 DEF IInv, TypeOK, WalTypeOK, MirrorTypeOK, SegmentsOrdered, SegNo
<1>13. MirrorIsPrefix'
  BY <1>0 DEF IInv, MirrorIsPrefix, TxOrdered
<1>14. SealedRecoverable' /\ DiskWithinLog'
  BY <1>0, <1>6, <1>8, <1>9 DEF IInv, SealedRecoverable, DiskWithinLog, Damaged
<1> QED BY <1>1, <1>2, <1>3, <1>4, <1>5, <1>10, <1>11, <1>12, <1>13, <1>14 DEF IInv

\* Removing segment n, at or below the cursor, from the listing.
LEMMA RemoveFrame ==
    ASSUME IInv, NEW n \in Int, n <= cursor,
           visible' = visible \ {n} \/ visible' = visible,
           UNCHANGED <<buf, seg, fpc, err, synced, content, sealed, base, cursor, hist,
                       rotted, lostRecs, lost, next, life>>
    PROVE  /\ DirInv' /\ UndrainedContiguous' /\ LogNumbered' /\ LogPlaced'
           /\ RenamedPlaced' /\ SegmentsOrdered' /\ MirrorIsPrefix'
           /\ SealedRecoverable' /\ DiskWithinLog'
<1>0. visible' \subseteq visible /\ \A k \in visible : k > cursor => k \in visible'
  BY DEF IInv, TypeOK, WalTypeOK, MirrorTypeOK, SegNo
<1>1. DirInv'
  <2>1. \A k \in synced' \ visible' : k <= cursor'
    BY <1>0 DEF IInv, DirInv
  <2>2. \A k \in SegNo : cursor' < k /\ k \in visible \cup lost => k \in visible' \cup lost'
    BY <1>0 DEF IInv, TypeOK, WalTypeOK, MirrorTypeOK, SegNo
  <2>3. fpc' = "renamed" => seg' + 1 \in visible' \cup lost' \/ cursor' = seg' + 1
    BY <1>0 DEF IInv, DirInv, NumberInv, VolatileInv, Top, TypeOK, WalTypeOK, MirrorTypeOK, SegNo
  <2> QED BY <1>0, <2>1, <2>2, <2>3 DEF IInv, DirInv
<1>2. UndrainedContiguous'
  <2> SUFFICES ASSUME NEW j \in visible', NEW k \in (cursor + 1)..j
               PROVE  k \in visible' \cup lost
    BY DEF UndrainedContiguous
  <2>1. k \in visible \cup lost /\ k > cursor
    BY <1>0 DEF IInv, UndrainedContiguous, TypeOK, WalTypeOK, MirrorTypeOK, SegNo
  <2> QED BY <1>0, <2>1
<1>3. LogNumbered' /\ LogPlaced' /\ RenamedPlaced' /\ MirrorIsPrefix'
  BY DEF IInv, LogNumbered, LogPlaced, RenamedPlaced, MirrorIsPrefix, Below, Contents
<1>4. SegmentsOrdered'
  BY <1>0 DEF IInv, SegmentsOrdered, Below, Contents
<1>5. SealedRecoverable' /\ DiskWithinLog'
  BY <1>0 DEF IInv, SealedRecoverable, DiskWithinLog, Recoverable, Contents, Damaged
<1> QED BY <1>1, <1>2, <1>3, <1>4, <1>5

\* drainSegment's reclamation after the commit preserves the invariant.
LEMMA DrainReclaimStep ==
    ASSUME IInv, DrainReclaim, UNCHANGED <<lifeVars, envVars>>
    PROVE  IInv'
<1> USE DEF DrainReclaim, RemoveSegment, Expected, lifeVars, envVars
<1>0. /\ life \in Running /\ cursor = lastDrained + 1 /\ lastDrained' = cursor
      /\ cursor \in Int /\ dpc' = "scan" /\ visible' \subseteq visible
  BY DEF IInv, VolatileInv, NumberInv, TypeOK, MirrorTypeOK
<1>1. /\ DirInv' /\ UndrainedContiguous' /\ LogNumbered' /\ LogPlaced'
      /\ RenamedPlaced' /\ SegmentsOrdered' /\ MirrorIsPrefix'
      /\ SealedRecoverable' /\ DiskWithinLog'
  BY <1>0, RemoveFrame
<1>2. TypeOK'
  BY <1>0 DEF IInv, TypeOK, WalTypeOK, MirrorTypeOK
<1>3. VolatileInv' /\ MemoryIsLog'
  BY <1>0 DEF IInv, VolatileInv, MemoryIsLog, InFlight, Running
<1>4. NumberInv' /\ TxOrdered'
  BY <1>0 DEF IInv, NumberInv, Top, Running, Opening, TxOrdered
<1> QED BY <1>1, <1>2, <1>3, <1>4 DEF IInv

----------------------------------------------------------------------------
(* Open.                                                                   *)

\* openWAL preserves the invariant.
LEMMA OpenBeginStep ==
    ASSUME IInv, OpenBegin
    PROVE  IInv'
<1> USE DEF OpenBegin, OpenWal, mirrorVars, drainVars, envVars
<1>0. /\ life' = "activate" /\ fpc' = "idle" /\ buf' = {} /\ dpc = "idle"
      /\ seg' \in 0..MaxSeg /\ \A n \in visible : n <= seg'
      /\ seg' = 0 \/ seg' \in visible
      /\ UNCHANGED <<visible, synced, content, sealed, base, cursor, hist,
                     rotted, lostRecs, lost, lastDrained, dpc, tx, next>>
  BY ScanMaxSegBound DEF IInv, VolatileInv, TypeOK, WalTypeOK, Running
<1>1. TypeOK'
  <2>1. WalTypeOK(Callers)'
    BY <1>0 DEF IInv, TypeOK, WalTypeOK, Callers
  <2> QED BY <1>0, <2>1 DEF IInv, TypeOK, MirrorTypeOK, Opening
<1>2. VolatileInv' /\ MemoryIsLog'
  BY <1>0 DEF IInv, VolatileInv, MemoryIsLog, Running
<1>3. NumberInv'
  BY <1>0 DEF IInv, NumberInv, Running
<1>4. DirInv' /\ UndrainedContiguous'
  <2>1. \A k \in SegNo : cursor < k /\ k <= seg' => k \in visible \cup lost
    BY <1>0 DEF IInv, UndrainedContiguous, TypeOK, WalTypeOK, MirrorTypeOK, SegNo
  <2> QED BY <1>0, <2>1 DEF IInv, DirInv, UndrainedContiguous
<1>5. LogNumbered' /\ LogPlaced' /\ RenamedPlaced' /\ SegmentsOrdered' /\ TxOrdered' /\ MirrorIsPrefix'
  BY <1>0 DEF IInv, LogNumbered, LogPlaced, RenamedPlaced, SegmentsOrdered, TxOrdered,
              MirrorIsPrefix, Below, Contents, Running
<1>6. SealedRecoverable' /\ DiskWithinLog'
  BY <1>0 DEF IInv, SealedRecoverable, DiskWithinLog, Recoverable, Contents, Damaged
<1> QED BY <1>1, <1>2, <1>3, <1>4, <1>5, <1>6 DEF IInv

\* activateMirror and recoverFromSQLite preserve the invariant.
LEMMA LoadMirrorStep ==
    ASSUME IInv, LoadMirror
    PROVE  IInv'
<1> USE DEF LoadMirror, walVars, envVars
<1>1. TypeOK'
  BY DEF IInv, TypeOK, WalTypeOK, MirrorTypeOK, Opening
<1>2. VolatileInv' /\ MemoryIsLog' /\ NumberInv'
  BY DEF IInv, VolatileInv, MemoryIsLog, NumberInv, Running, Opening
<1>3. DirInv' /\ UndrainedContiguous'
  BY DEF IInv, DirInv, UndrainedContiguous, Running, Opening
<1>4. LogNumbered' /\ LogPlaced' /\ RenamedPlaced' /\ SegmentsOrdered' /\ TxOrdered' /\ MirrorIsPrefix'
  BY DEF IInv, VolatileInv, LogNumbered, LogPlaced, RenamedPlaced, SegmentsOrdered, TxOrdered,
         MirrorIsPrefix, Below, Contents, Running
<1>5. SealedRecoverable' /\ DiskWithinLog'
  BY DEF IInv, SealedRecoverable, DiskWithinLog, Recoverable, Contents, Damaged
<1> QED BY <1>1, <1>2, <1>3, <1>4, <1>5 DEF IInv

\* removeDrainedSegments preserves the invariant.
LEMMA RemoveDrainedStep ==
    ASSUME IInv, RemoveDrained
    PROVE  IInv'
<1> USE DEF RemoveDrained, RemoveSegment, mirrorVars, drainVars, lifeVars, envVars
<1>0. PICK n \in visible : n <= lastDrained /\ visible' = visible \ {n}
  OBVIOUS
<1>1. n \in Int /\ n <= cursor
  BY <1>0 DEF IInv, VolatileInv, NumberInv, Running, TypeOK, WalTypeOK, SegNo
<1>2. /\ DirInv' /\ UndrainedContiguous' /\ LogNumbered' /\ LogPlaced'
      /\ RenamedPlaced' /\ SegmentsOrdered' /\ MirrorIsPrefix'
      /\ SealedRecoverable' /\ DiskWithinLog'
  BY <1>0, <1>1, RemoveFrame
<1>3. TypeOK'
  BY DEF IInv, TypeOK, WalTypeOK, MirrorTypeOK
<1>4. VolatileInv' /\ MemoryIsLog'
  BY DEF IInv, VolatileInv, MemoryIsLog, InFlight
<1>5. NumberInv' /\ TxOrdered'
  BY DEF IInv, NumberInv, Top, TxOrdered
<1> QED BY <1>2, <1>3, <1>4, <1>5 DEF IInv

\* Replay rebuilds exactly what Recoverable names, and that is a part of the
\* log the last incarnation left.
LEMMA ReplayRebuilds ==
    ASSUME IInv, Replay
    PROVE  hist' = Recoverable(visible) /\ mem' = hist' /\ hist' \subseteq hist
<1>1. mem = base /\ lastDrained = cursor
  BY DEF IInv, VolatileInv, NumberInv, Replay, Running
<1>2. mem' = Recoverable(visible)
  BY <1>1 DEF Replay, Recoverable
<1> QED BY <1>2 DEF IInv, DiskWithinLog, Replay

\* replayFrom, and the renumbering after it, preserve the invariant.
LEMMA ReplayStep ==
    ASSUME IInv, Replay
    PROVE  IInv'
<1>0. /\ hist' = Recoverable(visible) /\ mem' = hist' /\ hist' \subseteq hist
      /\ lastDrained = cursor
  BY ReplayRebuilds DEF IInv, NumberInv, Replay, Running, VolatileInv
<1> USE DEF Replay, mirrorVars, drainVars, envVars
<1>1. /\ life' = "up" /\ life' \in Running /\ fpc = "idle" /\ fpc' = "idle"
      /\ buf = {} /\ buf' = {} /\ err = "none" /\ err' = "none" /\ dpc' = "idle" /\ dpc = "idle"
      /\ \A n \in visible : n > cursor /\ n <= seg'
      /\ seg' \in 0..MaxSeg /\ cursor <= seg'
      /\ UNCHANGED <<visible, synced, content, sealed, base, cursor,
                     rotted, lostRecs, lost, lastDrained, tx, next, rejected, wpc, wlsn>>
  BY <1>0 DEF IInv, VolatileInv, NumberInv, TypeOK, WalTypeOK, MirrorTypeOK, SegNo,
              Running, Opening, DrainedRemoved
<1> HIDE DEF Replay
<1>2. TypeOK'
  <2>1. WalTypeOK(Callers)'
    BY <1>1 DEF IInv, TypeOK, WalTypeOK, Replay
  <2>2. mem' \subseteq Lsn /\ hist' \subseteq Lsn
    BY <1>0 DEF IInv, TypeOK
  <2> QED BY <1>1, <2>1, <2>2 DEF IInv, TypeOK, MirrorTypeOK, Replay
<1>3. VolatileInv' /\ MemoryIsLog'
  <2>1. rejected = {} /\ \A w \in Writers : wpc[w] = "idle"
    BY DEF IInv, VolatileInv, Replay, Running
  <2>2. InFlight' = {}
    BY <1>1, <2>1 DEF InFlight
  <2> QED BY <1>0, <1>1, <2>1, <2>2 DEF VolatileInv, MemoryIsLog, Running
<1>4. NumberInv'
  BY <1>0, <1>1 DEF IInv, NumberInv, Top, Running, Opening
<1>5. DirInv' /\ UndrainedContiguous'
  <2>1. \A k \in SegNo : cursor < k /\ k <= seg' => k \in visible \cup lost
    <3>1. seg' = seg \/ seg' = cursor
      BY <1>0 DEF Replay
    <3> QED BY <1>1, <3>1 DEF IInv, DirInv, Replay, Opening, TypeOK, MirrorTypeOK, SegNo
  <2> QED BY <1>1, <2>1 DEF IInv, DirInv, UndrainedContiguous
<1>6. LogPlaced'
  BY <1>0, <1>1 DEF IInv, TypeOK, WalTypeOK, LogPlaced, Below, Recoverable, Contents, SegNo
<1>7. LogNumbered' /\ RenamedPlaced' /\ TxOrdered' /\ MirrorIsPrefix'
  BY <1>0, <1>1 DEF IInv, LogNumbered, RenamedPlaced, TxOrdered, MirrorIsPrefix
<1>8. SegmentsOrdered'
  BY <1>0, <1>1 DEF IInv, SegmentsOrdered, Below, Contents
<1>9. SealedRecoverable' /\ DiskWithinLog'
  BY <1>0, <1>1 DEF IInv, SealedRecoverable, DiskWithinLog, Recoverable, Contents, Damaged
<1> QED BY <1>2, <1>3, <1>4, <1>5, <1>6, <1>7, <1>8, <1>9 DEF IInv

----------------------------------------------------------------------------
(* Damage from outside.                                                    *)

\* A segment lost from outside preserves the invariant.
LEMMA LoseSegmentStep ==
    ASSUME IInv, NEW n \in SegNo, LoseSegment(n)
    PROVE  IInv'
<1> USE DEF LoseSegment, mirrorVars, drainVars, lifeVars
<1>1. TypeOK'
  <2>1. damage' \in 0..MaxDamage /\ lost' \subseteq SegNo /\ lostRecs' \subseteq Lsn
    BY FaultBounds DEF IInv, TypeOK, WalTypeOK
  <2> QED BY <2>1 DEF IInv, TypeOK, WalTypeOK, MirrorTypeOK
<1>2. VolatileInv' /\ MemoryIsLog' /\ NumberInv'
  BY DEF IInv, VolatileInv, MemoryIsLog, InFlight, NumberInv, Top
<1>3. DirInv' /\ UndrainedContiguous'
  BY DEF IInv, DirInv, UndrainedContiguous
<1>4. LogNumbered' /\ LogPlaced' /\ RenamedPlaced' /\ MirrorIsPrefix' /\ TxOrdered'
  BY DEF IInv, LogNumbered, LogPlaced, RenamedPlaced, MirrorIsPrefix, TxOrdered, Below, Contents
<1>5. SegmentsOrdered'
  BY DEF IInv, SegmentsOrdered, Below, Contents
<1>6. SealedRecoverable' /\ DiskWithinLog'
  BY DEF IInv, SealedRecoverable, DiskWithinLog, Recoverable, Contents, Damaged
<1> QED BY <1>1, <1>2, <1>3, <1>4, <1>5, <1>6 DEF IInv

\* Bit rot in an undrained segment preserves the invariant.
LEMMA RotSegmentStep ==
    ASSUME IInv, NEW n \in SegNo, NEW l \in Lsn, RotSegment(n, l)
    PROVE  IInv'
<1> USE DEF RotSegment, mirrorVars, drainVars, lifeVars
<1>0. /\ \A k \in SegNo : content'[k] \subseteq content[k]
      /\ \A k \in SegNo : content[k] \subseteq content'[k] \cup rotted'
      /\ rotted \subseteq rotted' /\ rotted' \subseteq rotted \cup content[n]
  BY DEF IInv, TypeOK, WalTypeOK, Lsn
<1>1. TypeOK'
  <2>1. content' \in [SegNo -> SUBSET Lsn]
    BY DEF IInv, TypeOK, WalTypeOK
  <2>2. rotted' \subseteq Lsn /\ damage' \in 0..MaxDamage
    BY <1>0, FaultBounds DEF IInv, TypeOK, WalTypeOK
  <2> QED BY <2>1, <2>2 DEF IInv, TypeOK, WalTypeOK, MirrorTypeOK
<1>2. VolatileInv' /\ MemoryIsLog' /\ NumberInv'
  BY DEF IInv, VolatileInv, MemoryIsLog, InFlight, NumberInv, Top
<1>3. DirInv' /\ UndrainedContiguous'
  BY <1>0 DEF IInv, TypeOK, DirInv, UndrainedContiguous
<1>4. \A k \in 0..MaxSeg : Below(k) \subseteq Below(k)'
  BY <1>0 DEF Below, Contents, SegNo
<1>5. LogNumbered' /\ LogPlaced' /\ MirrorIsPrefix'
  BY <1>0, <1>4 DEF IInv, TypeOK, WalTypeOK, LogNumbered, LogPlaced, MirrorIsPrefix
<1>6. RenamedPlaced'
  BY <1>4, WalBounds DEF IInv, TypeOK, WalTypeOK, VolatileInv, RenamedPlaced
<1>7. SegmentsOrdered'
  BY <1>0, <1>4, WalBounds DEF IInv, TypeOK, WalTypeOK, SegmentsOrdered, SegNo
<1>8. TxOrdered'
  BY <1>0, WalBounds DEF IInv, TypeOK, WalTypeOK, MirrorTypeOK, NumberInv, VolatileInv, Top, TxOrdered, SegNo
<1>9. SealedRecoverable' /\ DiskWithinLog'
  BY <1>0 DEF IInv, TypeOK, WalTypeOK, SealedRecoverable, DiskWithinLog, Recoverable, Contents, Damaged
<1> QED BY <1>1, <1>2, <1>3, <1>5, <1>6, <1>7, <1>8, <1>9 DEF IInv

----------------------------------------------------------------------------
(* The theorems.                                                           *)

\* Every step of the system preserves the invariant.
LEMMA IInvStep == IInv /\ [Next]_vars => IInv'
<1> SUFFICES ASSUME IInv, [Next]_vars PROVE IInv'
  OBVIOUS
<1>1. ASSUME NEW w \in Writers, WriterNext(w) PROVE IInv'
  BY <1>1, EnterStep, AppendStep, JournalRefusedStep, ApplyStep DEF WriterNext
<1>2. CASE FlushNext
  BY <1>2, FlushTickStep, RenameStep, FlushOkStep, FlushFailedStep DEF FlushNext
<1>3. CASE DrainNext
  BY <1>3, DrainListStep, DrainApplyStep, DrainCommitStep, DrainReclaimStep, DrainGiveUpStep
  DEF DrainNext, DrainStep
<1>4. CASE CloseNext
  BY <1>4, CloseBeginStep, FinalFlushStep, DrainListStep, WalCloseStep DEF CloseNext
<1>5. CASE OpenNext
  BY <1>5, OpenBeginStep, LoadMirrorStep, RemoveDrainedStep, ReplayStep, DownStep DEF OpenNext
<1>6. CASE EnvNext
  BY <1>6, DownStep, LoseSegmentStep, RotSegmentStep DEF EnvNext
<1>7. CASE UNCHANGED vars
  <2> USE <1>7 DEF vars, walVars, mirrorVars, drainVars, lifeVars, envVars
  <2>1. TypeOK' /\ VolatileInv' /\ MemoryIsLog' /\ NumberInv'
    BY DEF IInv, TypeOK, WalTypeOK, MirrorTypeOK, VolatileInv, MemoryIsLog, InFlight, NumberInv, Top
  <2>2. DirInv' /\ UndrainedContiguous' /\ LogNumbered' /\ LogPlaced' /\ RenamedPlaced'
    BY DEF IInv, DirInv, UndrainedContiguous, LogNumbered, LogPlaced, RenamedPlaced, Below, Contents
  <2>3. SegmentsOrdered' /\ TxOrdered' /\ MirrorIsPrefix'
    BY DEF IInv, SegmentsOrdered, TxOrdered, MirrorIsPrefix, Below, Contents
  <2>4. SealedRecoverable' /\ DiskWithinLog'
    BY DEF IInv, SealedRecoverable, DiskWithinLog, Recoverable, Contents, Damaged
  <2> QED BY <2>1, <2>2, <2>3, <2>4 DEF IInv
<1> QED BY <1>1, <1>2, <1>3, <1>4, <1>5, <1>6, <1>7 DEF Next

\* The inductive invariant holds in every reachable state.
THEOREM IInvAlways == Spec => []IInv
  BY InitIInv, IInvStep, PTL DEF Spec

\* Type correctness of the whole durability layer, for any number of writers,
\* records, segments, faults and damaged files.
THEOREM TypeCorrect == Spec => []TypeOK
  BY IInvAlways, PTL DEF IInv

\* A record whose flushLocked returned nil is found by every later boot: it is
\* in the mirror or in a segment that a power loss preserves, damage excused.
THEOREM SealedIsSafe == Spec => []SealedRecoverable
  BY IInvAlways, PTL DEF IInv

\* flushLocked never takes a number the drain has passed or that is in use.
THEOREM NumbersAreFresh == Spec => []FreshSegmentNumber
<1>1. IInv => FreshSegmentNumber
  <2> SUFFICES ASSUME IInv, fpc = "temp" PROVE seg + 1 > cursor /\ seg + 1 \notin visible
    BY DEF FreshSegmentNumber
  <2>1. life \in Running /\ Top = seg
    BY DEF IInv, VolatileInv, Top
  <2> QED BY <2>1, WalBounds DEF IInv, NumberInv, TypeOK, WalTypeOK, MirrorTypeOK
<1> QED BY <1>1, IInvAlways, PTL

\* wal_segment.go's contiguity argument: no gap above the cursor is the
\* system's own making, so errWALMissingSegment always reports outside damage.
THEOREM TailIsContiguous == Spec => []UndrainedContiguous
  BY IInvAlways, PTL DEF IInv

\* The mirror is a prefix of the log, bit-rotted records excepted.
THEOREM MirrorPrefix == Spec => []MirrorIsPrefix
  BY IInvAlways, PTL DEF IInv

\* Memory, in-flight writes and rejected writes make up the log.
THEOREM MemoryFollowsLog == Spec => []MemoryIsLog
  BY IInvAlways, PTL DEF IInv

\* Nothing on disk is foreign to the log.
THEOREM DiskFollowsLog == Spec => []DiskWithinLog
  BY IInvAlways, PTL DEF IInv

\* The log is on disk or in the buffer, damage excused.
LEMMA LogIsOnDisk == IInv => LogWithinDisk
<1> SUFFICES ASSUME IInv, life \in Running, NEW l \in hist
             PROVE  l \in Recoverable(visible) \cup buf \cup Damaged
  BY DEF LogWithinDisk
<1>1. l \in base \/ l \in rotted \/ l \in buf \/ l \in Contents(1..seg, cursor)
  BY DEF IInv, LogPlaced, Below
<1>2. CASE l \in Contents(1..seg, cursor)
  <2>1. PICK n \in 1..seg : n > cursor /\ l \in content[n] /\ l \in Lsn
    BY <1>2 DEF Contents
  <2>2. n \in SegNo /\ n <= seg
    BY WalBounds DEF IInv, TypeOK, WalTypeOK, SegNo
  <2>3. n \in visible \cup lost
    BY <2>1, <2>2 DEF IInv, DirInv, TypeOK, WalTypeOK, MirrorTypeOK, SegNo
  <2> QED BY <2>1, <2>3 DEF IInv, DirInv, Recoverable, Contents, Damaged
<1> QED BY <1>1, <1>2 DEF Recoverable, Damaged

\* docs/durability.md 2: in-memory state is the mirror plus the undrained tail
\* plus the unsealed buffer, damage excused.
THEOREM LogOnDisk == Spec => []LogWithinDisk
  BY LogIsOnDisk, IInvAlways, PTL

\* A Close that returned nil left every acknowledged write on disk.
THEOREM CloseDurable == Spec => []CloseIsDurable
<1>1. IInv => CloseIsDurable
  BY LogIsOnDisk DEF IInv, CloseIsDurable, LogWithinDisk, MemoryIsLog, VolatileInv, Running
<1> QED BY <1>1, IInvAlways, PTL

\* The durable drain cursor advances by one segment, with the rows it covers.
THEOREM CursorMonotone == Spec => CursorAdvances
<1>1. IInv /\ [Next]_vars => [CursorStep]_<<cursor, base>>
  <2> SUFFICES ASSUME IInv, [Next]_vars, ~UNCHANGED <<cursor, base>> PROVE CursorStep
    OBVIOUS
  <2>1. DrainCommit
    <3> USE DEF walVars, mirrorVars, drainVars
    <3>1. ASSUME NEW w \in Writers, WriterNext(w) PROVE FALSE
      BY <3>1 DEF WriterNext, Enter, Journal, JournalAndFlush, JournalRefused, Apply, Append
    <3>2. ~FlushNext
      BY DEF FlushNext, FlushTick, Rename, FlushOk, FlushFailed
    <3>3. ~CloseNext
      BY DEF CloseNext, CloseBegin, FinalFlush, FinalDrain, WalClose, DrainList
    <3>4. ~OpenNext
      BY DEF OpenNext, OpenBegin, LoadMirror, RemoveDrained, Replay, ReplayRefused, OpenFailed,
             VolatileLost
    <3>5. ~EnvNext
      BY DEF EnvNext, Crash, PowerLoss, VolatileLost, LoseSegment, RotSegment
    <3>6. ~UNCHANGED vars
      BY DEF vars
    <3>7. CASE DrainNext
      BY <3>7 DEF DrainNext, DrainTick, DrainStep, DrainFailed, DrainList, DrainApply,
                  DrainReclaim, DrainReturn, DrainError
    <3> QED BY <3>1, <3>2, <3>3, <3>4, <3>5, <3>6, <3>7 DEF Next
  <2>2. life \in Running
    BY <2>1 DEF IInv, VolatileInv, DrainCommit
  <2> QED BY <2>1, <2>2 DEF DrainCommit, Expected, CursorStep, IInv, NumberInv, TxOrdered
<1> QED BY <1>1, IInvAlways, PTL DEF Spec, CursorAdvances

----------------------------------------------------------------------------
(* Refinement: the durability layer implements DurableLog.                 *)

\* A contiguous tail above the cursor lists every number up to a listed one.
LEMMA ContiguousTail ==
    ASSUME IInv, lastDrained = cursor, TailContiguous,
           NEW n \in visible, NEW k \in SegNo, cursor < k, k <= n
    PROVE  k \in visible
<1> SUFFICES ASSUME k \notin visible PROVE FALSE
  OBVIOUS
<1> DEFINE Above == {j \in visible : j > k}
<1>1. /\ \A j \in visible : j \in Nat /\ 1 <= j
      /\ k \in Nat /\ cursor \in Nat
  BY WalBounds DEF IInv, TypeOK, WalTypeOK, MirrorTypeOK, SegNo
<1>2. n \in Above /\ Above \in SUBSET Nat
  BY <1>1
<1>3. PICK j \in Above : \A i \in Above : j <= i
  BY <1>2, NatMin
<1>4. j - 1 \in visible
  BY <1>1, <1>3 DEF TailContiguous
<1>5. j - 1 \in Above
  BY <1>1, <1>3, <1>4
<1> QED BY <1>1, <1>3, <1>5

\* What replay rebuilds is a prefix of the log, up to bit rot.
LEMMA ReplayIsRestart ==
    ASSUME IInv, Replay
    PROVE  Promise!Restart
<1>1. hist' = Recoverable(visible) /\ hist' \subseteq hist
  BY ReplayRebuilds
<1>2. lastDrained = cursor
  BY DEF IInv, NumberInv, VolatileInv, Replay, Running
<1>3. UNCHANGED <<sealed \ Damaged, rotted>>
  BY DEF Replay, envVars, Damaged
<1>4. sealed \ Damaged \subseteq hist'
  BY <1>1 DEF IInv, SealedRecoverable, Recoverable, Contents
<1>5. ASSUME NEW l \in hist', NEW m \in hist, m < l
      PROVE  m \in hist' \cup rotted
  <2>1. CASE l \in base
    BY <1>1, <1>5, <2>1 DEF IInv, MirrorIsPrefix, Recoverable
  <2>2. CASE l \in Contents(visible, cursor)
    <3>1. PICK n \in visible : n > cursor /\ l \in content[n]
      BY <2>2 DEF Contents
    <3>2. m \in Below(n)
      BY <1>5, <3>1 DEF IInv, SegmentsOrdered
    <3>3. CASE m \in Contents(1..n, cursor)
      <4>1. PICK k \in 1..n : k > cursor /\ m \in content[k]
        BY <3>3 DEF Contents
      <4>2. k \in SegNo /\ k <= n /\ cursor < k
        BY <4>1, WalBounds DEF IInv, TypeOK, WalTypeOK, MirrorTypeOK, SegNo
      <4>3. k \in visible
        BY <1>2, <4>2, ContiguousTail DEF Replay
      <4> QED BY <1>1, <4>1, <4>3 DEF Recoverable, Contents, IInv, TypeOK
    <3> QED BY <1>1, <3>2, <3>3 DEF Below, Recoverable
  <2> QED BY <1>1, <2>1, <2>2 DEF Recoverable
<1> QED BY <1>1, <1>3, <1>4, <1>5 DEF Promise!Restart

\* Every step of the durability layer is a step of DurableLog or leaves the
\* log, the safe records and the holes as they are.
LEMMA PromiseStep ==
    ASSUME IInv, [Next]_vars
    PROVE  [Promise!Next]_<<hist, sealed \ Damaged, rotted>>
<1> DEFINE Same == UNCHANGED <<hist, sealed, lostRecs, rotted>>
<1>0. Same => UNCHANGED <<hist, sealed \ Damaged, rotted>>
  BY DEF Damaged
<1>1. ASSUME NEW w \in Writers, Append(w) PROVE Promise!Write
  <2>1. \A m \in hist : m < next
    BY DEF IInv, LogNumbered
  <2>2. UNCHANGED <<sealed \ Damaged, rotted>>
    BY <1>1 DEF Append, envVars, Damaged
  <2> QED BY <1>1, <2>1, <2>2 DEF Append, Promise!Write
<1>2. CASE FlushOk
  <2>1. sealed' = sealed \cup buf /\ UNCHANGED <<hist, rotted, lostRecs>>
    BY <1>2 DEF FlushOk, FlushDone, envVars
  <2>2. sealed \ Damaged \subseteq hist /\ buf \subseteq hist
    BY DEF IInv, SealedRecoverable, DiskWithinLog, Recoverable, Contents
  <2> QED BY <2>1, <2>2 DEF Promise!Next, Promise!Harden, Damaged
<1>3. ASSUME NEW n \in SegNo, LoseSegment(n) PROVE Promise!Damage
  BY <1>3 DEF LoseSegment, lifeVars, Promise!Damage, Damaged
<1>4. ASSUME NEW n \in SegNo, NEW l \in Lsn, RotSegment(n, l) PROVE Promise!Damage
  BY <1>4 DEF RotSegment, lifeVars, Promise!Damage, Damaged
<1>5. VolatileLost => Same
  BY DEF VolatileLost
<1> USE DEF walVars, lifeVars, envVars
<1>6. ASSUME NEW w \in Writers, WriterNext(w) PROVE Promise!Write \/ Same
  BY <1>1, <1>6 DEF WriterNext, Enter, Journal, JournalAndFlush, JournalRefused, Apply
<1>7. CASE FlushNext
  <2>1. FlushTick \/ Rename \/ FlushFailed => Same
    BY DEF FlushTick, Rename, FlushFailed, FlushRename, FlushFail
  <2> QED BY <1>0, <1>2, <1>7, <2>1 DEF FlushNext
<1>8. DrainNext => Same
  BY DEF DrainNext, DrainTick, DrainStep, DrainFailed, DrainList, DrainApply, DrainCommit,
         DrainReclaim, DrainReturn, DrainError
<1>9. CloseNext => Same
  BY DEF CloseNext, CloseBegin, FinalFlush, FinalDrain, WalClose, DrainList
<1>10. CASE OpenNext
  <2>1. OpenBegin \/ LoadMirror \/ RemoveDrained \/ ReplayRefused \/ OpenFailed => Same
    BY <1>5 DEF OpenBegin, LoadMirror, RemoveDrained, ReplayRefused, OpenFailed, OpenWal
  <2> QED BY <1>0, <1>10, <2>1, ReplayIsRestart DEF OpenNext, Promise!Next
<1>11. EnvNext => Promise!Damage \/ Same
  BY <1>3, <1>4, <1>5 DEF EnvNext, Crash, PowerLoss
<1>12. UNCHANGED vars => Same
  BY DEF vars
<1> HIDE DEF Same
<1> QED BY <1>0, <1>6, <1>7, <1>8, <1>9, <1>10, <1>11, <1>12 DEF Next, Promise!Next

\* The WAL, the drain and the boot together keep the promise of DurableLog: a
\* restart loses at most an unsafe suffix, and nothing from the middle.
THEOREM DurabilityRefines == Spec => KeepsPromise
<1>1. Init => Promise!Init
  BY DEF Init, WalInit, Promise!Init
<1> QED BY <1>1, PromiseStep, IInvAlways, PTL DEF Spec, KeepsPromise, Promise!Spec

=============================================================================
