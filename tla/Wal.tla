-------------------------------- MODULE Wal --------------------------------
(***************************************************************************)
(* The born-sealed write-ahead log (wal.go, wal_segment.go).               *)
(*                                                                         *)
(* A record is its log sequence number: the order in which writeRecord     *)
(* appended it under w.mu.  A set of such numbers stands for the bytes     *)
(* that hold those records in that order, so the pending buffer and a      *)
(* segment file are sets of Lsn.  The directory is split into what a       *)
(* running process lists (visible) and what a power loss is certain to     *)
(* preserve (synced); fsyncDir makes the two equal.                        *)
(*                                                                         *)
(* flushLocked is three steps, because a crash, an I/O error or the drain  *)
(* can fall between them: the temp file is written and fsynced ("temp"),   *)
(* renamed into place ("renamed"), and the directory is fsynced ("idle"    *)
(* again).  w.mu is held throughout: fpc # "idle" is the mutex, and fby is *)
(* the caller that will receive flushLocked's result.                      *)
(***************************************************************************)
EXTENDS Integers, FiniteSetsExt

CONSTANTS
    MaxLsn,     \* bound on the records ever appended
    MaxSeg      \* bound on segment numbers

ASSUME WalBounds == MaxLsn \in Nat /\ MaxSeg \in Nat

VARIABLES
    buf,        \* wal.buf: appended, not yet sealed
    seg,        \* wal.seg: last sealed segment number
    err,        \* wal.err: "none", "failed" (sticky) or "closed" (ErrClosed)
    fpc,        \* progress of flushLocked while w.mu is held
    fby,        \* the caller of the flush in progress
    temps,      \* seg-<n>.wal.tmp files
    visible,    \* seg-<n>.wal files the directory lists
    synced,     \* seg-<n>.wal entries certain to survive a power loss
    content,    \* the readable records of segment n
    sealed      \* history: records whose flushLocked returned nil

walVars == <<buf, seg, err, fpc, fby, temps, visible, synced, content, sealed>>

Lsn == 1..MaxLsn
SegNo == 1..MaxSeg

WalTypeOK(Caller) ==
    /\ buf \subseteq Lsn
    /\ seg \in 0..MaxSeg
    /\ err \in {"none", "failed", "closed"}
    /\ fpc \in {"idle", "temp", "renamed"}
    /\ fby \in Caller
    /\ temps \subseteq SegNo
    /\ visible \subseteq SegNo
    /\ synced \subseteq SegNo
    /\ content \in [SegNo -> SUBSET Lsn]
    /\ sealed \subseteq Lsn

WalInit(nobody) ==
    /\ buf = {}
    /\ seg = 0
    /\ err = "none"
    /\ fpc = "idle"
    /\ fby = nobody
    /\ temps = {}
    /\ visible = {}
    /\ synced = {}
    /\ content = [n \in SegNo |-> {}]
    /\ sealed = {}

\* The records in the segments of S above the number lo.
Contents(S, lo) == {l \in Lsn : \E n \in S : n > lo /\ l \in content[n]}

\* scanMaxSeg: the highest listed number, 0 when there is none.
ScanMaxSeg == IF visible = {} THEN 0 ELSE Max(visible)

----------------------------------------------------------------------------
(* flushLocked and its callers.                                            *)

\* w.mu is free: every caller below takes it first.
MuFree == fpc = "idle"

\* Mutant: the flusher leaves a small buffer alone.
SmallBufferWaits == err # "none" \/ \A l, m \in buf : l = m

\* flushLocked returns at once on a sticky error or an empty buffer.
NothingToFlush == err # "none" \/ buf = {}

\* Create, write, fsync and close the temp file of the next segment.
FlushTemp(by) ==
    /\ seg < MaxSeg
    /\ fpc' = "temp"
    /\ fby' = by
    /\ temps' = temps \cup {seg + 1}

\* os.Rename: the segment becomes visible, replacing a file of that number.
FlushRename ==
    /\ fpc = "temp"
    /\ fpc' = "renamed"
    /\ temps' = temps \ {seg + 1}
    /\ visible' = visible \cup {seg + 1}
    /\ content' = [content EXCEPT ![seg + 1] = buf]
    /\ UNCHANGED <<buf, seg, err, fby, synced, sealed>>

\* Mutant: the segment counts as sealed without the directory fsync.
FlushDoneUnsynced(nobody) ==
    /\ fpc = "renamed"
    /\ fpc' = "idle"
    /\ fby' = nobody
    /\ seg' = seg + 1
    /\ buf' = {}
    /\ sealed' = sealed \cup buf
    /\ UNCHANGED <<temps, visible, synced, content>>

\* fsyncDir succeeded: advance wal.seg, clear the buffer, release w.mu.
FlushDone(nobody) ==
    /\ fpc = "renamed"
    /\ fpc' = "idle"
    /\ fby' = nobody
    /\ synced' = visible
    /\ seg' = seg + 1
    /\ buf' = {}
    /\ sealed' = sealed \cup buf
    /\ UNCHANGED <<temps, visible, content>>

\* Any step failed: the error is sticky, wal.seg and the buffer stay.  The
\* temp file is left behind unless creating it was what failed.
FlushFail(nobody) ==
    /\ fpc \in {"temp", "renamed"}
    /\ fpc' = "idle"
    /\ fby' = nobody
    /\ err' = "failed"
    /\ temps' \in {temps, temps \ {seg + 1}}
    /\ UNCHANGED <<buf, seg, visible, synced, content, sealed>>

----------------------------------------------------------------------------
(* openWAL, a process crash, a power loss.                                 *)

\* removeStaleTemps, then a fresh handle numbered after the last segment.
OpenWal(nobody) ==
    /\ temps' = {}
    /\ seg' = ScanMaxSeg
    /\ buf' = {}
    /\ err' = "none"
    /\ fpc' = "idle"
    /\ fby' = nobody
    /\ UNCHANGED <<visible, synced, content, sealed>>

\* Remove a segment file; the removal is durable only at the next fsyncDir.
RemoveSegment(n) == visible' = visible \ {n}

\* What is left of the handle when its process dies.
WalVolatileLost(nobody) ==
    /\ buf' = {}
    /\ err' = "none"
    /\ seg' = 0
    /\ fpc' = "idle"
    /\ fby' = nobody

\* The directories a power loss may leave: every durable entry that was not
\* removed is there, a removed one may be back, and the renames not yet
\* fsynced survive in the order they were made.
PowerLossDirs ==
    {S \in SUBSET (visible \cup synced) :
        /\ visible \cap synced \subseteq S
        /\ \A n \in S \ synced : \A m \in visible \ synced : m < n => m \in S}

=============================================================================
