------------------------------- MODULE Mirror -------------------------------
(***************************************************************************)
(* The SQLite companion as data mirror (drain.go): the drain loop applies  *)
(* each sealed segment in one transaction, records its number as the drain *)
(* cursor in the same transaction, and deletes the file afterwards.        *)
(*                                                                         *)
(* SQLite itself is external: with synchronous=FULL a committed            *)
(* transaction survives a power loss and an uncommitted one leaves no      *)
(* trace.  The mirror's rows are the set of records applied to them.       *)
(***************************************************************************)
EXTENDS Wal

VARIABLES
    base,         \* records whose effect the committed mirror rows hold
    cursor,       \* _hz_meta.last_drained_segment, durable
    lastDrained,  \* sqliteMirror.lastDrained, in memory
    dpc,          \* drain progress: "idle", "scan", "tx", "committed"
    todo,         \* the listing drainOnce iterates over
    tx            \* records applied in the open transaction

drainVars == <<lastDrained, dpc, todo, tx>>
mirrorVars == <<base, cursor, drainVars>>

MirrorTypeOK ==
    /\ base \subseteq Lsn
    /\ cursor \in 0..MaxSeg
    /\ lastDrained \in 0..MaxSeg
    /\ dpc \in {"idle", "scan", "tx", "committed"}
    /\ todo \subseteq SegNo
    /\ tx \subseteq Lsn

MirrorInit ==
    /\ base = {}
    /\ cursor = 0
    /\ lastDrained = 0
    /\ dpc = "idle"
    /\ todo = {}
    /\ tx = {}

\* Mutant: whatever segment is listed next, a gap below it or not.
ExpectedListed == IF todo = {} THEN lastDrained + 1 ELSE Min(todo)

\* The number drainOnce calls expected: it follows the last one drained.
Expected == lastDrained + 1

\* What a boot would rebuild from the mirror and the segments of dir.
Recoverable(dir) == base \cup Contents(dir, cursor)

----------------------------------------------------------------------------

\* Mutant: off by one, the next segment is skipped as already drained.
DrainListSkips ==
    /\ dpc = "idle"
    /\ dpc' = "scan"
    /\ todo' = {n \in visible : n > Expected}
    /\ UNCHANGED <<walVars, base, cursor, lastDrained, tx>>

\* drainOnce: list the segments, skipping those already drained.
DrainList ==
    /\ dpc = "idle"
    /\ dpc' = "scan"
    /\ todo' = {n \in visible : n >= Expected}
    /\ UNCHANGED <<walVars, base, cursor, lastDrained, tx>>

\* drainSegment: read the whole segment and apply it in a transaction.  A
\* framing error ends the scan, so the readable records are what is applied.
DrainApply ==
    /\ dpc = "scan"
    /\ Expected \in todo
    /\ Expected \in visible
    /\ dpc' = "tx"
    /\ tx' = content[Expected]
    /\ UNCHANGED <<walVars, base, cursor, lastDrained, todo>>

\* Mutant: the cursor goes past a segment whose rows were rolled back.
DrainCommitCursorOnly ==
    /\ dpc = "tx"
    /\ dpc' = "committed"
    /\ cursor' = Expected
    /\ tx' = {}
    /\ UNCHANGED <<walVars, base, lastDrained, todo>>

\* Commit the rows together with the cursor.
DrainCommit ==
    /\ dpc = "tx"
    /\ dpc' = "committed"
    /\ base' = base \cup tx
    /\ cursor' = Expected
    /\ tx' = {}
    /\ UNCHANGED <<walVars, lastDrained, todo>>

\* After the commit: advance the in-memory cursor and delete the file, a
\* failure of os.Remove being ignored.
DrainReclaim ==
    /\ dpc = "committed"
    /\ dpc' = "scan"
    /\ lastDrained' = Expected
    /\ \/ RemoveSegment(Expected)
       \/ UNCHANGED visible
    /\ todo' = todo \ {Expected}
    /\ UNCHANGED <<buf, seg, err, fpc, fby, temps, synced, content, sealed,
                   base, cursor, tx>>

\* drainOnce returns: the listing is done, the next number is missing from it
\* (errWALMissingSegment), or the file is gone when it is opened.
DrainReturn ==
    /\ dpc = "scan"
    /\ Expected \in todo => Expected \notin visible
    /\ dpc' = "idle"
    /\ todo' = {}
    /\ UNCHANGED <<walVars, base, cursor, lastDrained, tx>>

\* A transient SQLite or I/O error: roll back, leave the cursor, return.
DrainError ==
    /\ dpc \in {"scan", "tx"}
    /\ dpc' = "idle"
    /\ todo' = {}
    /\ tx' = {}
    /\ UNCHANGED <<walVars, base, cursor, lastDrained>>

\* The drain goroutine and its open transaction die with the process.
MirrorVolatileLost ==
    /\ lastDrained' = 0
    /\ dpc' = "idle"
    /\ todo' = {}
    /\ tx' = {}

=============================================================================
