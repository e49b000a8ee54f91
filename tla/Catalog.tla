------------------------------ MODULE Catalog ------------------------------
(***************************************************************************)
(* Tables come and go: CREATE and DROP journal and then publish a new      *)
(* catalog (catalog.go), writers hold plans bound to an older one          *)
(* (db_query.go, txn.go), the drain applies catalog records and mutations  *)
(* to SQLite and to its own registry of tables (drain.go), and a boot      *)
(* rebuilds the catalog from the Open() schema, the SQLite registry and    *)
(* the undrained tail (db.go, recover_sqlite.go, db_replay.go).            *)
(*                                                                         *)
(* How a record reaches the disk is Durability's subject: here journaling  *)
(* is one durable step.  A table's rows are the set of mutations applied   *)
(* to it.  In memory and in the log a table is its number (tableID + 1     *)
(* here), in SQLite it is its name.                                        *)
(***************************************************************************)
EXTENDS Integers, Sequences, FiniteSets, SequencesExt, FiniteSetsExt

CONSTANTS
    Name,       \* table names
    Boot,       \* Options.Schema: the names of the bootstrap tables, in order
    Writers,    \* goroutines that write rows
    Kinds,      \* how they write: "exec", "tx"
    MaxId,      \* bound on table numbers (65536 in the code)
    MaxRec,     \* bound on the records ever journaled
    MaxFaults,  \* bound on transient SQLite errors
    None,       \* no table
    Missing     \* SQLite has no table of that name

Id == 1..MaxId
Lsn == 1..MaxRec

\* What the log holds: CREATE and DROP of a table, and the mutations of a table's rows.
Record ==
    [op : {"create"}, id : Id, name : Name] \cup [op : {"drop"}, name : Name]
        \cup [op : {"mut"}, id : Id, lsn : Lsn]

ASSUME SchemaNames ==
    /\ Boot \in Seq(Name) /\ Len(Boot) <= MaxId
    /\ \A i, j \in 1..Len(Boot) : Boot[i] = Boot[j] => i = j
ASSUME CatalogBounds == MaxId \in Nat /\ MaxRec \in Nat /\ MaxFaults \in Nat
ASSUME NoneIsNoName == None \notin Name /\ Kinds \subseteq {"exec", "tx"}
ASSUME MissingIsNoRows == \A r \in SUBSET Lsn : r # Missing
ASSUME NoneIsNoRecord == \A rec \in Record : rec # None

VARIABLES
    life,       \* "down", "up" or "failed": Open returned an error
    cat,        \* DB.cat: byID, byName (0 for none) and the rows of each table
    ddl,        \* the record of the CREATE or DROP in progress, None if none
    wpc,        \* progress of each writer: "idle", "exec", "tx", "checked"
    wid,        \* the table its plan is bound to
    log,        \* the undrained records
    cut,        \* the length of the oldest segment, 0 while it is not sealed
    sq,         \* SQLite: _hz_tables (reg) and the user tables (rows)
    tables,     \* sqliteMirror.tables, in memory
    next,       \* the next record's number
    truth,      \* history: what each table holds according to the log, while Sound
    straggled,  \* history: a mutation was journaled after its table's DROP
    forgot,     \* history: a rollback left sqliteMirror.tables changed
    doubled,    \* history: a boot gave a bootstrap name a second number
    faults

writerVars == <<wpc, wid>>
mirrorVars == <<cut, sq, tables>>
historyVars == <<straggled, forgot, doubled>>
vars == <<life, cat, ddl, writerVars, log, mirrorVars, next, truth, historyVars, faults>>

\* None of the three things that lose track of a table has happened.
Sound == ~straggled /\ ~forgot /\ ~doubled

NoTables == [i \in Id |-> None]
EmptyCatalog == [byID |-> <<>>, byName |-> [x \in Name |-> 0], rows |-> [i \in Id |-> {}]]

Init ==
    /\ life = "down"
    /\ cat = EmptyCatalog
    /\ ddl = None
    /\ wpc = [w \in Writers |-> "idle"]
    /\ wid = [w \in Writers |-> 0]
    /\ log = <<>>
    /\ cut = 0
    /\ sq = [reg |-> NoTables, rows |-> [x \in Name |-> Missing]]
    /\ tables = NoTables
    /\ next = 1
    /\ truth = [x \in Name |-> Missing]
    /\ straggled = FALSE
    /\ forgot = FALSE
    /\ doubled = FALSE
    /\ faults = 0

----------------------------------------------------------------------------
(* catalog.go: a catalog is copied, never changed.                         *)

Live(c, i) == i \in 1..Len(c.byID) /\ c.byID[i] # None

\* withTable: an empty table under its number and name.
WithTable(c, i, x) ==
    [byID |-> [j \in 1..Max({i, Len(c.byID)}) |->
                 IF j = i THEN x ELSE IF j <= Len(c.byID) THEN c.byID[j] ELSE None],
     byName |-> [c.byName EXCEPT ![x] = i],
     rows |-> [c.rows EXCEPT ![i] = {}]]

\* withoutTable: the name goes, the slot is emptied and kept.
WithoutTable(c, x) ==
    [c EXCEPT !.byName[x] = 0,
              !.byID = [j \in 1..Len(c.byID) |-> IF j = c.byName[x] THEN None ELSE c.byID[j]]]

----------------------------------------------------------------------------
(* DDL, serialised by ddlMu: journal, then publish.                        *)

CreateJournal(x) ==
    LET rec == [op |-> "create", id |-> Len(cat.byID) + 1, name |-> x] IN
    /\ life = "up"
    /\ ddl = None
    /\ cat.byName[x] = 0
    /\ Len(cat.byID) < MaxId
    /\ next \in Lsn
    /\ ddl' = rec
    /\ log' = Append(log, rec)
    /\ next' = next + 1
    /\ truth' = [truth EXCEPT ![x] = {}]
    /\ UNCHANGED <<life, cat, writerVars, mirrorVars, historyVars, faults>>

DropJournal(x) ==
    LET rec == [op |-> "drop", name |-> x] IN
    /\ life = "up"
    /\ ddl = None
    /\ cat.byName[x] # 0
    /\ next \in Lsn
    /\ ddl' = rec
    /\ log' = Append(log, rec)
    /\ next' = next + 1
    /\ truth' = [truth EXCEPT ![x] = Missing]
    /\ UNCHANGED <<life, cat, writerVars, mirrorVars, historyVars, faults>>

Publish ==
    /\ ddl # None
    /\ cat' = IF ddl.op = "create" THEN WithTable(cat, ddl.id, ddl.name)
              ELSE WithoutTable(cat, ddl.name)
    /\ ddl' = None
    /\ UNCHANGED <<life, writerVars, log, mirrorVars, next, truth, historyVars, faults>>

----------------------------------------------------------------------------
(* Writers.                                                                *)

\* prepare, or the first staged statement of a transaction: the plan keeps the
\* table it found in the catalog.
Bind(w) ==
    /\ life = "up"
    /\ wpc[w] = "idle"
    /\ \E x \in Name, k \in Kinds :
          /\ cat.byName[x] # 0
          /\ wpc' = [wpc EXCEPT ![w] = k]
          /\ wid' = [wid EXCEPT ![w] = cat.byName[x]]
    /\ UNCHANGED <<life, cat, ddl, log, mirrorVars, next, truth, historyVars, faults>>

\* Tx.commit: the table must still be the live one under its number, else
\* ErrTxConflict.  The check comes before the shard locks.
CheckConflict(w) ==
    /\ wpc[w] = "tx"
    /\ wpc' = [wpc EXCEPT ![w] = IF Live(cat, wid[w]) THEN "checked" ELSE "idle"]
    /\ UNCHANGED <<life, cat, ddl, wid, log, mirrorVars, next, truth, historyVars, faults>>

\* The DROP of table i is in the log already.
Dropped(i) == ~Live(cat, i) \/ (ddl # None /\ ddl.op = "drop" /\ cat.byName[ddl.name] = i)

\* Journal a mutation for the bound table and apply it there.
Write(w) ==
    LET i == wid[w] IN
    /\ wpc[w] \in {"exec", "checked"}
    /\ next \in Lsn
    /\ log' = Append(log, [op |-> "mut", id |-> i, lsn |-> next])
    /\ cat' = [cat EXCEPT !.rows[i] = @ \cup {next}]
    /\ wpc' = [wpc EXCEPT ![w] = "idle"]
    /\ next' = next + 1
    /\ truth' = IF Dropped(i) \/ ~Sound THEN truth ELSE [truth EXCEPT ![cat.byID[i]] = @ \cup {next}]
    /\ straggled' = (straggled \/ Dropped(i))
    /\ UNCHANGED <<life, ddl, wid, mirrorVars, forgot, doubled, faults>>

----------------------------------------------------------------------------
(* The drain: a segment's records in one SQLite transaction.               *)

\* register: CREATE TABLE IF NOT EXISTS, then the _hz_tables row.
Register(s, i, x) ==
    [reg |-> [s.reg EXCEPT ![i] = x],
     rows |-> [s.rows EXCEPT ![x] = IF @ = Missing THEN {} ELSE @]]

\* Mutant of MirrorCreate: register forgets the in-memory registry.
MirrorCreateUnregistered(m, i, x) == [m EXCEPT !.sq = Register(m.sq, i, x)]

\* m is a SQLite transaction in progress.  sqliteMirror.tables is changed in
\* place, whether or not the transaction commits.
MirrorCreate(m, i, x) == [m EXCEPT !.sq = Register(m.sq, i, x), !.tables[i] = x]

\* Mutant of MirrorDrop: it leaves the SQLite table.
MirrorDropKeepsTable(m, x) ==
    LET ids == {i \in Id : m.tables[i] = x}
    IN IF ids = {} THEN {m}
       ELSE {[m EXCEPT !.sq.reg[i] = None, !.tables[i] = None] : i \in ids}

\* Mutant of MirrorDrop: it leaves the _hz_tables row.
MirrorDropKeepsRow(m, x) ==
    {[m EXCEPT !.sq.rows[x] = Missing,
               !.tables = [i \in Id |-> IF @[i] = x THEN None ELSE @[i]]]}

\* dropTable: the outcomes, since it removes whichever number of that name it
\* meets first and no other.
MirrorDrop(m, x) ==
    LET ids == {i \in Id : m.tables[i] = x}
        gone == [m EXCEPT !.sq.rows[x] = Missing]
    IN IF ids = {} THEN {gone}
       ELSE {[gone EXCEPT !.sq.reg[i] = None, !.tables[i] = None] : i \in ids}

\* applyMutation: the number must be registered and SQLite have its table.
MirrorMutate(m, i, lsn) ==
    LET x == m.tables[i] IN
    IF x # None /\ m.sq.rows[x] # Missing
      THEN [m EXCEPT !.sq.rows[x] = @ \cup {lsn}]
      ELSE [m EXCEPT !.ok = FALSE]

\* applyRecord, after which nothing more is applied if it failed.
MirrorApply(m, rec) ==
    IF ~m.ok THEN {m}
    ELSE CASE rec.op = "create" -> {MirrorCreate(m, rec.id, rec.name)}
           [] rec.op = "drop" -> MirrorDrop(m, rec.name)
           [] rec.op = "mut" -> {MirrorMutate(m, rec.id, rec.lsn)}

MirrorStep(S, rec) == UNION {MirrorApply(m, rec) : m \in S}

MirrorRuns(recs) == FoldLeft(MirrorStep, {[sq |-> sq, tables |-> tables, ok |-> TRUE]}, recs)

\* The flusher seals the oldest records as the next segment to drain.
Seal ==
    /\ life = "up"
    /\ cut = 0
    /\ cut' \in 1..Len(log)
    /\ UNCHANGED <<life, cat, ddl, writerVars, log, sq, tables, next, truth, historyVars, faults>>

DrainCommit ==
    /\ life = "up"
    /\ cut > 0
    /\ \E m \in MirrorRuns(SubSeq(log, 1, cut)) :
          m.ok /\ sq' = m.sq /\ tables' = m.tables
    /\ log' = SubSeq(log, cut + 1, Len(log))
    /\ cut' = 0
    /\ UNCHANGED <<life, cat, ddl, writerVars, next, truth, historyVars, faults>>

\* drainSegment rolls back: SQLite is as before, sqliteMirror.tables is not.
\* Either a record cannot be applied, or SQLite fails after k records.
DrainRollback ==
    /\ life = "up"
    /\ cut > 0
    /\ \E k \in 0..cut : \E m \in MirrorRuns(SubSeq(log, 1, k)) :
          /\ tables' = m.tables
          /\ \/ ~m.ok /\ UNCHANGED faults
             \/ m.ok /\ faults < MaxFaults /\ faults' = faults + 1
    /\ forgot' = (forgot \/ tables' # sq.reg)
    /\ UNCHANGED <<life, cat, ddl, writerVars, log, cut, sq, next, truth, straggled, doubled>>

----------------------------------------------------------------------------
(* Open.                                                                   *)

\* activateMirror: seed the bootstrap tables the registry does not have.
SeedOne(s, i) == IF s.reg[i] = None THEN Register(s, i, Boot[i]) ELSE s

Seeded == FoldLeft(SeedOne, sq, [i \in 1..Len(Boot) |-> i])

\* recoverFromSQLite: the catalogs it may build over the bootstrap one.  A
\* recovered table takes its name over, the last one met if there are several.
Recovered(s) ==
    LET known == {i \in Id : s.reg[i] # None} \cup 1..Len(Boot)
        nameOf(i) == IF i <= Len(Boot) THEN Boot[i] ELSE s.reg[i]
        owners(x) == {i \in known : nameOf(i) = x}
        late(x) == {i \in owners(x) : i > Len(Boot)}
        winners(x) == IF owners(x) = {} THEN {0} ELSE IF late(x) = {} THEN owners(x) ELSE late(x)
    IN {[byID |-> [i \in 1..Max(known \cup {0}) |-> IF i \in known THEN nameOf(i) ELSE None],
         byName |-> f,
         rows |-> [i \in Id |-> IF i \in known THEN s.rows[nameOf(i)] ELSE {}]]
           : f \in {g \in [Name -> 0..MaxId] : \A x \in Name : g[x] \in winners(x)}}

\* The mirror has another table under a bootstrap number (ErrMirrorSchema), or
\* registers a table that SQLite does not have.
Unloadable(s) ==
    \E i \in Id : s.reg[i] # None /\ (s.rows[s.reg[i]] = Missing
                                      \/ (i <= Len(Boot) /\ s.reg[i] # Boot[i]))

\* applyReplayRecord on a catalog.
ReplayApply(r, rec) ==
    IF ~r.ok THEN r
    ELSE CASE rec.op = "create" -> [r EXCEPT !.cat = WithTable(r.cat, rec.id, rec.name)]
           [] rec.op = "drop" -> [r EXCEPT !.cat = WithoutTable(r.cat, rec.name)]
           [] rec.op = "mut" /\ Live(r.cat, rec.id) -> [r EXCEPT !.cat.rows[rec.id] = @ \cup {rec.lsn}]
           [] rec.op = "mut" /\ ~Live(r.cat, rec.id) -> [r EXCEPT !.ok = FALSE]

Replayed(c) == FoldLeft(ReplayApply, [cat |-> c, ok |-> TRUE], log)

\* The undrained records create or drop a table of that name.
InTail(x) == \E k \in 1..Len(log) : log[k].op # "mut" /\ log[k].name = x

\* What the log stands for after a boot: a bootstrap table whose DROP has been
\* drained is created again, ahead of the undrained records.
SeededTruth ==
    [x \in Name |-> IF /\ truth[x] = Missing /\ ~InTail(x)
                       /\ \E i \in 1..Len(Boot) : Boot[i] = x /\ sq.reg[i] = None
                    THEN {} ELSE truth[x]]

\* A bootstrap table is seeded beside a newer table of its name, which SQLite
\* or the undrained records have already.
Doubled ==
    \E i \in 1..Len(Boot) :
        /\ sq.reg[i] = None
        /\ InTail(Boot[i]) \/ \E j \in Id : sq.reg[j] = Boot[i]

Open ==
    LET s == Seeded IN
    /\ life = "down"
    /\ sq' = s
    /\ tables' = s.reg
    /\ doubled' = (doubled \/ Doubled)
    /\ truth' = SeededTruth
    /\ IF Unloadable(s)
         THEN life' = "failed" /\ UNCHANGED cat
         ELSE \E c \in Recovered(s) :
                 IF Replayed(c).ok THEN life' = "up" /\ cat' = Replayed(c).cat
                 ELSE life' = "failed" /\ UNCHANGED cat
    /\ UNCHANGED <<ddl, writerVars, log, cut, next, straggled, forgot, faults>>

\* The process ends, by a crash or otherwise.
Crash ==
    /\ life # "down"
    /\ life' = "down"
    /\ cat' = EmptyCatalog
    /\ ddl' = None
    /\ wpc' = [w \in Writers |-> "idle"]
    /\ wid' = [w \in Writers |-> 0]
    /\ tables' = NoTables
    /\ UNCHANGED <<log, cut, sq, next, truth, historyVars, faults>>

----------------------------------------------------------------------------

WriterNext(w) == Bind(w) \/ CheckConflict(w) \/ Write(w)
DDLNext == Publish \/ \E x \in Name : CreateJournal(x) \/ DropJournal(x)
DrainNext == Seal \/ DrainCommit \/ DrainRollback

Next == (\E w \in Writers : WriterNext(w)) \/ DDLNext \/ DrainNext \/ Open \/ Crash

Spec == Init /\ [][Next]_vars

\* The flusher and the drain loop tick again and again.
FairSpec == Spec /\ WF_vars(Seal) /\ WF_vars(DrainCommit)

----------------------------------------------------------------------------
(* Properties.                                                             *)

Catalogs ==
    {c \in [byID : Seq(Name \cup {None}), byName : [Name -> 0..MaxId], rows : [Id -> SUBSET Lsn]] :
        Len(c.byID) <= MaxId}
Lites == [reg : [Id -> Name \cup {None}], rows : [Name -> {Missing} \cup SUBSET Lsn]]

TypeOK ==
    /\ life \in {"down", "up", "failed"}
    /\ cat \in Catalogs
    /\ ddl \in Record \cup {None}
    /\ wpc \in [Writers -> {"idle", "checked"} \cup Kinds]
    /\ wid \in [Writers -> 0..MaxId]
    /\ log \in Seq(Record)
    /\ cut \in 0..Len(log)
    /\ sq \in Lites
    /\ tables \in [Id -> Name \cup {None}]
    /\ truth \in [Name -> {Missing} \cup SUBSET Lsn]
    /\ straggled \in BOOLEAN /\ forgot \in BOOLEAN /\ doubled \in BOOLEAN
    /\ next \in 1..(MaxRec + 1) /\ faults \in 0..MaxFaults

Visible(x) == IF cat.byName[x] = 0 THEN Missing ELSE cat.rows[cat.byName[x]]

\* A record does to SQLite what it says, and ok is lost if it names a table that
\* is not there or one that is.
Effect(s, rec) ==
    CASE rec.op = "create" ->
           [reg |-> [s.reg EXCEPT ![rec.id] = rec.name],
            rows |-> [s.rows EXCEPT ![rec.name] = {}],
            ok |-> s.ok /\ s.reg[rec.id] = None /\ s.rows[rec.name] = Missing /\ rec.id > Len(Boot)]
      [] rec.op = "drop" ->
           [reg |-> [i \in Id |-> IF s.reg[i] = rec.name THEN None ELSE s.reg[i]],
            rows |-> [s.rows EXCEPT ![rec.name] = Missing],
            ok |-> s.ok /\ s.rows[rec.name] # Missing]
      [] rec.op = "mut" /\ s.reg[rec.id] \in Name /\ s.rows[s.reg[rec.id]] # Missing ->
           [s EXCEPT !.rows[s.reg[rec.id]] = @ \cup {rec.lsn}]
      [] OTHER -> [s EXCEPT !.ok = FALSE]

Undrained == [reg |-> sq.reg, rows |-> sq.rows, ok |-> TRUE]

\* SQLite once the whole log is drained.
Drained == FoldLeft(Effect, Undrained, log)

\* Each table of SQLite has one number, and a bootstrap number its own table.
Consistent(s) ==
    /\ s.ok
    /\ \A i, j \in Id : s.reg[i] = s.reg[j] /\ s.reg[i] # None => i = j
    /\ \A x \in Name : s.rows[x] = Missing <=> \A i \in Id : s.reg[i] # x
    /\ \A i \in 1..Len(Boot) : s.reg[i] \in {None, Boot[i]}

\* A catalog with the tables, the numbers and the rows of SQLite.
Matches(c, s) ==
    /\ Len(Boot) <= Len(c.byID)
    /\ \A i \in Id : s.reg[i] = IF i <= Len(c.byID) THEN c.byID[i] ELSE None
    /\ \A x \in Name, i \in Id : c.byName[x] = i <=> s.reg[i] = x
    /\ \A i \in Id : s.reg[i] # None => c.rows[i] = s.rows[s.reg[i]]

\* The catalog with the CREATE or DROP in progress.
Announced ==
    IF ddl = None THEN cat
    ELSE IF ddl.op = "create" THEN WithTable(cat, ddl.id, ddl.name) ELSE WithoutTable(cat, ddl.name)

\* DDL and writers are of this process, and a table in creation takes the next number.
Ordered ==
    /\ ddl # None => life = "up" /\ ddl.op # "mut" /\ (ddl.op = "create" => ddl.id = Len(cat.byID) + 1)
    /\ \A w \in Writers : wpc[w] # "idle" => life = "up" /\ wid[w] \in Id

\* Draining the log and rebuilding memory from it come to the same: every record
\* finds its table, SQLite will hold what the log stands for, and memory does.
MirrorMeetsMemory ==
    Sound =>
        /\ Consistent(Undrained)
        /\ Drained.ok /\ Drained.rows = truth
        /\ life = "up" => Matches(Announced, Drained) /\ tables = sq.reg

\* Whatever was created, dropped, written, drained and in whatever order the
\* process crashed, a running database shows exactly the tables and rows the
\* log stands for, a bootstrap table coming back empty after its DROP was
\* drained.
TablesFollowLog ==
    life = "up" /\ ddl = None /\ Sound => \A x \in Name : Visible(x) = truth[x]

\* Snapshot, registry and SQLite state are well formed, a running database
\* shows what its log stands for, after any DDL, drain and crash, and so will
\* the mirror.
CatalogInv == TypeOK /\ Ordered /\ MirrorMeetsMemory /\ TablesFollowLog

\* Open fails only after one of three things: a mutation journaled behind its
\* table's DROP, a rolled back drain that changed the registry in memory, or a
\* bootstrap table's name registered twice.
OpenFailsForACause == life = "failed" => ~Sound

\* Once writers and DDL come to rest the mirror catches up with the whole log,
\* unless the process ends or one of the three things has happened: no order of
\* catalog records and mutations makes a segment impossible to drain.
LogIsDrained == next > MaxRec ~> log = <<>> \/ life # "up" \/ ~Sound

=============================================================================
