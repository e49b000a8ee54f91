------------------------------- MODULE Query -------------------------------
(***************************************************************************)
(* One-table statements: the planner (plan.go), the row filters (eval.go,  *)
(* filter.go) and every access path the executors take (exec_select.go,    *)
(* query_stream.go, db_query.go, exec_write.go), over tables whose indexes *)
(* lag behind their rows.                                                  *)
(*                                                                         *)
(* A table is its live rows, the rows as the last merge saw them, from     *)
(* which every index is built, and the keys written since (the dirty       *)
(* lists): SecIndex shows that merging keeps the three related this way,   *)
(* and what a read that overlaps a merge can see.  Here a statement runs   *)
(* between two writes, and the question is whether the path the planner    *)
(* picked gives the answer of a plain scan.                                *)
(*                                                                         *)
(* A statement's answer is the sequence of the primary keys it returns;    *)
(* projection and encoding only copy the rows.  Cells are totally ordered  *)
(* values of one kind or NULL.                                             *)
(***************************************************************************)
EXTENDS CompositeKey, TLC

CONSTANTS
    Tables,
    PKs,        \* PKs[t]: the primary keys rows of t may have
    Vals,       \* the values of the other columns
    NULL,
    Nullable,   \* Nullable[t]: the columns of t declared NULL
    Indexes,    \* Indexes[t]: the secondary indexes of t, in schema order
    Queries,    \* the one-table SELECTs
    Wheres,     \* the WHERE clauses of UPDATEs and DELETEs
    MaxRows,    \* bound on the keys in use, live or remembered by an index
    MaxDirty,       \* bound on the entries of the dirty lists while one table is in use
    MaxJoinDirty,   \* and while both are
    MaxOffers       \* bound on the rows offered to a heap in TopNKeepsBest

VARIABLES
    rows,       \* rows[t]: the live rows, by primary key
    merged,     \* merged[t]: the rows the indexes hold
    dirtyRead,  \* dirtyRead[t]: the keys inserted or updated since, of all shards
    dirtyDel    \* dirtyDel[t]: and the keys deleted

vars == <<rows, merged, dirtyRead, dirtyDel>>

Cols == {"id", "a", "b"}
Cell(t, c) == IF c \in Nullable[t] THEN Vals \cup {NULL} ELSE Vals
Row(t, pk) == [id : {pk}, a : Cell(t, "a"), b : Cell(t, "b")]

ASSUME QueryShape ==
    /\ \A t \in Tables : Nullable[t] \subseteq {"a", "b"} /\ PKs[t] \subseteq Nat
    /\ \A t \in Tables : \A i \in DOMAIN Indexes[t] :
          Len(Indexes[t][i].cols) > 1 => Indexes[t][i].ordered
    /\ NULL \notin Vals

----------------------------------------------------------------------------
(* Expressions.  A node is a column, a value (a bound parameter), a        *)
(* comparison, IS [NOT] NULL, or AND / OR / NOT; NoWhere is an absent      *)
(* WHERE clause.                                                           *)

Col(c) == [op |-> "col", col |-> c]
Val(v) == [op |-> "val", val |-> v]
Node(l, op, r) == [op |-> op, l |-> l, r |-> r]
Not(e) == [op |-> "not", e |-> e]
IsNull(e) == [op |-> "isnull", e |-> e]
NoWhere == [op |-> "none"]

Comparisons == {"=", "!=", "<", "<=", ">", ">="}

\* Value.Equal and Value.Compare: NULL equals NULL and is ordered with nothing.
Equal(x, y) == x = y
Ordered(op, x, y) ==
    /\ x # NULL /\ y # NULL
    /\ \/ op = "<"  /\ x < y
       \/ op = "<=" /\ x <= y
       \/ op = ">"  /\ x > y
       \/ op = ">=" /\ x >= y

Operand(e, row) == IF e.op = "col" THEN row[e.col] ELSE e.val

RECURSIVE evalExpr(_, _)
evalExpr(e, row) ==
    CASE e.op = "none" -> TRUE
      [] e.op = "and" -> evalExpr(e.l, row) /\ evalExpr(e.r, row)
      [] e.op = "or" -> evalExpr(e.l, row) \/ evalExpr(e.r, row)
      [] e.op = "not" -> ~evalExpr(e.e, row)
      [] e.op = "isnull" -> Operand(e.e, row) = NULL
      [] e.op = "=" -> Equal(Operand(e.l, row), Operand(e.r, row))
      [] e.op = "!=" -> ~Equal(Operand(e.l, row), Operand(e.r, row))
      [] OTHER -> Ordered(e.op, Operand(e.l, row), Operand(e.r, row))

\* compileFilter: which expressions compile, and the closure a compiled one is.
RECURSIVE Compiles(_)
Compiles(e) ==
    CASE e.op \in {"and", "or"} -> Compiles(e.l) /\ Compiles(e.r)
      [] e.op = "not" -> Compiles(e.e)
      [] e.op = "isnull" -> e.e.op = "col"
      [] e.op \in Comparisons -> e.l.op = "col" /\ e.r.op = "val"
      [] OTHER -> FALSE

compileEq(c, v) == IF v = NULL THEN Equal(c, v) ELSE c # NULL /\ c = v

\* compileOrd: specialised by kind, and Compare for the rest.
compileOrd(op, c, v) == IF NULL \in {c, v} THEN Ordered(op, c, v)
                        ELSE CASE op = "<" -> c < v [] op = "<=" -> c <= v [] op = ">" -> c > v [] OTHER -> c >= v

RECURSIVE compileFilter(_, _)
compileFilter(e, row) ==
    CASE e.op = "and" -> compileFilter(e.l, row) /\ compileFilter(e.r, row)
      [] e.op = "or" -> compileFilter(e.l, row) \/ compileFilter(e.r, row)
      [] e.op = "not" -> ~compileFilter(e.e, row)
      [] e.op = "isnull" -> row[e.e.col] = NULL
      [] e.op = "=" -> compileEq(row[e.l.col], e.r.val)
      [] e.op = "!=" -> ~compileEq(row[e.l.col], e.r.val)
      [] OTHER -> compileOrd(e.op, row[e.l.col], e.r.val)

rowMatcher(e, row) == IF Compiles(e) THEN compileFilter(e, row) ELSE evalExpr(e, row)
conjunctsMatcher(conj, row) == \A i \in DOMAIN conj : rowMatcher(conj[i], row)

RECURSIVE collectConjuncts(_)
collectConjuncts(e) ==
    CASE e.op = "and" -> collectConjuncts(e.l) \o collectConjuncts(e.r)
      [] e.op = "none" -> << >>
      [] OTHER -> <<e>>

\* col OP value with the value on either side, read with the column on the left.
flipRangeOp(op) ==
    CASE op = "<" -> ">" [] op = "<=" -> ">=" [] op = ">" -> "<" [] op = ">=" -> "<=" [] OTHER -> op
IsColLit(e) == e.op \in Comparisons /\ {e.l.op, e.r.op} = {"col", "val"}
ColOf(e) == IF e.l.op = "col" THEN e.l.col ELSE e.r.col
LitOf(e) == IF e.l.op = "col" THEN e.r.val ELSE e.l.val
OpOf(e) == IF e.l.op = "col" THEN e.op ELSE flipRangeOp(e.op)

IsEq(e) == e.op = "=" /\ IsColLit(e)
\* collectEqConjuncts: the last equality of the AND-chain on each column.
EqCols(conj) == {ColOf(conj[i]) : i \in {j \in DOMAIN conj : IsEq(conj[j])}}
EqAt(conj, c) == CHOOSE i \in DOMAIN conj :
    /\ IsEq(conj[i]) /\ ColOf(conj[i]) = c
    /\ \A j \in DOMAIN conj : IsEq(conj[j]) /\ ColOf(conj[j]) = c => j <= i
Drop(conj, S) == LET keep == SetToSortSeq(DOMAIN conj \ S, <)
                 IN  [i \in DOMAIN keep |-> conj[keep[i]]]

----------------------------------------------------------------------------
(* Indexes: the entries of the last merge.  A row with a NULL component is *)
(* in no index.                                                            *)

Single(t) == {i \in DOMAIN Indexes[t] : Len(Indexes[t][i].cols) = 1}
IndexOn(t, c) == {i \in Single(t) : Indexes[t][i].cols[1] = c}
orderedIndexOn(t, c) == \E i \in IndexOn(t, c) : Indexes[t][i].ordered
anyNullable(t, cols) == \E i \in DOMAIN cols : cols[i] \in Nullable[t]
First(S) == CHOOSE i \in S : \A j \in S : i <= j
Largest(S) == CHOOSE i \in S : \A j \in S : j <= i

IndexKey(cols, row) == [i \in DOMAIN cols |-> row[cols[i]]]
less(k, m) == \E i \in DOMAIN k : /\ \A j \in 1..i - 1 : k[j] = m[j]
                                  /\ k[i] # m[i] /\ NULL \notin {k[i], m[i]} /\ k[i] < m[i]
EntryBefore(x, y) == less(x.key, y.key) \/ (x.key = y.key /\ x.pk < y.pk)

\* A set of keys in ascending order, and their index entries in key order.
KeySeq == [t \in Tables |-> SetToSortSeq(PKs[t], <)]
Ascending(t, S) == SelectSeq(KeySeq[t], LAMBDA pk : pk \in S)
IndexEntries(cols, contents, pks) ==
    SortSeq([i \in DOMAIN pks |-> [key |-> IndexKey(cols, contents[pks[i]]), pk |-> pks[i]]], EntryBefore)

snapshot(t, cols) ==
    IndexEntries(cols, merged[t],
        Ascending(t, {pk \in DOMAIN merged[t] : \A i \in DOMAIN cols : merged[t][pk][cols[i]] # NULL}))
snapshotPrefix(t, cols, prefix) ==
    SelectSeq(snapshot(t, cols), LAMBDA e : \A i \in DOMAIN prefix : e.key[i] = prefix[i])
PKsOf(snap) == [i \in DOMAIN snap |-> snap[i].pk]
lookup(t, c, v) == Ascending(t, {pk \in DOMAIN merged[t] : merged[t][pk][c] = v})
\* The read overlay: deletions are not in it, nor keys inserted and deleted again.
Overlay(t) == dirtyRead[t] \cap DOMAIN rows[t]
dirtyPKs(t) == Ascending(t, Overlay(t))

----------------------------------------------------------------------------
(* The planner.  A query is [where, order, desc, limit, offset]; order is  *)
(* "" for none and limit -1 for none.                                      *)

compositePrefix(t, ix, eqs) ==
    IF Len(ix.cols) < 2 \/ ~ix.ordered \/ anyNullable(t, ix.cols) THEN 0
    ELSE Largest({0} \cup {k \in DOMAIN ix.cols : \A j \in 1..k : ix.cols[j] \in eqs})

NoPath == [pkLookup |-> FALSE, key |-> NULL, idx |-> << >>, exact |-> FALSE,
           comp |-> << >>, prefix |-> << >>, walk |-> FALSE, compLookup |-> FALSE,
           residual |-> << >>, orderWalk |-> FALSE, pkProbe |-> FALSE, count |-> FALSE]

\* planCompositeWalk: the first composite index whose pinned prefix is followed by
\* the ORDER BY column; the exact pins leave the residual.
compositeWalk(t, conj, order) ==
    {i \in DOMAIN Indexes[t] :
        LET k == compositePrefix(t, Indexes[t][i], EqCols(conj))
        IN  k > 0 /\ k < Len(Indexes[t][i].cols) /\ Indexes[t][i].cols[k + 1] = order}
compositeLookup(t, conj) ==
    {i \in DOMAIN Indexes[t] : compositePrefix(t, Indexes[t][i], EqCols(conj)) > 0}
idxCols(t, conj) ==
    LET S == {i \in Single(t) : Indexes[t][i].cols[1] \in EqCols(conj)}
        s == SetToSortSeq(S, <)
    IN  [i \in DOMAIN s |-> LET c == Indexes[t][s[i]].cols[1]
                            IN  [col |-> c, val |-> LitOf(conj[EqAt(conj, c)])]]

Prefix(t, i, conj) ==
    LET cols == Indexes[t][i].cols
    IN  [j \in 1..compositePrefix(t, Indexes[t][i], EqCols(conj)) |-> LitOf(conj[EqAt(conj, cols[j])])]

\* The three indexed paths of a SELECT with a WHERE: the composite index i as a row
\* source, as an ordered walk, and the equalities on single columns.
CompositePath(t, i, conj) == [NoPath EXCEPT !.comp = Indexes[t][i].cols, !.prefix = Prefix(t, i, conj)]
WalkPath(t, i, conj) ==
    [CompositePath(t, i, conj) EXCEPT !.walk = TRUE,
        !.residual = Drop(conj, {EqAt(conj, Indexes[t][i].cols[j]) : j \in DOMAIN Prefix(t, i, conj)})]
EqPath(q, conj, eqs) == [NoPath EXCEPT !.idx = eqs, !.exact = Len(conj) = Len(eqs),
                                       !.count = Len(eqs) = 1 /\ q.where.op = "="]

\* The index selection: walk, then single-column equalities, then a composite prefix.
IndexPath(t, q, conj) ==
    LET walks == compositeWalk(t, conj, q.order)
        lookups == compositeLookup(t, conj)
    IN  IF walks # {} THEN WalkPath(t, First(walks), conj)
        ELSE IF idxCols(t, conj) # << >> THEN EqPath(q, conj, idxCols(t, conj))
        ELSE IF lookups # {} THEN [CompositePath(t, First(lookups), conj) EXCEPT !.compLookup = TRUE]
        ELSE NoPath

detectPKEq(w) == IsEq(w) /\ ColOf(w) = "id"

\* planPKProbe, after every other path.
planPKProbe(p, conj) ==
    IF \/ conj = << >> \/ p.pkLookup \/ p.idx # << >> \/ p.compLookup \/ p.walk \/ p.orderWalk
       \/ "id" \notin EqCols(conj)
    THEN p
    ELSE [p EXCEPT !.pkProbe = TRUE, !.key = LitOf(conj[EqAt(conj, "id")])]

orderWalks(t, q, p) ==
    /\ q.order # "" /\ p.idx = << >> /\ ~p.compLookup /\ ~p.walk
    /\ orderedIndexOn(t, q.order) /\ q.order \notin Nullable[t]

planOrderWalk(t, q, p, conj) ==
    IF orderWalks(t, q, p) THEN [p EXCEPT !.orderWalk = TRUE, !.residual = conj] ELSE p

planSelect(t, q) ==
    LET conj == collectConjuncts(q.where)
        p == IF detectPKEq(q.where) THEN [NoPath EXCEPT !.pkLookup = TRUE, !.key = LitOf(q.where)]
             ELSE IF conj # << >> /\ Indexes[t] # << >> THEN IndexPath(t, q, conj)
             ELSE NoPath
    IN  planPKProbe(planOrderWalk(t, q, p, conj), conj)

\* UPDATE and DELETE: planIndexEq and planPKProbe.
planWrite(t, w) ==
    LET conj == collectConjuncts(w)
    IN  IF detectPKEq(w) THEN [NoPath EXCEPT !.pkLookup = TRUE, !.key = LitOf(w)]
        ELSE planPKProbe([NoPath EXCEPT !.idx = idxCols(t, conj)], conj)

Plans == [t \in Tables |-> [q \in Queries[t] |-> planSelect(t, q)]]
WritePlans == [t \in Tables |-> [w \in Wheres[t] |-> planWrite(t, w)]]

----------------------------------------------------------------------------
(* The pieces the executors share. *)

Live(t, pk) == pk \in DOMAIN rows[t]
LiveSeq(t) == Ascending(t, DOMAIN rows[t])
Matching(t, w, pks) == SelectSeq(pks, LAMBDA pk : Live(t, pk) /\ rowMatcher(w, rows[t][pk]))

fetchBound(q) == IF q.limit < 0 THEN -1 ELSE q.limit + q.offset
\* An executor that stops once it holds fetchBound rows.
StopAt(s, eff) == IF eff < 0 \/ Len(s) <= eff THEN s ELSE SubSeq(s, 1, eff)

sliceOffsetLimit(s, q) ==
    LET rest == SubSeq(s, q.offset + 1, Len(s))
    IN  IF q.limit >= 0 /\ q.limit < Len(rest) THEN SubSeq(rest, 1, q.limit) ELSE rest

\* idxCandidateSet.emit: the index hits, then the overlay, each key once.
emit(pks, over) == pks \o SelectSeq(over, LAMBDA pk : pk \notin ToSet(pks))

\* topN: a heap of at most cap entries [key, pk] with the most evictable at the
\* root.  NULL is neither better nor worse than anything.
evictable(desc, x, y) == x # NULL /\ y # NULL /\ IF desc THEN x < y ELSE x > y
Swap(h, i, j) == [h EXCEPT ![i] = h[j], ![j] = h[i]]

RECURSIVE siftUp(_, _, _)
siftUp(h, i, desc) ==
    IF i > 1 /\ evictable(desc, h[i].key, h[i \div 2].key)
    THEN siftUp(Swap(h, i, i \div 2), i \div 2, desc) ELSE h

\* Mutant of siftDown: only the left child is looked at.
RECURSIVE siftDownLeft(_, _, _)
siftDownLeft(h, i, desc) ==
    IF 2 * i <= Len(h) /\ evictable(desc, h[2 * i].key, h[i].key)
    THEN siftDownLeft(Swap(h, i, 2 * i), 2 * i, desc) ELSE h

RECURSIVE siftDown(_, _, _)
siftDown(h, i, desc) ==
    LET n == Len(h)
        l == IF 2 * i <= n /\ evictable(desc, h[2 * i].key, h[i].key) THEN 2 * i ELSE i
        w == IF 2 * i + 1 <= n /\ evictable(desc, h[2 * i + 1].key, h[l].key) THEN 2 * i + 1 ELSE l
    IN  IF w = i THEN h ELSE siftDown(Swap(h, i, w), w, desc)

offer(h, e, cap, desc) ==
    IF Len(h) < cap THEN siftUp(Append(h, e), Len(h) + 1, desc)
    ELSE IF evictable(desc, h[1].key, e.key) THEN siftDown([h EXCEPT ![1] = e], 1, desc) ELSE h

topN(entries, cap, desc) == FoldLeft(LAMBDA h, e : offer(h, e, cap, desc), << >>, entries)

\* topN.sorted and sortRowsByCol: an unstable sort; ties and NULLs fall anywhere.
sorted(h, desc) == SortSeq(h, LAMBDA x, y : evictable(desc, y.key, x.key))

\* ORDER BY over candidates in arrival order: the best fetchBound of them, or all.
OrderBy(entries, q) ==
    LET h == IF q.limit < 0 THEN entries ELSE topN(entries, fetchBound(q), q.desc)
    IN  sliceOffsetLimit(PKsOf(sorted(h, q.desc)), q)
Entries(t, pks, order) == [i \in DOMAIN pks |-> [key |-> rows[t][pks[i]][order], pk |-> pks[i]]]

----------------------------------------------------------------------------
(* Ordered walks: the index in key order merged with the dirty rows. *)

\* mergeOrderedStreams on two streams already in the requested order; a dirty row
\* goes first only when it is strictly before the index entry.
RECURSIVE mergeStreams(_, _, _)
mergeStreams(snap, dc, desc) ==
    IF snap = << >> THEN dc
    ELSE IF dc = << >> THEN snap
    ELSE IF IF desc THEN less(Head(snap).key, Head(dc).key) ELSE less(Head(dc).key, Head(snap).key)
    THEN <<Head(dc)>> \o mergeStreams(snap, Tail(dc), desc)
    ELSE <<Head(snap)>> \o mergeStreams(Tail(snap), dc, desc)

\* Mutant of mergeOrderedStreams: stale index entries are not shadowed.
mergeUnshadowed(t, snap, dc, desc) ==
    IF desc THEN mergeStreams(Reverse(snap), Reverse(dc), desc) ELSE mergeStreams(snap, dc, desc)

mergeOrderedStreams(t, snap, dc, desc) ==
    LET fresh == SelectSeq(snap, LAMBDA e : e.pk \notin Overlay(t))
    IN  IF desc THEN mergeStreams(Reverse(fresh), Reverse(dc), desc) ELSE mergeStreams(fresh, dc, desc)

\* buildDirtyCands: the dirty live rows in `match`, sorted by their key.
buildDirtyCands(t, match, cols) ==
    IndexEntries(cols, rows[t], Ascending(t, match \cap Overlay(t)))

\* seekOrderedSnap: the window the first lower and the first upper bound on the
\* ORDER BY column leave.
Bounds(conj, c, ops) == {i \in DOMAIN conj : IsColLit(conj[i]) /\ ColOf(conj[i]) = c /\ OpOf(conj[i]) \in ops}
InBound(conj, B, v) ==
    B = {} \/ LET e == conj[First(B)] IN LitOf(e) = NULL \/ Ordered(OpOf(e), v, LitOf(e))

seekOrderedSnap(snap, conj, c) ==
    SelectSeq(snap, LAMBDA e : /\ InBound(conj, Bounds(conj, c, {">", ">="}), e.key[1])
                               /\ InBound(conj, Bounds(conj, c, {"<", "<="}), e.key[1]))

\* The rows an ordered walk keeps: dirty ones passed the full WHERE already,
\* index ones are checked against the residual.
orderedWalk(t, q, snap, cols, residual) ==
    LET full == {pk \in DOMAIN rows[t] : rowMatcher(q.where, rows[t][pk])}
        walk == mergeOrderedStreams(t, snap, buildDirtyCands(t, full, cols), q.desc)
    IN  SelectSeq(PKsOf(walk), LAMBDA pk : Live(t, pk) /\ (pk \in Overlay(t) \/ conjunctsMatcher(residual, rows[t][pk])))

compositeWalkRows(t, q, p) ==
    IF NULL \in ToSet(p.prefix) THEN << >>
    ELSE orderedWalk(t, q, snapshotPrefix(t, p.comp, p.prefix), p.comp, p.residual)
orderWalkRows(t, q, p) ==
    orderedWalk(t, q, seekOrderedSnap(snapshot(t, <<q.order>>), p.residual, q.order), <<q.order>>, p.residual)

----------------------------------------------------------------------------
(* SELECT: the materialising, the streaming and the one-row executors.     *)

\* The intersection of the first k buckets of an indexed lookup.
Buckets(t, p, k) == {pk \in DOMAIN merged[t] : \A i \in 1..k : merged[t][pk][p.idx[i].col] = p.idx[i].val}

\* idxCandidates: a NULL key ends the lookup unless an earlier intersection was empty.
idxCandidates(t, p) ==
    IF \E k \in DOMAIN p.idx : p.idx[k].val = NULL /\ (k = 1 \/ Buckets(t, p, k - 1) # {}) THEN << >>
    ELSE emit(Ascending(t, Buckets(t, p, Len(p.idx))), dirtyPKs(t))

compositeCandidates(t, p) ==
    IF NULL \in ToSet(p.prefix) THEN << >>
    ELSE emit(PKsOf(snapshotPrefix(t, p.comp, p.prefix)), dirtyPKs(t))

\* execCandidates: the WHERE is checked again unless the index answers it exactly
\* and nothing is dirty.
execCandidates(t, q, exact, cand) ==
    LET hits == IF exact /\ Overlay(t) = {} THEN SelectSeq(cand, LAMBDA pk : Live(t, pk))
                ELSE Matching(t, q.where, cand)
    IN  IF q.order # "" THEN OrderBy(Entries(t, Matching(t, q.where, cand), q.order), q)
        ELSE sliceOffsetLimit(StopAt(hits, fetchBound(q)), q)

\* The point-read fast path of an exact lookup: nothing dirty, at most one hit.
PointRead(t, q, p) ==
    /\ p.exact /\ q.order = "" /\ Len(p.idx) = 1 /\ dirtyRead[t] = {}
    /\ p.idx[1].val = NULL \/ Cardinality(Buckets(t, p, 1)) <= 1
PointHit(t, p) == IF p.idx[1].val = NULL THEN << >>
                  ELSE SelectSeq(lookup(t, p.idx[1].col, p.idx[1].val), LAMBDA pk : Live(t, pk))

execSelectIdx(t, q, p) ==
    IF q.limit = 0 \/ (PointRead(t, q, p) /\ q.offset > 0) THEN << >>
    ELSE IF PointRead(t, q, p) THEN PointHit(t, p)
    ELSE execCandidates(t, q, p.exact, idxCandidates(t, p))

\* execSelectPK and execSelectPKResidual: at most one row, so LIMIT 0 and any
\* OFFSET drop it.
execSelectPK(t, q, p) ==
    IF p.key = NULL \/ q.limit = 0 \/ q.offset > 0 \/ ~Live(t, p.key) THEN << >> ELSE <<p.key>>
execSelectPKResidual(t, q, p) == Matching(t, q.where, execSelectPK(t, q, p))

Windowed(q, s) == IF q.limit = 0 THEN << >> ELSE sliceOffsetLimit(StopAt(s, fetchBound(q)), q)

execScan(t, q) ==
    LET hits == Matching(t, q.where, LiveSeq(t))
    IN  IF q.limit = 0 THEN << >>
        ELSE IF q.order # "" THEN OrderBy(Entries(t, hits, q.order), q) ELSE Windowed(q, hits)

execSelect(t, q, p) ==
    IF p.pkLookup THEN execSelectPK(t, q, p)
    ELSE IF p.idx # << >> THEN execSelectIdx(t, q, p)
    ELSE IF p.walk THEN Windowed(q, compositeWalkRows(t, q, p))
    ELSE IF p.compLookup THEN IF q.limit = 0 THEN << >>
                              ELSE execCandidates(t, q, FALSE, compositeCandidates(t, p))
    ELSE IF p.orderWalk THEN Windowed(q, orderWalkRows(t, q, p))
    ELSE IF p.pkProbe THEN execSelectPKResidual(t, q, p)
    ELSE execScan(t, q)

\* Mutant of deliver: the skipped rows count towards the LIMIT.
deliverCountsSkipped(q, s) ==
    IF q.limit = 0 THEN << >>
    ELSE SubSeq(s, q.offset + 1, IF q.limit < 0 \/ Len(s) < q.limit THEN Len(s) ELSE q.limit)

\* A streaming executor skips OFFSET rows and stops after LIMIT.
deliver(q, s) ==
    IF q.limit = 0 THEN << >>
    ELSE SubSeq(s, q.offset + 1, IF q.limit < 0 \/ Len(s) < q.offset + q.limit THEN Len(s) ELSE q.offset + q.limit)

\* streamSelect; rs is execSelect's answer, to which it and the next two may fall back.
streamSelect(t, q, p, rs) ==
    IF p.walk THEN deliver(q, compositeWalkRows(t, q, p))
    ELSE IF p.orderWalk THEN deliver(q, orderWalkRows(t, q, p))
    ELSE IF q.order # "" \/ p.pkLookup THEN rs
    ELSE IF q.limit = 0 THEN << >>
    ELSE deliver(q, Matching(t, q.where,
             IF p.idx # << >> THEN idxCandidates(t, p)
             ELSE IF p.compLookup THEN compositeCandidates(t, p)
             ELSE IF p.pkProbe THEN SelectSeq(<<p.key>>, LAMBDA pk : pk # NULL)
             ELSE LiveSeq(t)))

\* execSelectIdxOne, execSelectPKOne and queryRowPlanV: the first row, if any.
queryRow(t, q, p, rs) == StopAt(
    IF p.pkLookup THEN execSelectPK(t, q, p)
    ELSE IF p.idx = << >> \/ q.order # "" \/ q.offset # 0 THEN rs
    ELSE IF q.limit = 0 THEN << >>
    ELSE IF PointRead(t, q, p) THEN PointHit(t, p)
    ELSE Matching(t, q.where, idxCandidates(t, p)), 1)

\* countRows: the bucket of the last merge when the WHERE is one indexed equality.
countRows(t, q, p, rs) ==
    IF p.pkLookup THEN Len(execSelectPK(t, q, p))
    ELSE IF p.count THEN IF p.idx[1].val = NULL THEN 0 ELSE Cardinality(Buckets(t, p, 1))
    ELSE Len(streamSelect(t, q, p, rs))

----------------------------------------------------------------------------
(* UPDATE and DELETE: the rows a statement changes. *)

\* The counter counts a key once per write, so it may be above the keys it stands for:
\* whether the overlay is too dense to use is known only when they outnumber the rows.
dirtyTooDenseForScan(t) ==
    IF dirtyRead[t] = {} THEN {FALSE}
    ELSE IF Cardinality(dirtyRead[t]) >= Cardinality(DOMAIN rows[t]) THEN {TRUE} ELSE BOOLEAN

\* Every candidate's WHERE is checked again under its shard's lock.
ByCandidates(t, w, pks) == {pk \in ToSet(pks) : Live(t, pk) /\ evalExpr(w, rows[t][pk])}

\* Mutant of IndexTargets: an index hit is written without the WHERE check.
IndexTargetsUnchecked(t, w, p) == {pk \in ToSet(idxCandidates(t, p)) : Live(t, pk)}

\* Through an index; a lone hit with nothing dirty takes a path of its own.
IndexTargets(t, w, p) ==
    LET lone == /\ Len(p.idx) = 1 /\ dirtyRead[t] = {}
                /\ p.idx[1].val = NULL \/ Cardinality(Buckets(t, p, 1)) <= 1
    IN  ByCandidates(t, w, IF lone THEN PointHit(t, p) ELSE idxCandidates(t, p))

\* The rows an UPDATE or DELETE changes, given what dirtyTooDenseForScan says.
WriteTargets(t, w, dense) ==
    LET p == WritePlans[t][w]
    IN  IF p.pkLookup THEN {p.key} \cap DOMAIN rows[t]
        ELSE IF p.idx # << >> /\ ~dense THEN IndexTargets(t, w, p)
        ELSE IF p.pkProbe THEN ByCandidates(t, w, SelectSeq(<<p.key>>, LAMBDA pk : pk # NULL))
        ELSE ToSet(Matching(t, w, LiveSeq(t)))

----------------------------------------------------------------------------
(* Writes and merges. *)

InUse == {<<t, pk>> \in UNION {{t} \X PKs[t] : t \in Tables} : pk \in DOMAIN rows[t] \cup DOMAIN merged[t]}
Pending == {<<l, t, pk>> \in UNION {{"read", "del"} \X {t} \X PKs[t] : t \in Tables} :
              pk \in IF l = "read" THEN dirtyRead[t] ELSE dirtyDel[t]}

Alone(t) == \A u \in Tables \ {t} : rows[u] = << >> /\ merged[u] = << >> /\ dirtyRead[u] \cup dirtyDel[u] = {}
Room(t, list, pk) ==
    /\ Cardinality(InUse \cup {<<t, pk>>}) <= MaxRows
    /\ Cardinality(Pending \cup {<<list, t, pk>>}) <= IF Alone(t) THEN MaxDirty ELSE MaxJoinDirty

\* INSERT and UPDATE; every column but the primary key is indexed, so an update
\* always marks its row.
Put(t, pk, row) ==
    /\ Room(t, "read", pk)
    /\ rows' = [rows EXCEPT ![t] = [k \in DOMAIN @ \cup {pk} |-> IF k = pk THEN row ELSE @[k]]]
    /\ dirtyRead' = [dirtyRead EXCEPT ![t] = @ \cup {pk}]
    /\ UNCHANGED <<merged, dirtyDel>>

Delete(t, pk) ==
    /\ Live(t, pk) /\ Room(t, "del", pk)
    /\ rows' = [rows EXCEPT ![t] = [k \in DOMAIN @ \ {pk} |-> @[k]]]
    /\ dirtyDel' = [dirtyDel EXCEPT ![t] = @ \cup {pk}]
    /\ UNCHANGED <<merged, dirtyRead>>

\* mergeIndexes, between two statements.
Merge(t) ==
    /\ dirtyRead[t] \cup dirtyDel[t] # {}
    /\ merged' = [merged EXCEPT ![t] = rows[t]]
    /\ dirtyRead' = [dirtyRead EXCEPT ![t] = {}]
    /\ dirtyDel' = [dirtyDel EXCEPT ![t] = {}]
    /\ UNCHANGED rows

Init == /\ rows = [t \in Tables |-> << >>]
        /\ merged = rows
        /\ dirtyRead = [t \in Tables |-> {}]
        /\ dirtyDel = dirtyRead
Next == \E t \in Tables : \/ \E pk \in PKs[t] : \/ \E row \in Row(t, pk) : Put(t, pk, row)
                                              \/ Delete(t, pk)
                          \/ Merge(t)
Spec == Init /\ [][Next]_vars

----------------------------------------------------------------------------
(* What a statement must answer.  It reads one table, so the states in     *)
(* which the other tables are empty show all there is to see.              *)

\* `s` is a window of the set `found` as LIMIT and OFFSET cut it, and, when no sort
\* key is NULL, in the order of the keys.
RightWindow(s, found, q, byKey, KeyOf(_)) ==
    LET n == Cardinality(found) - q.offset
        len == IF n < 0 THEN 0 ELSE IF q.limit >= 0 /\ q.limit < n THEN q.limit ELSE n
        rank(x) == Cardinality({y \in found : evictable(q.desc, KeyOf(x), KeyOf(y))})
        ties(x) == Cardinality({y \in found : KeyOf(y) = KeyOf(x)})
    IN  /\ Len(s) = len /\ ToSet(s) \subseteq found /\ Cardinality(ToSet(s)) = len
        /\ (byKey /\ \A x \in found : KeyOf(x) # NULL) =>
              \A i \in DOMAIN s : rank(s[i]) < q.offset + i /\ q.offset + i <= rank(s[i]) + ties(s[i])

Found(t, w) == {pk \in DOMAIN rows[t] : evalExpr(w, rows[t][pk])}
RightAnswer(t, q, s) == RightWindow(s, Found(t, q.where), q, q.order # "", LAMBDA pk : rows[t][pk][q.order])

\* The statement compares an indexed column with NULL: evalExpr finds NULL equal to
\* NULL, a lookup finds nothing.
NullPin(p) == (\E i \in DOMAIN p.idx : p.idx[i].val = NULL) \/ NULL \in ToSet(p.prefix)

\* Whatever path the planner picked (point read, bucket intersection, composite
\* prefix, ordered walk, key probe, scan, heap or sort), a SELECT returns the rows
\* a plain scan with the interpreted WHERE finds, cut to the window and in order.
SelectIsScan ==
    \A t \in Tables : Alone(t) => \A q \in Queries[t] :
        NullPin(Plans[t][q]) \/ RightAnswer(t, q, execSelect(t, q, Plans[t][q]))

\* The heap keeps the best `cap` of the keys offered to it, in any order of arrival
\* and with any ties: as many of each key as a full sort would leave in the window.
\* It is about topN alone, so it is asked once, of the empty database.
TopNKeepsBest == InUse = {} =>
    \A n \in 0..MaxOffers : \A keys \in [1..n -> 1..3] : \A cap \in 1..4, desc \in BOOLEAN :
        LET h == topN([i \in 1..n |-> [key |-> keys[i], pk |-> i]], cap, desc)
            best == SubSeq(SortSeq(keys, LAMBDA x, y : IF desc THEN x > y ELSE x < y), 1, IF n < cap THEN n ELSE cap)
        IN  /\ PKsOf(h) \in Seq(1..n) /\ IsInjective(PKsOf(h))
            /\ [i \in DOMAIN h |-> sorted(h, desc)[i].key] = best

\* Index keys may be taken for tuples of cells: their encodings sort like the tuples,
\* and a prefix search finds its columns' rows.  About CompositeKey alone, asked once.
KeysAreTuples == InUse = {} => KeysSortLikeTuples

\* What the other executors may answer when execSelect answers `rs`.
Agree(t, q, p, rs) ==
    LET lag == Cardinality(dirtyRead[t] \cup dirtyDel[t])
    IN  /\ streamSelect(t, q, p, rs) = rs
        /\ queryRow(t, q, p, rs) = StopAt(rs, 1)
        /\ q.order = "" /\ q.limit < 0 /\ q.offset = 0 =>
              countRows(t, q, p, rs) - Len(rs) \in IF p.count THEN -lag..lag ELSE {0}

\* The executors agree on every statement.  "streamSelect ... honoring WHERE /
\* projection / ORDER BY / LIMIT exactly like execSelect" (query_stream.go): the same
\* rows in the same order.  QueryRow returns the first of them, and nothing only when
\* there is none.  COUNT(*) counts them; only the bucket count of a single indexed
\* equality may lag, and by no more than the dirty keys.
ExecutorsAgree ==
    \A t \in Tables : Alone(t) => \A q \in Queries[t] :
        Agree(t, q, Plans[t][q], execSelect(t, q, Plans[t][q]))

\* An UPDATE or DELETE changes exactly the rows its WHERE holds for, whether they
\* came from an index, the key or a scan.
WritesHitWhere ==
    \A t \in Tables : Alone(t) => \A w \in Wheres[t] :
        NullPin(WritePlans[t][w]) \/ \A dense \in dirtyTooDenseForScan(t) : WriteTargets(t, w, dense) = Found(t, w)
=============================================================================
