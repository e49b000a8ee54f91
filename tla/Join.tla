-------------------------------- MODULE Join --------------------------------
(***************************************************************************)
(* Two-table joins (join.go): which side drives, how the driver is fetched *)
(* and in which order, and the indexed nested loop over the tables of      *)
(* Query.  A joined row is a pair of primary keys, None for the side an    *)
(* outer join pads; its cells are addressed by <<table, column>>, the      *)
(* global ordinal of the concatenated row.                                 *)
(*                                                                         *)
(* The executor reads driver and probe without a common lock; like Query,  *)
(* the module asks for the answer of a join that no write overlaps.        *)
(***************************************************************************)
EXTENDS Query

CONSTANTS
    Left, Right,    \* the two tables, in FROM order
    Joins,          \* the joins: [typ, on, where, order, desc, limit, offset]
    None            \* the padded side of an outer join

Sides == {Left, Right}
Other(d) == IF d = Left THEN Right ELSE Left
GlobalCols == Sides \X Cols
NoCol == <<"", "">>

\* fillConcat.
Concat(pair) ==
    [g \in GlobalCols |-> LET pk == IF g[1] = Left THEN pair[1] ELSE pair[2]
                          IN  IF pk = None THEN NULL ELSE rows[g[1]][pk][g[2]]]
\* One side's row alone in the full-width scratch, as passDriver sees it.
Scratch(d, pk) == Concat(IF d = Left THEN <<pk, None>> ELSE <<None, pk>>)

----------------------------------------------------------------------------
(* planJoin. *)

RECURSIVE Refs(_)
Refs(e) == CASE e.op \in {"and", "or"} \cup Comparisons -> Refs(e.l) \cup Refs(e.r)
             [] e.op \in {"not", "isnull"} -> Refs(e.e)
             [] e.op = "col" -> {e.col}
             [] OTHER -> {}
exprOrdsWithin(e, d) == Refs(e) # {} /\ \A g \in Refs(e) : g[1] = d

OnOf(j, d) == IF d = Left THEN j.on[1] ELSE j.on[2]
\* probeIndexFor: the first index whose leading column is c, composites included.
Leading(t, c) == {i \in DOMAIN Indexes[t] : Indexes[t][i].cols[1] = c}
Indexed(j, d) == OnOf(j, d) = "id" \/ Leading(d, OnOf(j, d)) # {}

\* The sides that may drive; none means the join is refused as unindexed.  With two
\* secondary indexes the smaller table drives, as counted when the plan was made.
Drivers(j) ==
    LET conj == collectConjuncts(j.where)
        has(d) == \E i \in DOMAIN conj : exprOrdsWithin(conj[i], d)
    IN  IF j.typ = "left" THEN {d \in {Left} : Indexed(j, Right)}
        ELSE IF j.typ = "right" THEN {d \in {Right} : Indexed(j, Left)}
        ELSE IF has(Left) /\ ~has(Right) /\ Indexed(j, Right) THEN {Left}
        ELSE IF has(Right) /\ ~has(Left) /\ Indexed(j, Left) THEN {Right}
        ELSE IF OnOf(j, Right) = "id" THEN {Left}
        ELSE IF OnOf(j, Left) = "id" THEN {Right}
        ELSE {d \in Sides : Indexed(j, Other(d))}

\* The driver conjuncts, by position, and the equality that fetches the driver: the
\* first one on its primary key, else the first on a leading index column.
DriverConj(conj, d) == {i \in DOMAIN conj : exprOrdsWithin(conj[i], d)}
DriverEqs(conj, d) == {i \in DriverConj(conj, d) : IsEq(conj[i])}
FetchConj(conj, d) ==
    LET byPK == {i \in DriverEqs(conj, d) : ColOf(conj[i])[2] = "id"}
        byIdx == {i \in DriverEqs(conj, d) : Leading(d, ColOf(conj[i])[2]) # {}}
    IN  IF byPK # {} THEN {First(byPK)} ELSE IF byIdx # {} THEN {First(byIdx)} ELSE {}

\* planProbeWalk: a composite (join key, ORDER BY) index of the probe.
probeWalks(j, p) ==
    j.typ = "inner" /\ j.order # NoCol /\ j.order[1] = p /\
    \E i \in DOMAIN Indexes[p] : LET cols == Indexes[p][i].cols
                                 IN  /\ Len(cols) > 1 /\ ~anyNullable(p, cols)
                                     /\ cols[1] = OnOf(j, p) /\ cols[2] = j.order[2]

\* planDriverCompWalk: the equalities pin a prefix of a composite index and the
\* ORDER BY column follows it.
compWalks(j, d, conj) ==
    LET eqs == {ColOf(conj[i])[2] : i \in DriverEqs(conj, d)}
    IN  {i \in DOMAIN Indexes[d] :
            LET k == compositePrefix(d, Indexes[d][i], eqs)
            IN  k > 0 /\ k < Len(Indexes[d][i].cols) /\ Indexes[d][i].cols[k + 1] = j.order[2]}

\* How the driver is read: the whole plan but for the residual.
NoDriver == [way |-> "scan", key |-> NULL, col |-> "", cols |-> << >>, prefix |-> << >>, preds |-> << >>]

planDriver(j, d, conj) ==
    LET own == DriverConj(conj, d)
        fetch == FetchConj(conj, d)
        onDriver == j.order # NoCol /\ j.order[1] = d
        comp == compWalks(j, d, conj)
        byPK == fetch # {} /\ ColOf(conj[First(fetch)])[2] = "id"
        plan == [NoDriver EXCEPT !.preds = Drop(conj, DOMAIN conj \ (own \ fetch))]
        ix == Indexes[d][First(comp)].cols
        k == compositePrefix(d, Indexes[d][First(comp)], {ColOf(conj[i])[2] : i \in DriverEqs(conj, d)})
        pins == {i \in DriverEqs(conj, d) : \E m \in 1..k : ix[m] = ColOf(conj[i])[2]}
    IN  IF onDriver /\ fetch = {} /\ orderedIndexOn(d, j.order[2])
        THEN [plan EXCEPT !.way = "walk", !.cols = <<j.order[2]>>]
        ELSE IF onDriver /\ ~byPK /\ comp # {}
        THEN [plan EXCEPT !.way = "prefix", !.cols = ix,
                 !.prefix = [m \in 1..k |-> LitOf(conj[EqAt(conj, <<d, ix[m]>>)])],
                 !.preds = Drop(conj, DOMAIN conj \ (own \ pins))]
        ELSE IF fetch # {}
        THEN [plan EXCEPT !.way = "fetch", !.col = ColOf(conj[First(fetch)])[2], !.key = LitOf(conj[First(fetch)])]
        ELSE plan

planJoin(j, d) ==
    LET conj == collectConjuncts(j.where)
    IN  [driver |-> planDriver(j, d, conj), probeWalk |-> probeWalks(j, Other(d)),
         residual |-> Drop(conj, DriverConj(conj, d))]

JoinPlans == [j \in Joins |-> [d \in Sides |-> planJoin(j, d)]]

----------------------------------------------------------------------------
(* execJoin. *)

\* probeRows: by primary key, or bucket and overlay with the key checked again.
probeRows(t, c, key) ==
    IF key = NULL THEN << >>
    ELSE IF c = "id" THEN SelectSeq(<<key>>, LAMBDA pk : Live(t, pk))
    ELSE SelectSeq(emit(PKsOf(snapshotPrefix(t, Indexes[t][First(Leading(t, c))].cols, <<key>>)), dirtyPKs(t)),
                   LAMBDA pk : Live(t, pk) /\ Equal(rows[t][pk][c], key))

PassDriver(plan, d) == {pk \in DOMAIN rows[d] : conjunctsMatcher(plan.driver.preds, Scratch(d, pk))}
Pair(d, x, y) == IF d = Left THEN <<x, y>> ELSE <<y, x>>

\* probeAndEmit: the matches of one driver row, or the padded row of an outer join.
Probed(j, d, x) ==
    LET p == Other(d)
        hits == probeRows(p, OnOf(j, p), rows[d][x][OnOf(j, d)])
    IN  IF hits # << >> THEN [i \in DOMAIN hits |-> Pair(d, x, hits[i])]
        ELSE IF j.typ # "inner" THEN <<Pair(d, x, None)>> ELSE << >>

Residual(plan, pairs) == SelectSeq(pairs, LAMBDA pair : conjunctsMatcher(plan.residual, Concat(pair)))
ProbeAll(j, d, plan, xs) == Residual(plan, FlattenSeq([i \in DOMAIN xs |-> Probed(j, d, xs[i])]))

\* The single-driver probe walk: the probe's rows of one key in ORDER BY order.
probeWalkRows(j, d, plan, x) ==
    LET p == Other(d)
        key == rows[d][x][OnOf(j, d)]
        cols == <<OnOf(j, p), j.order[2]>>
        match == {y \in DOMAIN rows[p] : Equal(rows[p][y][OnOf(j, p)], key)}
        ys == PKsOf(mergeOrderedStreams(p, snapshotPrefix(p, cols, <<key>>), buildDirtyCands(p, match, cols), j.desc))
        live == SelectSeq(ys, LAMBDA y : Live(p, y))
    IN  IF key = NULL THEN << >> ELSE Residual(plan, [i \in DOMAIN live |-> Pair(d, x, live[i])])

\* Mutant of walkDrivers: rows of the overlay are not checked at all.
walkDriversUnchecked(j, d, plan) ==
    LET w == plan.driver
        snap == IF w.way = "walk" THEN snapshot(d, w.cols) ELSE snapshotPrefix(d, w.cols, w.prefix)
        walk == mergeOrderedStreams(d, snap, buildDirtyCands(d, DOMAIN rows[d], w.cols), j.desc)
        ok == PassDriver(plan, d) \cup Overlay(d)
    IN  SelectSeq(PKsOf(walk), LAMBDA pk : pk \in ok /\ Live(d, pk))

\* The driver rows of an ordered walk.  Index rows and dirty rows alike are checked
\* against driverPreds, from which a prefix walk has dropped the pinned equalities.
walkDrivers(j, d, plan) ==
    LET w == plan.driver
        pass == PassDriver(plan, d)
        snap == IF w.way = "walk" THEN snapshot(d, w.cols) ELSE snapshotPrefix(d, w.cols, w.prefix)
        walk == mergeOrderedStreams(d, snap, buildDirtyCands(d, pass, w.cols), j.desc)
    IN  IF NULL \in ToSet(w.prefix) THEN << >> ELSE SelectSeq(PKsOf(walk), LAMBDA pk : pk \in pass)

\* The driver rows otherwise: fetched through an index, or scanned.
gatherDrivers(d, plan) ==
    LET w == plan.driver
        pass == PassDriver(plan, d)
        xs == IF w.way = "fetch" THEN probeRows(d, w.col, w.key) ELSE LiveSeq(d)
    IN  SelectSeq(xs, LAMBDA pk : pk \in pass)

execJoin(j, d, plan) ==
    LET walks == plan.driver.way \in {"walk", "prefix"}
        xs == IF walks THEN walkDrivers(j, d, plan) ELSE gatherDrivers(d, plan)
        pairs == ProbeAll(j, d, plan, xs)
        entries == [i \in DOMAIN pairs |-> [key |-> Concat(pairs[i])[j.order], pk |-> pairs[i]]]
    IN  IF j.limit = 0 THEN << >>
        ELSE IF plan.probeWalk /\ Len(xs) = 1 THEN Windowed(j, probeWalkRows(j, d, plan, xs[1]))
        ELSE IF walks \/ j.order = NoCol THEN Windowed(j, pairs)
        ELSE OrderBy(entries, j)

----------------------------------------------------------------------------
(* What a join must answer. *)

\* The pairs whose join columns are equal and not NULL, and the padded rows.
Matched(j) == {pair \in (DOMAIN rows[Left]) \X (DOMAIN rows[Right]) :
                 LET x == rows[Left][pair[1]][j.on[1]] IN x # NULL /\ x = rows[Right][pair[2]][j.on[2]]}
Padded(j) ==
    CASE j.typ = "left" -> {<<x, None>> : x \in DOMAIN rows[Left] \ {m[1] : m \in Matched(j)}}
      [] j.typ = "right" -> {<<None, y>> : y \in DOMAIN rows[Right] \ {m[2] : m \in Matched(j)}}
      [] OTHER -> {}
JoinFound(j) == {pair \in Matched(j) \cup Padded(j) : evalExpr(j.where, Concat(pair))}
RightJoin(j, s) == RightWindow(s, JoinFound(j), j, j.order # NoCol, LAMBDA pair : Concat(pair)[j.order])

\* A prefix walk whose overlay holds a driver row outside the prefix.
StrayDirty(d, w) ==
    w.way = "prefix" /\ \E pk \in Overlay(d) :
        \E i \in DOMAIN w.prefix : rows[d][pk][w.cols[i]] # w.prefix[i]
\* A prefix walk whose WHERE pins a column of the prefix twice.
PinnedTwice(j, d, w) ==
    LET conj == collectConjuncts(j.where)
    IN  w.way = "prefix" /\ \E i, k \in DriverEqs(conj, d) :
            i # k /\ ColOf(conj[i]) = ColOf(conj[k]) /\ LitOf(conj[i]) # LitOf(conj[k])
\* An ordered walk over a nullable column of the driver that holds a NULL.
NullSortKey(j, d, w) ==
    /\ w.way = "walk"
    /\ \E pk \in DOMAIN rows[d] : rows[d][pk][j.order[2]] = NULL
\* A lookup through a composite index that leaves out a row with a NULL component.
Unindexed(t, c) ==
    /\ c # "id"
    /\ LET cols == Indexes[t][First(Leading(t, c))].cols
       IN  \E pk \in DOMAIN rows[t] : \E i \in DOMAIN cols : cols[i] # c /\ rows[t][pk][cols[i]] = NULL
LookupLoses(j, d, w) ==
    \/ Unindexed(Other(d), OnOf(j, Other(d)))
    \/ w.way = "fetch" /\ (w.key = NULL \/ Unindexed(d, w.col))

ExcusedBy(j, d, w) == StrayDirty(d, w) \/ PinnedTwice(j, d, w) \/ NullSortKey(j, d, w) \/ LookupLoses(j, d, w)

\* A join returns the rows of its definition (pairs with equal, non-NULL keys, and
\* the padded rows of an outer join, filtered by the whole WHERE), cut to the window
\* and in order, whichever side drives and however it is read.  It may fail only in
\* the cases named above, where the code takes an index for the whole row source
\* that is not, or drops a conjunct the walk does not guarantee.
JoinFailsForACause ==
    \A j \in Joins : \A d \in Drivers(j) :
        \/ RightJoin(j, execJoin(j, d, JoinPlans[j][d]))
        \/ ExcusedBy(j, d, JoinPlans[j][d].driver)

\* "AND(driverPreds) /\ AND(residualPreds) == WHERE" (join.go): every row a join
\* returns satisfies its WHERE.
JoinAnswersWhere ==
    \A j \in Joins : \A d \in Drivers(j) :
        \A pair \in ToSet(execJoin(j, d, JoinPlans[j][d])) : evalExpr(j.where, Concat(pair))
=============================================================================
