------------------------------ MODULE MCQuery ------------------------------
(* Instances of Query for TLC: table l has NOT NULL columns, a composite     *)
(* (a, b) and an ordered index on b; in table r, b is nullable and the same  *)
(* composite, a hash index on a and an ordered index on b are declared.      *)
EXTENDS Join

TwoTables == {"l", "r"}
TableKeys == [t \in TwoTables |-> IF t = "l" THEN 1..3 ELSE 1..2]
NullableCols == [t \in TwoTables |-> IF t = "l" THEN {} ELSE {"b"}]
Ix(cols, ordered) == [cols |-> cols, ordered |-> ordered]
TableIndexes ==
    [t \in TwoTables |->
        IF t = "l" THEN <<Ix(<<"a", "b">>, TRUE), Ix(<<"b">>, TRUE)>>
        ELSE <<Ix(<<"a", "b">>, TRUE), Ix(<<"a">>, FALSE), Ix(<<"b">>, TRUE)>>]

Eq(c, v) == Node(Col(c), "=", Val(v))
Cmp(c, op, v) == Node(Col(c), op, Val(v))
And(x, y) == Node(x, "and", y)
Or(x, y) == Node(x, "or", y)

Both == {NoWhere, Eq("id", 1), Eq("a", 1), Eq("b", 2),
         And(Eq("a", 1), Eq("b", 2)),
         And(Eq("a", 1), Cmp("b", ">", 1)),
         And(Eq("a", 1), Eq("a", 2)),
         And(Eq("id", 1), Cmp("a", ">=", 2)),
         Or(Eq("a", 2), Not(Cmp("b", "<", 2))),
         Node(Val(1), "<", Col("b")),
         And(Cmp("b", "<=", 1), Cmp("b", ">", 1))}
WithNull == {Eq("b", NULL), IsNull(Col("b")), And(Eq("a", 1), Eq("b", NULL))}
TableWheres == [t \in TwoTables |-> IF t = "l" THEN Both ELSE Both \cup WithNull]

\* ORDER BY, LIMIT and OFFSET: [order, desc, limit, offset].
Windows == {<<"", FALSE, -1, 0>>, <<"b", FALSE, 1, 1>>, <<"b", TRUE, -1, 0>>}
Unordered == {<<"", FALSE, 0, 0>>, <<"", FALSE, 1, 1>>}
Q(e, w) == [where |-> e, order |-> w[1], desc |-> w[2], limit |-> w[3], offset |-> w[4]]
TableQueries ==
    [t \in TwoTables |-> {Q(e, w) : e \in TableWheres[t], w \in Windows}
                         \cup {Q(e, w) : w \in Unordered, e \in {NoWhere, Eq("a", 1), And(Eq("a", 1), Eq("b", 2))}}]

\* The joins: by key, by composite index on either side, filtered on either side.
G(t, c) == <<t, c>>
J(typ, on, where, order, desc, limit, offset) ==
    [typ |-> typ, on |-> on, where |-> where, order |-> order, desc |-> desc, limit |-> limit, offset |-> offset]
JoinOrders == {<<NoCol, FALSE, -1, 0>>, <<G("r", "b"), FALSE, 1, 0>>}
TheJoins ==
    {J("inner", <<"a", "id">>, w, G("l", "b"), TRUE, 1, 1) : w \in {NoWhere, Eq(G("l", "a"), 1)}}
    \cup {J("inner", <<"a", "a">>, w, o[1], o[2], o[3], o[4]) :
        w \in {NoWhere, Cmp(G("l", "b"), ">", 1)}, o \in JoinOrders}
    \cup {J("inner", <<"a", "a">>, w, G("l", "b"), TRUE, 1, 1) : w \in {Eq(G("l", "a"), 1), Cmp(G("l", "b"), ">", 1)}}
    \cup {J("inner", <<"a", "a">>, And(Eq(G("l", "a"), 1), e), G("l", "b"), FALSE, -1, 0) :
        e \in {Node(Col(G("l", "b")), "=", Col(G("r", "a"))), Eq(G("l", "a"), 2)}}
    \cup {J("inner", <<"id", "a">>, Eq(G("r", "id"), 1), G("r", "b"), FALSE, -1, 0)}
    \cup {J("left", <<"a", "a">>, w, G("l", "b"), FALSE, -1, 0) :
        w \in {NoWhere, And(Eq(G("l", "b"), 1), IsNull(Col(G("r", "b"))))}}
    \cup {J("right", <<"a", "a">>, Eq(G("r", "id"), 1), G("l", "b"), FALSE, -1, 0)}

\* A join that fixes a prefix of (a, b) on the left and orders by the rest.
OverlayJoins == {J("inner", <<"a", "id">>, Eq(G("l", "a"), 1), G("l", "b"), FALSE, -1, 0)}
=============================================================================
