---------------------------- MODULE PartitionMap ----------------------------
(***************************************************************************)
(* What a partitioned table promises: each partition value has a list of   *)
(* the primary keys that live in it, in insert order, and a primary key    *)
(* lives in at most one partition of the whole table.  There are no        *)
(* shards, row numbers, tombstones or compactions here.                    *)
(***************************************************************************)
EXTENDS Naturals, Sequences, FiniteSets, Filter

CONSTANTS PKs, Parts

VARIABLE list   \* per partition value, its primary keys in insert order

In(l, p) == \E q \in Parts : \E i \in 1..Len(l[q]) : l[q][i] = p

Removed(l, D) == [q \in Parts |-> Kept(l[q], LAMBDA p : p \notin D)]
Appended(l, p, q) == [l EXCEPT ![q] = Append(@, p)]

Init == list = [q \in Parts |-> <<>>]

(* One statement, or one transaction of up to two of them, takes effect    *)
(* at once: it removes a set of keys and then adds keys the table lacks.   *)
Insert == \E p \in PKs, q \in Parts : ~In(list, p) /\ list' = Appended(list, p, q)

InsertTwo ==
    \E p1, p2 \in PKs, q1, q2 \in Parts :
        /\ p1 # p2
        /\ ~In(list, p1) /\ ~In(list, p2)
        /\ list' = Appended(Appended(list, p1, q1), p2, q2)

Delete == \E D \in SUBSET PKs : list' = Removed(list, D)

(* A transaction that deletes and inserts: the table never lacks a moved key. *)
DeleteInsert ==
    \E d \in PKs :
        LET without == Removed(list, {d}) IN
        \E p \in PKs, q \in Parts : ~In(without, p) /\ list' = Appended(without, p, q)

InsertDelete ==
    \E d, p \in PKs, q \in Parts :
        /\ ~In(list, p)
        /\ list' = Removed(Appended(list, p, q), {d})

(* A step that changes nothing is a stutter. *)
Next ==
    /\ list' # list
    /\ Insert \/ InsertTwo \/ Delete \/ DeleteInsert \/ InsertDelete

Spec == Init /\ [][Next]_list

=============================================================================
