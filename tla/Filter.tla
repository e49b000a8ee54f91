------------------------------- MODULE Filter -------------------------------
(* The elements of a list that pass a test, in the order of the list.       *)
EXTENDS Integers, Sequences, FiniteSets

\* The k-th smallest of some numbers.
Nth(S, k) == CHOOSE x \in S : Cardinality({y \in S : y <= x}) = k

Kept(l, Test(_)) ==
    LET at == {i \in 1..Len(l) : Test(l[i])} IN [k \in 1..Cardinality(at) |-> l[Nth(at, k)]]
=============================================================================
