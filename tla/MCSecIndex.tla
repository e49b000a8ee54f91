----------------------------- MODULE MCSecIndex -----------------------------
(* Instances of SecIndex for TLC. *)
EXTENDS SecIndex

CONSTANTS p1, p2

\* Values of the indexed column are interchangeable: an equality never orders them.
KeySymmetry == Permutations(Key)

TwoShards == [p \in PK |-> IF p = p1 THEN 1 ELSE 2]

=============================================================================
