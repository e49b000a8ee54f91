---------------------------- MODULE MCPartition ----------------------------
(* Instances of Partition for TLC. *)
EXTENDS Partition, TLC

CONSTANTS a, b, c

\* Two partitions share a shard, the third has one of its own.
TwoShards == [q \in Parts |-> IF q = b THEN 2 ELSE 1]
KeySymmetry == Permutations(PKs)
=============================================================================
