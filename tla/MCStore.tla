------------------------------ MODULE MCStore ------------------------------
(* Instances of Store for TLC. *)
EXTENDS Store, TLC

CONSTANTS p1, p2, p3

TwoShards == (p1 :> 1) @@ (p2 :> 1) @@ (p3 :> 2)

\* Callers are alike, and so are the keys of one shard.
CallerSymmetry == Permutations(Callers) \cup Permutations({p1, p2})

\* Bound: at boot the table is empty, or the first shard's rows fill the cap.
FewBoots == Init /\ base[p3] = 0 /\ Sum(base, PK) \in {0, MaxBytes}
SpecFew == FewBoots /\ [][Next]_vars

=============================================================================
