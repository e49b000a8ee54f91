CONSTANTS
    p1 = p1
    p2 = p2
    p3 = p3
    PK = {p1, p2, p3}
    NShards = 2
    shardOf <- TwoShards
    Size = {1, 2}
    MaxBytes = 0
    Callers = {c1, c2}
    Kinds = {"match"}
    MaxCalls = 1
    MaxStaged = 1
    CountMod = 2
    Free = Free
SPECIFICATION Spec
SYMMETRY CallerSymmetry
INVARIANT ReopenSucceeds
CHECK_DEADLOCK FALSE
