CONSTANTS
    p1 = p1
    p2 = p2
    p3 = p3
    PK = {p1, p2, p3}
    NShards = 2
    shardOf <- TwoShards
    Size = {1, 2}
    MaxBytes = 3
    Callers = {c1, c2}
    Kinds = {"one", "txn", "match"}
    MaxCalls = 2
    MaxStaged = 2
    CountMod = 4
    Free = Free
SPECIFICATION SpecFew
SYMMETRY CallerSymmetry
INVARIANTS StoreInv BudgetIsExact CapHolds ReopenFailsForACause NoLockCycle
CHECK_DEADLOCK FALSE
