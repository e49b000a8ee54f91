CONSTANTS
    p1 = p1
    p2 = p2
    PK = {p1, p2}
    Key = {a, b}
    NShards = 2
    shardOf <- TwoShards
    Ordered = TRUE
    Readers = {r1}
    MaxWrites = 2
    MaxReads = 1
    Null = Null
    Absent = Absent
SPECIFICATION Spec
SYMMETRY KeySymmetry
INVARIANTS IndexInv QuietReadIsScan JoinMissesNothing
CHECK_DEADLOCK FALSE
