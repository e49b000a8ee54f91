CONSTANTS
    p1 = p1
    p2 = p2
    PK = {p1, p2}
    Key = {a, b}
    NShards = 2
    shardOf <- TwoShards
    Ordered = FALSE
    Readers = {r1}
    MaxWrites = 3
    MaxReads = 0
    Null = Null
    Absent = Absent
SPECIFICATION FairSpec
INVARIANT IndexInv
PROPERTY WritesAreIndexed
CHECK_DEADLOCK FALSE
