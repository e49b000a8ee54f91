CONSTANTS
    a = a
    b = b
    c = c
    Parts = {a, b, c}
    PKs = {p1, p2}
    NShards = 2
    shardOf <- TwoShards
    Writers = {w1, w2}
    Readers = {}
    Sweeper = Sweeper
    compactMinSlots = 2
    minTailPrune = 2
    pkRetryBudget = 2
    MaxSlots = 3
    None = None
SPECIFICATION FairSpec
INVARIANTS PartitionInv UpdateFindsItsRow
PROPERTIES ImplementsMap DenseIsReclaimed
