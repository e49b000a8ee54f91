CONSTANTS
    a = a
    b = b
    c = c
    Parts = {a, b}
    PKs = {p1, p2}
    NShards = 2
    shardOf <- TwoShards
    Writers = {w1}
    Readers = {r1}
    Sweeper = Sweeper
    compactMinSlots = 2
    minTailPrune = 2
    pkRetryBudget = 2
    MaxSlots = 3
    None = None
SPECIFICATION Spec
SYMMETRY KeySymmetry
INVARIANTS PointReadIsTruthful ScanSeesEachRowOnce
