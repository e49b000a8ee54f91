CONSTANTS
    MaxLsn = 2
    MaxSeg = 2
    Writers = {w1, w2}
    MaxFaults = 1
    MaxDamage = 1
SPECIFICATION FairSpec
INVARIANTS
    IInv
    SealedRecoverable
    MirrorIsPrefix
    MemoryIsLog
    CloseIsDurable
PROPERTIES
    CursorAdvances
    KeepsPromise
    SealedIsDrained
    AppendedIsSealed
    CloseReturns
