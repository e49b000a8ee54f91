SPECIFICATION Spec
CONSTANTS
    Tables <- TwoTables
    PKs <- TableKeys
    Vals = {1, 2}
    NULL = NULL
    Nullable <- NullableCols
    Indexes <- TableIndexes
    Queries <- TableQueries
    Wheres <- TableWheres
    MaxRows = 3
    MaxDirty = 2
    MaxJoinDirty = 1
    MaxOffers = 6
    Top = 2
    Width = 2
    IdWidth = 1
    MaxLen = 2
    MaxCols = 2
    Left = "l"
    Right = "r"
    Joins <- TheJoins
    None = None
INVARIANTS SelectIsScan ExecutorsAgree TopNKeepsBest KeysAreTuples WritesHitWhere JoinFailsForACause
