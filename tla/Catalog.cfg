CONSTANTS
    A = A
    B = B
    Name = {A, B}
    Boot <- SchemaA
    Writers = {w1}
    Kinds = {"exec", "tx"}
    MaxId = 3
    MaxRec = 4
    MaxFaults = 1
    None = None
    Missing = Missing
SPECIFICATION FairSpec
INVARIANTS CatalogInv OpenFailsForACause
PROPERTY LogIsDrained
