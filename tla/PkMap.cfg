CONSTANTS
    Keys = {k1, k2, k3, k4}
    Rows = {1}
    HashRange = 8
    MinSlots = 4
    MaxSlots = 8
    NoKey = NoKey
SPECIFICATION Spec
SYMMETRY KeySymmetry
INVARIANTS MapInv LookupIsRight
