SPECIFICATION OneAtATime
CONSTANTS
    Handlers = {"h1", "h2", "h3", "h4"}
    Consumers = {"c1", "c2", "c3"}
    Names <- TwoNames
    NameOf <- ConfigNames
    NoDB = NoDB
    NoSlot = NoSlot
    Nobody = Nobody
    Goroutines = {g1, g2, g3}
    CMax = 1
    Field = 4
    MaxMs = 3
    MaxClaims = 4
INVARIANTS RegistryInv SameInstance ClockInv
\* Every handler has come and gone and every key is drawn.
CHECK_DEADLOCK FALSE
