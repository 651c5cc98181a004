SPECIFICATION MCSpec
CONSTANTS
    NumBits = 2
    Titles = {1, 2, 3}
    Ids = {a1, a2, a3}
    SentBits <- SingleBits
    MaxRetries = 2
    Clients = {c1, c2}
    Patchers = {w1}
    NoRow = NoRow
    Idle = Idle
    NoChange = NoChange
SYMMETRY Symmetry
INVARIANT PatchTypeOK
INVARIANT OneBitPerTitle
INVARIANT TitlesRoundTrip
INVARIANT LoadIsComplete
INVARIANT RetriesSuffice
PROPERTY RevertsOnlyWhenRaced
PROPERTY PooledPatchIsPatch
