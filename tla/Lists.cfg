SPECIFICATION Spec
CONSTANTS
    Ids = {1, 2, 3, 4}
    Titles = {1, 2}
    Searches <- MCSearches
    SentLimits = {0, 3, NoLimit}
    NoLimit = NoLimit
    DefaultLimit = 1
    MaxLimit = 2
    NoRow = NoRow
INVARIANT MissesOnlyAfterRemoval
INVARIANT RepeatsOnlyAfterInsertion
