SPECIFICATION TitleSpec
CONSTANTS
    NumBits = 2
    Titles = {1, 2}
    Ids = {a1, a2}
    SentBits <- SingleBits
    MaxRetries = 2
    Clients = {}
    NoRow = NoRow
    Idle = Idle
    NoChange = NoChange
    Perms = {p1, p2}
    NoCall = NoCall
SYMMETRY Symmetry
INVARIANT TitleTypeOK
INVARIANT AnswerEchoesRequest
INVARIANT ReadsOneMoment
PROPERTY StaleTitlesOnly
