SPECIFICATION MCSpec
CONSTANTS
    Domains = {d1}
    Users = {}
    Groups = {g1, g2, g3}
    Resources = {}
    Permissions = {}
    Bits = {b63}
    SignBit = b63
    NoRow = NoRow
    NoParent = NoParent
    NoChange = NoChange
    Conns = {c1, c2}
    Idle = Idle
    Drivers = {"postgres", "mysql"}
    Third = g3
    MaxSteps = 3
INVARIANT TypeOK
INVARIANT CycleNeedsOverlap
PROPERTY CallsEnd
