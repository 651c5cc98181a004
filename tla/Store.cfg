SPECIFICATION MCSpec
CONSTANTS
    Domains = {d1, d2}
    Users = {u1}
    Groups = {g1, g2, g3}
    Resources = {r1, r2}
    Permissions = {p1, p2}
    Bits = {b0, b63}
    SignBit = b63
    NoRow = NoRow
    NoParent = NoParent
    NoChange = NoChange
    MaxSteps = 3
    MaxEdits = 2
SYMMETRY Symmetry
INVARIANT TypeOK
INVARIANT CacheCoherent
INVARIANT ListingsExact
INVARIANT JunctionsInOneDomain
INVARIANT NoDangling
INVARIANT Acyclic
PROPERTY AccessMonotone
PROPERTY ReconcileChangesNothing
