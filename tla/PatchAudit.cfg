SPECIFICATION Spec
CONSTANTS
    Domains = {d1}
    Users = {}
    Groups = {}
    Resources = {r1, r2}
    Permissions = {p1}
    Bits = {b0, b63}
    SignBit = b63
    NoRow = NoRow
    NoParent = NoParent
    NoChange = NoChange
    Conns = {c1}
    Idle = Idle
SYMMETRY Symmetry
PROPERTY EveryPatchAudited
