SPECIFICATION Spec
CONSTANTS
    Domains = {d1}
    Users = {}
    Groups = {g1, g2}
    Resources = {}
    Permissions = {}
    Bits = {b63}
    SignBit = b63
    NoRow = NoRow
    NoParent = NoParent
    NoChange = NoChange
    Conns = {c1, c2}
    Idle = Idle
    Drivers = {"postgres"}
    Third = g2
    MaxSteps = 3
SYMMETRY Symmetry
INVARIANT Acyclic
