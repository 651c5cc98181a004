SPECIFICATION Spec
CONSTANTS
    Domains = {d1, d2}
    Users = {u1}
    Groups = {g1}
    Resources = {r1, r2}
    Permissions = {p1, p2}
    Bits = {b0, b63}
    SignBit = b63
    NoRow = NoRow
    NoParent = NoParent
    NoChange = NoChange
    Conns = {c1}
    Idle = Idle
SYMMETRY Symmetry
INVARIANT DecisionExact
INVARIANT ReferencesLive
INVARIANT AuditReportsPatch
PROPERTY PatchIsPartial
