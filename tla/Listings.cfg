SPECIFICATION Spec
CONSTANTS
    Domains = {d1}
    Users = {u1}
    Groups = {g1}
    Resources = {r1, r2}
    Permissions = {p1, p2}
    Bits = {b0, b1, b63}
    SignBit = b63
    NoRow = NoRow
    NoParent = NoParent
    NoChange = NoChange
    Listings = {"UserAuthzResourcesList", "GroupAuthzResourcesList", "ResourceAuthzGroupsList",
                "ResourceAuthzUsersList"}
    NoCall = NoCall
SYMMETRY Symmetry
INVARIANT NoPhantomBits
INVARIANT SteadyBitsInOneQuery
