SPECIFICATION Spec
CONSTANTS
    MaxAddr = 5
    Page = 2
    Base <- mcBase
    Size <- mcSize
    Attr = {r, w}
    BadAttr = bad
    Token = {z, t}
    ZeroToken = z
    NoToken = notoken
    GrantToken = {z, t, notoken}
SYMMETRY mcSym
INVARIANTS TypeOK NoOverlap NoSharedPage TokenSlots UpdateFollowsCheck
PROPERTIES StaysInRange TokenRevoked
