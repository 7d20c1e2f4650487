SPECIFICATION Spec
CONSTANTS
    MaxAddr = 3
    Align = 2
    Base <- mcBase
    Size <- mcSize
    Attr = {r, w}
    BadAttr = bad
    Token = {z, t}
    ZeroToken = z
    NoToken = notoken
    GrantToken = {z, t, notoken}
INVARIANTS NonceCountsTokens PlbCoherent DecidesAsSegMng
PROPERTY Refines
