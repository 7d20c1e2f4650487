SPECIFICATION Spec
CONSTANTS
    BITS_PER_LONG = 2
    Fan = 2
    LastLevel = 2
    Per = 2
    Blocks = 2
    Expan <- mcYes
    MemFaults = FALSE
    RecFaults = FALSE
    Page = 1
    Base <- leakBase
    Size <- leakSize
    Attr = {r}
    BadAttr = bad
    Token = {z}
    ZeroToken = z
    NoToken = notoken
    GrantToken = {notoken}
INVARIANT AllBlocksReleased
