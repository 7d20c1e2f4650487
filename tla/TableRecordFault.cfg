SPECIFICATION Spec
CONSTANTS
    BITS_PER_LONG = 2
    Fan = 2
    LastLevel = 2
    Per = 2
    Blocks = 2
    Expan <- mcYes
    MemFaults = FALSE
    RecFaults = TRUE
    Page = 1
    Base <- layoutBase
    Size <- layoutSize
    Attr = {r}
    BadAttr = bad
    Token = {z}
    ZeroToken = z
    NoToken = notoken
    GrantToken = {notoken}
INVARIANT DeviceMatchesSegments
