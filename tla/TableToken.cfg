SPECIFICATION Spec
CONSTANTS
    BITS_PER_LONG = 2
    Fan = 3
    LastLevel = 2
    Per = 1
    Blocks = 3
    Expan <- mcYes
    MemFaults = FALSE
    RecFaults = FALSE
    Page = 2
    Base <- tokenBase
    Size <- tokenSize
    Attr = {rw}
    BadAttr = bad
    Token = {z, t}
    ZeroToken = z
    NoToken = notoken
    GrantToken = {z, t}
INVARIANTS DeviceMatchesSegments UngrantSucceeds NoStalePlb
PROPERTIES FailedCallsUndone
