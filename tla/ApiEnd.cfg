SPECIFICATION FairSpec
CONSTANTS
    Threads = {t1, t2}
    Tids = {k1, k2}
    Segs = {s1}
    Objs = {o1, o2}
    NULL = null
    RecordFails = FALSE
    ForkAllowed = FALSE
    ExitAllowed = "quiet"
CHECK_DEADLOCK FALSE
INVARIANTS NoObjectLost ExitFreesAll TableMatchesRecord
PROPERTIES CtxReleased MaptReleased
