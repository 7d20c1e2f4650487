SPECIFICATION FairSpec
CONSTANTS
    Threads = {t1, t2}
    Tids = {k1, k2}
    Segs = {s1}
    Objs = {o1, o2}
    NULL = null
    RecordFails = FALSE
    ForkAllowed = TRUE
    ExitAllowed = "never"
CHECK_DEADLOCK FALSE
PROPERTIES CtxReleased
