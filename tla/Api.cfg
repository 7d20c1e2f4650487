SPECIFICATION Spec
CONSTANTS
    Threads = {t1, t2, t3}
    Tids = {k1, k2}
    Segs = {s1}
    Objs = {o1, o2}
    NULL = null
    RecordFails = TRUE
    ForkAllowed = TRUE
    ExitAllowed = "never"
SYMMETRY mcSymmetry
CHECK_DEADLOCK FALSE
INVARIANTS NoUseAfterFree MapSound DecisionStands LocksHeldByLiving
PROPERTIES Refines
