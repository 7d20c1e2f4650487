SPECIFICATION CallerSpec
CONSTANTS
    QSize = 6
    CplSize = 5
    PlbiNum = 2
    Cmds = {va, all}
    PLBI_ALL = all
    PSYNC = psync
    NoCmd = nocmd
    MAX_WAIT_NOT_FULL_TIMES = 1
    WAIT_CPLQ_TIMES = 2
INVARIANTS CompletionsFit DoneMeansExecuted OwnCompletionWaits
PROPERTIES NoCommandOverwritten Refines SendReturns QueuedMeansExecuted
