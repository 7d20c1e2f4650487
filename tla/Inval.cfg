SPECIFICATION FairSpec
CONSTANTS
    ummu_cnt = 2
    Segs = {s1}
    ALL = all
    PSYNC = psync
    PlbiNum = 1
    QLen = 4
    MaxVer = 3
    KcmdChoices <- mcKcmd
    DeviceErrors = TRUE
INVARIANTS StaleExplained DoneMeansRevoked
PROPERTIES EventuallyForgotten
