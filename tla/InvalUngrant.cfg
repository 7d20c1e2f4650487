SPECIFICATION Spec
CONSTANTS
    ummu_cnt = 2
    Segs = {s1}
    ALL = all
    PSYNC = psync
    PlbiNum = 1
    QLen = 2
    MaxVer = 2
    KcmdChoices <- mcUser
    DeviceErrors = FALSE
INVARIANTS UngrantRevokes
