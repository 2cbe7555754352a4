SPECIFICATION Spec
CONSTANTS
    Targets = {t1, t2}
    Calls = {c1}
    Modes <- OnlyTarget
    Specs <- OwnedOfLatest
    MaxBase = 1
    MaxEpochs = 2
    MaxFaults = 0
    NoTarget = NoTarget
    NoSha = NoSha
    Local = Local
    NoLifecycle = NoLifecycle
    NoJob = NoJob
CHECK_DEADLOCK FALSE
PROPERTIES StaysBoundUntilItsRelease
