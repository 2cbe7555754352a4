SPECIFICATION Spec
CONSTANTS
    Targets = {t1, t2}
    Calls = {c1, c2}
    Modes <- OnlyTarget
    Specs <- OwnedOfLatest
    MaxBase = 1
    MaxEpochs = 2
    MaxFaults = 1
    NoTarget = NoTarget
    NoSha = NoSha
    Local = Local
    NoLifecycle = NoLifecycle
    NoJob = NoJob
SYMMETRY Symmetry
CHECK_DEADLOCK FALSE
INVARIANTS LifecycleIsBacked
PROPERTIES MovesOnBackedCapability ActsForItsTargetUnlessRaced
