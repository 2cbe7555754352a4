CONSTANTS
    Runs = {r1, r2}
    Targets = {t1, t2}
    MaxKids = 0
    NoRun = NoRun
SPECIFICATION Spec
CHECK_DEADLOCK FALSE
SYMMETRY Symmetry
INVARIANTS LiveRunnersOwnTheirState PassIsClean ReturnIsOnDisk
