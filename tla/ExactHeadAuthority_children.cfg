CONSTANTS
    None = None
    Heads = {h1}
    Primaries = {p1}
    Modes <- TargetMode
    MaxEpochs = 1
    MaxLeases = 1
    MaxTasks = 2
    MaxMoves = 0
    MaxOps = 1
SPECIFICATION Spec
SYMMETRY Symmetry
PROPERTIES ChildActsForItsDelegation
CHECK_DEADLOCK FALSE
