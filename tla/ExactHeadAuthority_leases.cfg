CONSTANTS
    None = None
    Heads = {h1, h2}
    Primaries = {p1, p2}
    Modes <- BothModes
    MaxEpochs = 2
    MaxLeases = 2
    MaxTasks = 2
    MaxMoves = 1
    MaxOps = 1
SPECIFICATION Spec
SYMMETRY Symmetry
INVARIANTS AcceptedWhereLaunched ResumedOnce VerifiedIsLeased ProofOfThisEpoch
CHECK_DEADLOCK FALSE
