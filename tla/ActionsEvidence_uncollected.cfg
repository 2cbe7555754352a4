SPECIFICATION Spec
CONSTANTS
    b1 = b1
    b2 = b2
    h1 = h1
    h2 = h2
    m1 = m1
    m2 = m2
    Bases <- BasePair
    Heads <- HeadPair
    Mains <- MainPair
    Dispatches <- PlainHead
    Controlled <- SecondHead
    NCommands = 1
    Collector = 0
    MaxMoves = 0
    MaxAttempts = 1
CHECK_DEADLOCK FALSE
INVARIANTS SuccessIsBacked
