SPECIFICATION Spec
CONSTANTS
    b1 = b1
    b2 = b2
    h1 = h1
    h2 = h2
    m1 = m1
    m2 = m2
    Bases <- BasePair
    Heads <- HeadPair
    Mains <- MainPair
    Dispatches <- EachHead
    Controlled <- SecondHead
    NCommands = 2
    Collector = 2
    MaxMoves = 2
    MaxAttempts = 2
CHECK_DEADLOCK FALSE
INVARIANTS SuccessIsBacked NoSelfCertification HandoffIsAccepted
PROPERTIES ActsOnExactIdentity
