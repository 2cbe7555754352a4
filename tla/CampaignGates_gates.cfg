CONSTANTS
    c1 = c1
    c2 = c2
    s1 = s1
    s2 = s2
    p1 = p1
    p2 = p2
    f1 = f1
    f2 = f2
    Sessions <- OneSession
    Calls <- TwoCalls
    Roles <- OnlyReview
    Packets <- TwoPackets
    Plans <- WholePlan
    Paths <- NoPaths
    ReviewFileThreshold = 1
    DeclaredHeads <- NoHeads
    Modes <- TargetMode
    ReviewAuthorities <- LocalReview
    VerifyAuthorities <- LocalVerify
    PublishKinds <- OnlyCommit
    MaxEdits = 2
    MaxEpochs = 0
    MaxCampaigns = 2
SPECIFICATION Spec
SYMMETRY CallPacketSymmetry
INVARIANTS GateFieldsDurable ObligationsWellFormed
PROPERTIES CoverageIsFreshInCampaign AggregateBeforeCoverage RestartKeepsGateClosed
