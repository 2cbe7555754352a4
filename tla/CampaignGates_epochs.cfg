CONSTANTS
    c1 = c1
    c2 = c2
    s1 = s1
    s2 = s2
    p1 = p1
    p2 = p2
    f1 = f1
    f2 = f2
    Sessions <- TwoSessions
    Calls <- TwoCalls
    Roles <- OnlyVerify
    Packets <- OnePacket
    Plans <- NoPlans
    Paths <- NoPaths
    ReviewFileThreshold = 1
    DeclaredHeads <- TwoHeads
    Modes <- BothModes
    ReviewAuthorities <- LocalReview
    VerifyAuthorities <- AnyVerify
    PublishKinds <- NoPublish
    MaxEdits = 1
    MaxEpochs = 2
    MaxCampaigns = 1
SPECIFICATION Spec
SYMMETRY CallSessionSymmetry
PROPERTIES EpochStartsUncovered
