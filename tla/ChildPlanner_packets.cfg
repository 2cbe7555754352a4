CONSTANTS
    Calls = {c1, c2}
    Paths = {1, 2, 3}
    Documents = {3}
    Sizes <- TwoSizes
    Disks <- SomeDisks
    Workloads <- SomeWorkloads
    Reports <- SomeReports
    TargetLimit <- Targets
    PromptLimit <- FiveLines
    MaxMoves = 1
SPECIFICATION Spec
CHECK_DEADLOCK FALSE
SYMMETRY CallSymmetry
PROPERTIES PacketsAreTheRequest PacketsAreWithinLimits AsFewPacketsAsPossible CanonicalPacketsPlan GateSeesEveryTarget
