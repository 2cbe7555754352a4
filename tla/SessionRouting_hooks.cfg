SPECIFICATION RouterSpec
CONSTANTS
    Dirs = {d0, d1}
    Fallback = d0
    ToolCalls = {c1}
    Hooks = {h1, h2}
    MaxMoves = 1
    NoDir = NoDir
    NoHook = NoHook
    NoRoute = NoRoute
SYMMETRY Symmetry
CHECK_DEADLOCK FALSE
INVARIANTS MovesAreAnnounced
PROPERTIES AfterMeetsItsBefore NoStateOfAnEarlierVisit
