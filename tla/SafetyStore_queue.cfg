\* Two sessions, two calls, two edits; reads and writes may fail, restarts at will.
CONSTANTS
    s1 = s1
    s2 = s2
    c1 = c1
    c2 = c2
    NoSession = NoSession
    NoFile = NoFile
    NotRead = NotRead
    Unreadable = Unreadable
    Sessions <- TwoSessions
    Calls <- TwoCalls
    MaxEdits = 2
SPECIFICATION FairSpec
INVARIANTS PublishedWorkIsCoveredUnlessRaced FileKeepsGateClosed
PROPERTIES ImplementsDurableState EveryHookReturns
