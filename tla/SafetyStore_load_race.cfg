\* Two sessions: one may run hooks while the other is still loading.
CONSTANTS
    s1 = s1
    s2 = s2
    c1 = c1
    c2 = c2
    NoSession = NoSession
    NoFile = NoFile
    NotRead = NotRead
    Unreadable = Unreadable
    Sessions <- TwoSessions
    Calls <- TwoCalls
    MaxEdits = 2
SPECIFICATION StoreSpec
INVARIANTS
    PublishedWorkIsCovered
