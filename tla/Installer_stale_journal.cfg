SPECIFICATION Spec
CONSTANTS
    Invocations = {i1, i2}
    Receipts = {r1}
    Trees = {t0, t1}
    Configs = {c0, c1}
    Original = original
    InitialTree = t0
    NoDir = NoDir
    NoPlan = NoPlan
    NoLock = NoLock
    NoReceipt = NoReceipt
PROPERTY RestoresOnlyFromArmedJournal
