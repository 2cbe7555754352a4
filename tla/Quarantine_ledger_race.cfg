SPECIFICATION Spec
CONSTANTS
    Ops = {o1, o2}
    Paths = {p1, p2}
    Contents = {c1, c2}
    None = None
    Calls = {k1, k2}
    MaxEdits = 0
    MaxCalls = 4
CHECK_DEADLOCK FALSE
PROPERTIES LedgerKeepsOperations
