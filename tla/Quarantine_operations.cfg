SPECIFICATION Spec
CONSTANTS
    Ops = {o1, o2}
    Paths = {p1, p2}
    Contents = {c1, c2}
    None = None
    Calls = {k1, k2}
    MaxEdits = 1
    MaxCalls = 4
SYMMETRY Symmetry
CHECK_DEADLOCK FALSE
INVARIANTS ContentIsConserved OnePlace QuarantinedIsBacked
