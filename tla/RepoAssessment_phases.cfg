SPECIFICATION Spec
CONSTANTS
    Runs = {r1}
    Targets = {t1}
    MaxKids = 2
    NoRun = NoRun
CHECK_DEADLOCK FALSE
INVARIANTS StatusMeansContained
PROPERTIES EndedRunsReport
