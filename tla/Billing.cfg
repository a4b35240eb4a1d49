\* Four hours, two changes, three updates by two processes.
CONSTANTS
    p1 = p1
    p2 = p2
    Procs = {p1, p2}
    MonthEnd = 4
    Window = 2
    MaxAmount = 1
    MaxChanges = 2
    MaxUpdates = 3
SPECIFICATION Spec
INVARIANTS TypeOK BilledAsUsed
SYMMETRY Symmetry
CHECK_DEADLOCK FALSE
