CONSTANTS
    p1 = p1
    p2 = p2
    Procs = {p1}
    MonthEnd = 4
    Window = 2
    MaxAmount = 1
    MaxChanges = 1
    MaxUpdates = 3
SPECIFICATION Spec
INVARIANT UsageBilled
CHECK_DEADLOCK FALSE
