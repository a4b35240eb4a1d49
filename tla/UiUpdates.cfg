CONSTANTS
    t1 = t1
    t2 = t2
    w1 = w1
    w2 = w2
    m1 = m1
    m2 = m2
    m3 = m3
    Tabs = {t1, t2}
    Writers = {w1, w2}
    Messages = {m1, m2}
    MaxSweeps = 1
SPECIFICATION Spec
INVARIANTS TypeOK NotLost

PROPERTY Told
CHECK_DEADLOCK FALSE
