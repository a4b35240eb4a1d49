CONSTANTS
    n1 = n1
    n2 = n2
    s1 = s1
    s2 = s2
    s3 = s3
    Nodes = {n1}
    Servers = {s1}
    Nobody = Nobody
    Managed = {n1}
    Cap = 1
    SleepAfter = 1
    MaxEvents = 2
SPECIFICATION FairSpec
PROPERTY Delivered
CHECK_DEADLOCK FALSE
