\* Three requests for one server under fairness; no faults.
CONSTANTS
    s1 = s1
    n1 = n1
    n2 = n2
    Servers = {s1}
    Nodes = {n1, n2}
    Nobody = Nobody
    Ops = {"start", "destroy", "shutdown", "suspend", "resume", "list"}
    Admin = TRUE
    Stale = 1
    Hold = 1
    ShutdownHold = 2
    MoveHold = 2
    MaxAge = 2
    MaxRequests = 3
    MaxFaults = 0
SPECIFICATION FairSpec
PROPERTIES
    Discovered
    Startable
