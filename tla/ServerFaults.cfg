\* Starts, destroys and moves with one crash, power loss or failed command.
CONSTANTS
    s1 = s1
    n1 = n1
    n2 = n2
    Servers = {s1}
    Nodes = {n1, n2}
    Nobody = Nobody
    Ops = {"start", "destroy", "move", "list"}
    Admin = TRUE
    Stale = 1
    Hold = 1
    ShutdownHold = 2
    MoveHold = 2
    MaxAge = 2
    MaxRequests = 3
    MaxFaults = 1
SPECIFICATION Spec
INVARIANTS
    SingleHost
    OffIsOff
PROPERTIES
    Implements
SYMMETRY Symmetry
