\* Two users, two networks, two processes; three requests of any kind, or two once two servers
\* have a network each, and one fault.
CONSTANTS
    u1 = u1
    u2 = u2
    a = a
    b = b
    p1 = p1
    p2 = p2
    Users = {u1, u2}
    Admins = {}
    Nets = {a, b}
    Procs = {p1, p2}
    Ops = {"save", "activate", "deactivate", "stop", "remove", "removesystem", "list", "attach", "detach", "move"}
    VlanStart = 2
    VlanEnd = 4
    ExtStart = 1
    ExtEnd = 2
    IntEnd = 3
    Quota = 1
    TypesAsked = {"gateway", "internalip", "ipmapping", "externalip"}
    IdAsked = {}
    IntAsked = {2}
    ExtAsked = {}
    Links = {TRUE, FALSE}
    MaxRequests = 3
    MaxFaults = 1
SPECIFICATION StartedSpec
INVARIANTS
    TypeOK
    RoutedUnlessLeft
PROPERTIES
    VlansApart
    ExternalsApart
    InternalsApart
    QuotaKept
SYMMETRY Symmetry
CHECK_DEADLOCK FALSE
