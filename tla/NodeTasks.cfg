\* A server command, a node command and a move; two crashes or lost answers.
CONSTANTS
    s1 = s1
    s2 = s2
    n1 = n1
    m1 = m1
    Requests = {s1, n1, m1}
    NodeRequests = {n1}
    MoveRequests = {m1}
    Poll = Poll
    Rejected = Rejected
    MaxFaults = 2
SPECIFICATION FairSpec
INVARIANTS
    TypeOK
    NothingLost
    NothingRepeated
    InOrder
PROPERTIES
    Delivery
