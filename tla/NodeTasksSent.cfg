\* A server command and a node command queued before the same answer.
CONSTANTS
    s1 = s1
    s2 = s2
    n1 = n1
    m1 = m1
    Requests = {s1, n1}
    NodeRequests = {n1}
    MoveRequests = {}
    Poll = Poll
    Rejected = Rejected
    MaxFaults = 0
SPECIFICATION Spec
PROPERTIES
    SentAsWritten
