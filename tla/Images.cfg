\* Two requests and one fault.
CONSTANTS
    MaxRequests = 2
    MaxFaults = 1
SPECIFICATION FairSpec
INVARIANTS TypeOK Alone SnapshotKnown
PROPERTY Released
CHECK_DEADLOCK FALSE
