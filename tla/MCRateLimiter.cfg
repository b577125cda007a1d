CONSTANTS
    r1 = r1
    r2 = r2
    r3 = r3
    Requests <- MCRequests
    MaxRequests = 2
    MaxCount = 4
    MaxFaults = 2
SPECIFICATION FairSpec
INVARIANTS TypeOK PlacesAddUp
PROPERTY WindowsEnd
CHECK_DEADLOCK FALSE
