CONSTANTS
    None = None
    Rows <- MCRows
    EventTypes <- MCEventTypes
    Apis = {a1}
    Workers = {w1}
    BatchLimit = 1
    MaxFaults = 1
    ExtraBindings <- Bridged
SPECIFICATION FairSpec
INVARIANTS TypeOK MarkedIsAccounted
PROPERTY KeepsContract
CHECK_DEADLOCK FALSE
