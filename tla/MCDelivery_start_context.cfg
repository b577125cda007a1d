CONSTANTS
    None = None
    Rows <- MCOneRow
    EventTypes <- MCOneType
    Apis = {a1}
    Workers = {w1}
    BatchLimit = 1
    MaxFaults = 0
    ExtraBindings <- Bridged
SPECIFICATION FairSpec
PROPERTY EventuallyHandled
CHECK_DEADLOCK FALSE
