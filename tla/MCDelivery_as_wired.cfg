CONSTANTS
    None = None
    Rows <- MCOneRow
    EventTypes <- MCEventTypes
    Apis = {a1}
    Workers = {w1}
    BatchLimit = 1
    MaxFaults = 0
    ExtraBindings <- NoBindings
SPECIFICATION FairSpec
INVARIANT PublishedIsDelivered
CHECK_DEADLOCK FALSE
