CONSTANTS
    None = None
    Rows <- MCOneRow
    EventTypes <- MCOneType
    Apis = {a1}
    Workers = {w1}
    BatchLimit = 1
    MaxFaults = 2
    ExtraBindings <- Bridged
SPECIFICATION FairSpec
PROPERTIES OutboxDrains HandledUnlessCutOff
CHECK_DEADLOCK FALSE
