CONSTANTS
    k1 = k1
    k2 = k2
    k3 = k3
    None = None
    Tasks <- MCTasks
SPECIFICATION ProfileFairSpec
INVARIANTS ProfileTypeOK RequestsUndisturbed NothingCutOff MissingForCause
PROPERTY StopEnds
CHECK_DEADLOCK FALSE
