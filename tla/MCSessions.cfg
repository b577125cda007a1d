CONSTANTS
    None = None
    c1 = c1
    c2 = c2
    t1 = t1
    t2 = t2
    t3 = t3
    Calls <- MCCalls
    Tokens <- MCTokens
    Challenges = {m1}
    MaxFaults = 1
SPECIFICATION FairSpec
INVARIANTS TypeOK GoneHasHeir LogoutIsFinal TradedIsBurnt
PROPERTY AllSpentInTheEnd
CHECK_DEADLOCK FALSE
