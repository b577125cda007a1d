CONSTANTS
    None = None
    o1 = o1
    o2 = o2
    s1 = s1
    s2 = s2
    Ops <- MCOneOp
    Kinds <- MCAsWired
    Tokens = {t1}
    Hashes = {"h0", "h1"}
    FirstHash = "h0"
    Secrets = {s1}
    Roles <- MCRoles
    RoleSets <- MCRoleSets
    MaxFaults = 0
SPECIFICATION FairSpec
INVARIANT ConfirmedIsVerified
CHECK_DEADLOCK FALSE
