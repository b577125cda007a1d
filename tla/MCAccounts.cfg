CONSTANTS
    None = None
    o1 = o1
    o2 = o2
    s1 = s1
    s2 = s2
    Ops <- MCOps
    Kinds <- AllKinds
    Tokens = {t1}
    Hashes = {"h0", "h1"}
    FirstHash = "h0"
    Secrets = {s1}
    Roles <- MCRoles
    RoleSets <- MCRoleSets
    MaxFaults = 1
SPECIFICATION FairSpec
INVARIANTS TypeOK MFAPaired RolesNotLost LostOnlyByRace TokenNotWasted
    UsedIsBurnt
PROPERTY LinksRest
CHECK_DEADLOCK FALSE
