CONSTANTS
    a = a
    b = b
    l1 = l1
    t1 = t1
    t2 = t2
    q1 = q1
    None = None
    Null = Null
    Users <- MCUsers
    FirstAdmins <- MCFirstAdmins
    Roles <- MCRoles
    RoleSets <- MCRoleSets
    Logins <- MCLogins
    Tokens <- MCTokens
    Calls <- MCCalls
    SigningKey = "rsa"
    GuardKey = "rsa"
    MaxCommands = 2
SPECIFICATION FairSpec
INVARIANTS TypeOK HandedDown OnlyLateOnesRevert
PROPERTY RevocationEnds
CHECK_DEADLOCK FALSE
