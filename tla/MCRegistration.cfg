CONSTANTS
    None = None
    Invalid = Invalid
    q1 = q1
    q2 = q2
    Requests <- MCRequests
    Workers = {w1, w2}
    Addresses <- MCAddresses
    Emails <- MCEmails
    NewEmail <- MCNewEmail
    Storable <- MCStorable
    Passwords <- MCPasswords
    Empty = ""
    MaxFaults = 2
SPECIFICATION FairSpec
INVARIANTS TypeOK AnnouncedOnce SettledHasUser OwnerAsked
PROPERTIES ImplementsDirectory UsableSettle
CHECK_DEADLOCK FALSE
