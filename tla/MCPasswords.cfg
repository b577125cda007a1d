CONSTANTS
    None = None
    Calls = {c1, c2}
    Plain <- MCPlain
    Releases <- MCReleases
    MaxFaults = 1
SPECIFICATION FairSpec
INVARIANTS TypeOK AlwaysComparable OnlyChosen
PROPERTIES OnlyAResetUnsettles LegacyReplaced
CHECK_DEADLOCK FALSE
