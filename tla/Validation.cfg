\* Each check alone, and two checks with retries of their own two at a time.
SPECIFICATION FairSpec
CONSTANTS
    Hosts = {dc, srv}
    DCs = {dc}
    Workers = {w1, w2}
    Table <- RunAllChecks
    Together = {"ConfiguredUsers", "ACLPermissions"}
    Attempts = 2
    Retries = 2
    DeadThreshold = 2
    None = None
CHECK_DEADLOCK FALSE
INVARIANTS VerdictEvidenced NothingDropped
PROPERTY RunEnds
