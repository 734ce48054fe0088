\* Liveness of a cancel and of a request for approval.
SPECIFICATION FairSpec
CONSTANTS
    Calls = {c1, c2}
    Commands = {"/up", "/health"}
    Ids = {i1}
    None = none
PROPERTY CancelAndRequestEnd
