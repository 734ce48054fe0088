\* Two parallel calls, one command of each kind.
SPECIFICATION Spec
CONSTANTS
    Calls = {c1, c2}
    Commands = {"/up", "/health", "/instances", "/login"}
    Ids = {i1, i2}
    None = none
SYMMETRY Symmetry
INVARIANTS ApprovalExact CancelReachesCommands TurnSettles
