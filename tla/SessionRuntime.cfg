\* Turns, deletions and shutdown; two sockets, two deletions.
SPECIFICATION Spec
CONSTANTS
    Sockets = {s1, s2}
    Turns = {t1, t2}
    Swaps = {}
    Deletes = {d1, d2}
    Server = server
    Runtimes = {r1, r2, r3}
    StartMayFail = TRUE
    None = none
SYMMETRY Symmetry
INVARIANTS TurnsContained DeletionExclusive NoOrphanData
PROPERTY ImplementsContract
