\* Liveness of cancellation, with the fairness of the event loop.
SPECIFICATION FairSpec
CONSTANTS
    Sockets = {s1}
    Turns = {t1}
    Swaps = {w1}
    Deletes = {d1}
    Server = server
    Runtimes = {r1, r2, r3}
    StartMayFail = FALSE
    None = none
PROPERTY CancelReleases
