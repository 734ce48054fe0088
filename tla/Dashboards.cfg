\* Three passes with channels that fill up; a report of three findings, one
\* press of r, one fetch that fails, one deletion of the report.
SPECIFICATION MCSpec
CONSTANTS
    MaxPasses = 3
    PerPass = 3
    Seed = 1
    Capacity = 2
    PhaseCapacity = 1
    DomainOrder <- TheOrder
    MaxFindings = 3
    MaxPresses = 1
    MaxErrors = 1
CHECK_DEADLOCK FALSE
INVARIANTS OneShotExact ScoringsAgree KnownAdminCounts
PROPERTIES EndsSettled BoardCatchesUp
