\* Two tabs, two drags, one host of each kind.
SPECIFICATION Spec
CONSTANTS
    ConfigHosts = {dc}
    ExtensionHosts = {elk}
    InfraHosts = {box}
    Dragged = {dc, elk}
    Tabs = {t1, t2}
    Reloads = {r1}
    MaxEdits = 2
    MaxCommands = 1
    MaxLosses = 1
SYMMETRY Symmetry
INVARIANTS LayoutIsAccepted ShownIsSaved
PROPERTY NewestWins
\* The range may come to rest: nothing more to save, read or run.
CHECK_DEADLOCK FALSE
