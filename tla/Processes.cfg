\* Two helpers, a pipe of two lines, both ways to read a command's output; a
\* playbook with two workers, over-long lines and interrupts.
SPECIFICATION MCSpec
CONSTANTS
    Helpers = {h1, h2}
    Workers = {w1, w2}
    IdleTicks = 2
    PipeSize = 2
INVARIANTS EndsClean PlaybookLeavesNothing
PROPERTIES StreamEnds WatchdogStrikes
