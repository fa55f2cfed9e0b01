\* Two processes, two invocations, fair ones: every fault but death, after which
\* nothing would have to end.
SPECIFICATION FairSpec
CONSTANTS
    NumItems = 2
    Procs = {p1, p2}
    Budgets = {2}
    Spacing = 1
    Editable = {}
    Faults = {"save", "commit", "provider", "signal"}
    MaxRuns = 2
PROPERTIES
    InvocationEnds
CHECK_DEADLOCK FALSE
