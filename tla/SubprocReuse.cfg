\* A call whose child exits at once, with the kernel free to reuse its id.
SPECIFICATION Spec
CONSTANTS
    Leader = L
    Kids = {k1}
    Scanning = FALSE
    Cap = 1
    PipeSize = 1
    MaxChunks = 1
    Input = "nil"
    Faults = {}
INVARIANT KillsOnlyItsGroup
CHECK_DEADLOCK FALSE
