\* Two processes, three openings, twelve databases, every fault.
SPECIFICATION Spec
CONSTANTS
    Procs = {p1, p2}
    Databases <- Found
    Faults = {"disk", "crash"}
    MaxOpens = 3
    MaxMessages = 4
SYMMETRY Symmetry
INVARIANTS
    UpgradeIsWhole
    OrderKept
PROPERTIES
    BackedUpFirst
    NoTransientCollision
CHECK_DEADLOCK FALSE
