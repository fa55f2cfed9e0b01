\* Two processes over two conversations, two turns long; everything may fail.
SPECIFICATION FairSpec
CONSTANTS
    Procs = {p1, p2}
    Convs = {c1, c2}
    MaxHistory = 4
    Faults = {"model", "database", "crash"}
    MaxCommands = 4
INVARIANTS
    TurnsAreSerial
    HistoryBounded
    NoOrphans
PROPERTIES
    TurnEnds
CHECK_DEADLOCK FALSE
