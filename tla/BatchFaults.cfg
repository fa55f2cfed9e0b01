\* Two files, two processes, three invocations, every fault.
SPECIFICATION Spec
CONSTANTS
    NumItems = 2
    Procs = {p1, p2}
    Budgets = {2}
    Spacing = 1
    Editable = {}
    Faults = {"save", "commit", "provider", "crash", "signal"}
    MaxRuns = 3
SYMMETRY ProcSymmetry
INVARIANTS
    WriteAhead
    ResultsAgree
    NeverCorrupt
PROPERTIES
    NoRepeatedRequest
    RepeatNeedsConsent
    CallsAreSpaced
    ImplementsLedger
CHECK_DEADLOCK FALSE
