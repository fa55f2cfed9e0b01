\* Scan, with a descendant, tiny pipes and a cap of one chunk, so that writers
\* block, captures overflow and ends outlive the leader.
SPECIFICATION FairSpec
CONSTANTS
    Leader = L
    Kids = {k1}
    Scanning = TRUE
    Cap = 1
    PipeSize = 1
    MaxChunks = 2
    Input = "long"
    Faults = {"start", "read"}
INVARIANTS
    NoPartialSuccess
    NoSurvivors
    QuietAfterReturn
PROPERTIES
    CallReturns
CHECK_DEADLOCK FALSE
