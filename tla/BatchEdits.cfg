\* One process; the instruction and the second input are edited at any moment; one
\* or two calls per invocation and a pause between them.
SPECIFICATION Spec
CONSTANTS
    NumItems = 2
    Procs = {p1}
    Budgets = {1, 2}
    Spacing = 2
    Editable = {0, 2}
    Faults = {"provider", "signal", "save"}
    MaxRuns = 3
INVARIANTS
    ResultsFromPlan
    CompleteIsTrue
CHECK_DEADLOCK FALSE
