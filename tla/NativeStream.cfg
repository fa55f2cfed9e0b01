\* Texts of up to two letters, so that a snapshot can extend, repeat, shorten
\* and revise another; four events, one line in the pipe.
SPECIFICATION FairStreamSpec
CONSTANTS
    Letters = {a, b}
    MaxText = 2
    MaxEvents = 4
    PipeSize = 1
INVARIANTS
    NeverRevised
    CompleteIsWhole
    WireInOrder
PROPERTIES
    RequestEnds
CHECK_DEADLOCK FALSE
