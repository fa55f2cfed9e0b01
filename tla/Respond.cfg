\* Twenty-two command lines, five configurations, three Macs; two images, and
\* one change of a file or of the shortcuts while the command runs.
SPECIFICATION Spec
CONSTANTS
    p1 = p1
    p2 = p2
    i1 = i1
    i2 = i2
    i3 = i3
    References <- Known
    Uuids <- UuidShaped
    Cases <- Scenarios
    Paths = {p1, p2}
    Layouts <- OneEach
    Inodes = {i1, i2, i3}
    MaxEdits = 1
INVARIANTS
    NeverAnsweredTwice
    OnlyKnownBridges
    InputsAsChecked
    OutcomeIsTrue
PROPERTIES
    CommandEnds
