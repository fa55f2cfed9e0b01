\* Two processes, each with one of four command lines, and two names.
SPECIFICATION Spec
CONSTANTS
    n1 = n1
    n2 = n2
    p1 = p1
    p2 = p2
    Processes = {p1, p2}
    Names = {n1, n2}
    Chat = Chat
    MaxPixels = 12
    Motifs = {"drawing", "own"}
    Drawn <- MCDrawn
    Foreign <- MCForeign
    Commands <- MCCommands
SYMMETRY MCSymmetry
INVARIANTS
    ArtifactsAreTrue
    SuccessIsWhole
PROPERTY
    NothingReplaced
