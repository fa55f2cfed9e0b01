\* Every command line that is refused and two that are not; two clients,
\* any number of requests, one slot or two.
SPECIFICATION Spec
CONSTANTS
    r1 = r1
    r2 = r2
    Clients = {r1, r2}
    Kinds = {"models", "text", "images", "picture", "stream"}
    Startups <- MCStartups
INVARIANTS
    CapacityIsExact
    OnlyTheAuthorized
    AnswerIsTrue
    NothingLeftBehind
PROPERTY
    AllEnds
