SPECIFICATION FSpec
CONSTANTS
    Pusher = {p1, p2}
    File = {f1, f2}
    Data = {a, b}
    MaxMoveFailures = 2
    MaxEvictions = 1
INVARIANT GapsExplained
INVARIANT FetchExplained
PROPERTY ImplementsContentStore
SYMMETRY Symmetry
\* Every script ends, and then the system really stops.
CHECK_DEADLOCK FALSE
