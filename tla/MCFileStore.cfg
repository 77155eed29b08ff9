SPECIFICATION FairSpec
CONSTANTS
    Proc = {p1, p2}
    File = {f1}
    Data = {a, b}
    PidOf <- OwnPid
    Torn = Torn
    ManifestSlot = ManifestSlot
    None = None
    MaxRetries = 2
    MaxEdits = 1
INVARIANT ObjectsIntact
INVARIANT ManifestsComplete
PROPERTY ImplementsContentStore
PROPERTY PushEnds
\* Every process ends, and then the system really stops.
CHECK_DEADLOCK FALSE
