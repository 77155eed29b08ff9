SPECIFICATION Spec
CONSTANTS
    j1 = j1
    j2 = j2
    f1 = f1
    f2 = f2
    a = a
    b = b
    Job = {j1, j2}
    File = {f1, f2}
    Data = {a, b}
    Root = Root
    None = None
    Torn = Torn
    MaxAttempts = 2
    MAX_FETCH_RETRIES = 2
    Fits = {a}
    Mixes <- MCMixes
    Sources <- MCSources
    MaxEdits = 1
INVARIANT RequestsBounded
PROPERTIES ImplementsContentStore ResultsExact JobsEnd
CHECK_DEADLOCK FALSE
