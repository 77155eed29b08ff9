SPECIFICATION Spec
CONSTANTS
    Job = {j1, j2}
    File = {f1, f2}
    Data = {a, b}
    MaxChanges = 1
INVARIANT SuccessIsRestorable
PROPERTY ImplementsContentStore
PROPERTY PruneExact
\* Every job ends, and then the system really stops.
CHECK_DEADLOCK FALSE
SYMMETRY Symmetry
