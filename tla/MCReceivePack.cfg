SPECIFICATION Spec
CONSTANTS
    Session = {c1, c2}
    File = {f1, f2}
    Data = {a, b}
    MaxPowerLoss = 2
INVARIANT PackSurvives
PROPERTY ImplementsContentStore
PROPERTY SuccessIsDurable
\* Every session ends, and then the system really stops.
CHECK_DEADLOCK FALSE
SYMMETRY Symmetry
