SPECIFICATION SftpFairSpec
CONSTANTS
    Pusher = {p1, p2}
    File = {f1, f2}
    Data = {a, b}
    Jobs = 2
    PosixRename = FALSE
    OddListing = TRUE
INVARIANT GapIsARename
PROPERTY GapsClose
\* Every script ends, and then the system really stops.
CHECK_DEADLOCK FALSE
