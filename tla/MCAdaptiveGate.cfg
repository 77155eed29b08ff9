SPECIFICATION FairSpec
CONSTANTS
    Task = {t1, t2, t3}
    Thread = {w1, w2, w3}
    Ceiling = 3
    Start = 2
    MaxRetunes = 3
INVARIANT PermitsConserved
INVARIANT BlockingExact
INVARIANT NoLostWakeup
PROPERTY AllServed
\* Every transfer ends, and then the system really stops.
CHECK_DEADLOCK FALSE
