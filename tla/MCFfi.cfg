CONSTANTS
    t1 = t1
    t2 = t2
    Thread = {t1, t2}
    Hosts <- MCHosts
    MaxUris = 1
SPECIFICATION FfiSpec
INVARIANTS ErrorsExplained LeaksBounded
PROPERTY CallsReturn
CHECK_DEADLOCK FALSE
