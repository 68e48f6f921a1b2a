SPECIFICATION FairSpec
CONSTANTS
    Calls = {c1, c2, c3}
    Capacity = 2
    MaxBytes = 4
    MaxMembers = 2
    Sizes = {1, 2}
    Profiles = {"sql", "kv"}
    Faults = TRUE
INVARIANTS
    QueueConsistent
    ExecutedOnceAsReported
PROPERTIES
    EveryCallReturns
CHECK_DEADLOCK FALSE
