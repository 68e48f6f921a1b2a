SPECIFICATION FairSpec
CONSTANTS
    Node = {n1, n2}
    MaxIndex = 2
    MaxFaults = 1
    Modes = {"sync", "bounded"}
CHECK_DEADLOCK FALSE
INVARIANTS
    CoordinatorConsistent
    ReliedOnIsArchived
PROPERTIES
    DurableNeverRegresses
    
