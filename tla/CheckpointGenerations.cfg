SPECIFICATION GenSpec
CONSTANTS
    n1 = n1
    n2 = n2
    Node = {n1, n2}
    MaxIndex = 2
    LeaseTime = 1
    MaxPlans = 1
    MaxSweeps = 1
    MaxFaults = 1
    Slow = {}
SYMMETRY Symmetry
CHECK_DEADLOCK FALSE
INVARIANTS
    
    GenerationsHandOver
    PublishedIsRestorable
PROPERTIES
    ImplementsCheckpoint
