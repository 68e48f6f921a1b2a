SPECIFICATION Spec
CONSTANTS
    Image = {i0, i1}
    Torn = torn
    Key = {k}
    Request = {r1, r2}
    MaxBatch = 2
    TreePages = 5
    MaxPages = 2
    MaxFrames = 2
    MaxIndex = 2
    MaxFaults = 2
    MaxByte = 1
    KeyBytes = 2
    ScanRows = 2
    ScanBytes = 2
    RowBytes = {1, 3}
INVARIANTS
    ViewMatchesReplay
    ReopensUnlessCompacted
    AcknowledgedStaysVisible
CHECK_DEADLOCK FALSE
