SPECIFICATION Spec
CONSTANTS
    Readers = {c1, c2, c3}
    Recorders = {r1, r2, r3}
    MaxSlot = 2
    Shutdown = TRUE
INVARIANTS
    RoundsConsistent
    ReadsSeeEarlierWrites
SYMMETRY Alike
CHECK_DEADLOCK FALSE
