SPECIFICATION Spec
CONSTANTS
    MaxIndex = 3
    SegmentEntries = 2
    MaxBatch = 2
INVARIANTS
    FilesConsistent
    ReturnedIsDurable
PROPERTIES
    ImplementsLog
