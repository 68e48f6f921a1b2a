SPECIFICATION Spec
CONSTANTS
    MaxSlot = 2
    MaxConfig = 2
    Commands <- OneClient
    FrameLimit = 2
    MaxOps = 4
    MaxCrashes = 2
    MaxErrors = 1
INVARIANTS
    StoreConsistent
    AcknowledgedSurvives
    CommandsStayAvailable
    NothingAfterTheSeal
    ReopensOutsideThreeStates
CHECK_DEADLOCK FALSE
