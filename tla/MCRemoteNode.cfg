CONSTANTS
    MaxIndex = 2
    Generations = {1, 2}
    CallerGeneration = 1
    Calls = {1, 2}
    Conns = {1, 2, 3}
    Permits = 1
    MaxConnections = 2
    PerLane = 1
    InFlight = 2
    BridgeDepth = 1
    WorkerQueue = 1
    Scenarios <- MCScenarios
SPECIFICATION Spec
INVARIANTS RecorderVotesSurvive ServingViewIsWhole  AnswersMatchCalls TransportAccounted
CHECK_DEADLOCK FALSE
