CONSTANTS
    n1 = n1
    n2 = n2
    o1 = o1
    o2 = o2
    o3 = o3
    i1 = i1
    i2 = i2
    x = x
    y = y
    z = z
    anon = anon
    Consistencies = {"local", "applied", "barrier"}
    Nodes = {n1, n2}
    Ids = {i1, i2}
    Payloads = {x, y, z}
    Weight <- MCWeight
    Fragile = {z}
    MaxBatchMembers = 3
    MaxLog = 2
    Calls = {1, 2}
    WriterBatchMax = 2
    TypedBatches <- MCTypedBatches
    Endpoints <- MCEndpoints
    Scenarios <- MCScenarios
SPECIFICATION Spec
INVARIANTS  AnswersAreTrue AdminAnswersAreTrue InFlightAccounted
 
CHECK_DEADLOCK FALSE
