SPECIFICATION Spec
CONSTANTS
    N = 3
    MaxEdges = 24
    MaxDeps = 4
    MaxDepth = 8
    MaxWidth = 8
    Plan <- Mover
    Effects = {1, 2}
    Repeatable = {}
    Scenarios <- FaultScenarios
    MaxAttempts = 2
    MaxRecoveries = 2
    MaxReplans = 1
    MaxRevisions = 2
    MaxCheckpoints = 4
    MaxFaults = 2
    MaxReceipts = 2
    MaxExecutions = 1
    LateRequests = FALSE
INVARIANTS
    TypeOK
    ProgressAgrees
    OwnCheckpointAccepted
PROPERTY ExecutesPlan
CHECK_DEADLOCK FALSE
