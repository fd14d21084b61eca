SPECIFICATION Spec
CONSTANTS
    N = 4
    MaxEdges = 24
    MaxDeps = 4
    MaxDepth = 8
    MaxWidth = 8
    Plan <- Joiner
    Effects = {2, 3}
    Repeatable = {2}
    Scenarios = {"none"}
    MaxAttempts = 2
    MaxRecoveries = 1
    MaxReplans = 1
    MaxRevisions = 2
    MaxCheckpoints = 18
    MaxFaults = 1
    MaxReceipts = 2
    MaxExecutions = 2
    LateRequests = FALSE
PROPERTY ExecutesPlan
CHECK_DEADLOCK FALSE
