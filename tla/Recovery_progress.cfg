SPECIFICATION FairSpec
CONSTANTS
    N = 3
    MaxEdges = 24
    MaxDeps = 4
    MaxDepth = 8
    MaxWidth = 8
    Plan <- Mover
    Effects = {1, 2}
    Repeatable = {}
    Scenarios = {"none", "replan_eligible_once"}
    MaxAttempts = 2
    MaxRecoveries = 1
    MaxReplans = 1
    MaxRevisions = 2
    MaxCheckpoints = 18
    MaxFaults = 1
    MaxReceipts = 2
    MaxExecutions = 1
    LateRequests = FALSE
PROPERTY ExecutionEnds
CHECK_DEADLOCK FALSE
