CONSTANTS
    Parts = {"agent", "admission", "audit", "identity", "plan", "planning", "memory"}
    Sessions = {s1, s2}
    Actors = {ann, bob}
    Org = org
    Keys = {"k1"}
    Bodies = {ticket, inspect, wipe}
    Level <- MCLevel
    Rate <- MCRate
    Burst <- MCBurst
    MicroToken = 1
    Capacity = 1
    MaxClock = 1
    Traffic <- MCTraffic
    Payloads = {"run_queued"}
    Limit = 2
    MaxEvents = 3
    Orgs = {alpha, beta}
    Users = {ada, eve}
    Memberships = {ma, me}
    Memories = {m1, m2}
    Home <- MCHome
    Member <- MCMember
    FirstRows <- MCFirstRows
    Values = {"p"}
    Claims = {"organization_admin", "operator"}
    Kids = {"k1", "k2"}
    FirstKids = {"k1"}
    MaxFetches = 2
    MaxWrites = 2
    Plan <- MCPlan
    Order <- MCOrder
    Instructions <- MCInstructions
    Budgets <- MCBudgets
    Scenarios = {"complete_with_rejection_probe", "finish_immediately",
                 "verifier_inconclusive", "out_of_order_probe"}
    Requests = {1, 2}
    Tasks = {"w3", "w7"}
    Notes = {1, 2}
    Fields = {1, 2}
    ReadLimit = 1
    Batches <- MCBatches
    Times = {1, 2}
    Never = 3
    ticket = ticket
    inspect = inspect
    wipe = wipe
    alpha = alpha
    beta = beta
    ada = ada
    eve = eve
    ma = ma
    me = me
    m1 = m1
    m2 = m2
    None = None
    Kinds = {"dom", "vision", "hybrid"}
    Targets = {a, b}
    MaxSteps = 3
    MaxCalls = 2
    MaxTokens = 2
    MaxRepeated = 1
    MaxNoProgress = 1
    MaxDoms = 3
    MaxImages = 2
    PixelBudgets = {1, 3}
    MaxSwitches = 2
    Usage = {0, 1, 2}
    ImageCosts = {1, 2}
    FakeTokens = 1
    N = 4
    MaxEdges = 5
    MaxDeps = 2
    MaxDepth = 3
    MaxWidth = 2
SYMMETRY Symmetry
SPECIFICATION MCSpec
CHECK_DEADLOCK FALSE
INVARIANTS
    AllTypeOK
    OneRunPerKey
    RateHeldInOrder
    ValidIsWhatWasWritten
    ReadCoversHead
    TopologyDecidesCycles
    RevisionReplacesSubgraph
    FinishedMeansDone
    NoBrowserLeft
    BudgetsHold
PROPERTIES
    VersionsNameStates
    WritesAreAuthorized
    SwitchIsAffordable
    AssemblyIsAtomic
