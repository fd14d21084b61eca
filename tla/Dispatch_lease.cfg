CONSTANTS
    r1 = r1
    r2 = r2
    s1 = s1
    s2 = s2
    o1 = o1
    w1 = w1
    NoRun = NoRun
    NoOwner = NoOwner
    Runs = {r2}
    NeedsApproval = {r2}
    BoundRuns = {r2}
    Watched = {r2}
    Orgs = {o1}
    OrgOf <- MCOneOrg
    Slots = {s1, s2}
    Owners = {w1}
    OwnerOf <- MCOneProcess
    MaxAttempts = 2
    OrgCapacity = 1
    TotalCapacity = 1
    TraceLimit = 11
    OutcomeEvents = {2}
    Draining = TRUE
SPECIFICATION Spec
SYMMETRY SlotSymmetry
INVARIANTS
    TypeOK
    RowsAgree
    FencesDistinct
    LeaseLedger
    ReadyCountExact
    GrantFollowsRun
PROPERTIES
    CommitIsFenced
    TerminalIsFinal
    CancelSeesCurrent
    DispatchIsFencedQueue
