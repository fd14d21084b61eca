CONSTANTS
    r1 = r1
    r2 = r2
    e = e
    None = None
    Modes = {"dom", "vision", "hybrid", "recovery"}
    Requests = {r1, r2}
    Expiry = e
    MaxActions = 2
    MaxObservations = 2
    Cancellable = TRUE
SPECIFICATION FairSpec
INVARIANTS
    TypeOK
PROPERTIES
    HybridReferencesAreFresh
    ActionOwnsSession
    EverySessionReleased
CHECK_DEADLOCK FALSE
