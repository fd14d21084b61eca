CONSTANTS
    r1 = r1
    r2 = r2
    s1 = s1
    s2 = s2
    mia = mia
    sam = sam
    rob = rob
    NoRequest = NoRequest
    NoAuthority = NoAuthority
    Free = Free
    Requests = {r1}
    Bound = {r1}
    Action <- MCAction
    Requester = rob
    Authorities <- MCAuthorities
    Sessions = {s1, s2}
    VaultCapacity = 1
    RequestTTL = 2
    GrantTTL = 1
    MaxClock = 1
    MaxRestarts = 1
SYMMETRY SessionSymmetry
SPECIFICATION PartSpec
INVARIANTS
    PartTypeOK
    RowsAgree
    VaultHoldsIssuedOnly
PROPERTIES
    NoLostUpdate
    ClaimRestsOnActiveApprovals
