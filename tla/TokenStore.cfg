CONSTANTS
    gateway = gateway
    cli = cli
    old = old
    new = new
    v1 = v1
    v2 = v2
    v3 = v3
    own = own
    ext = ext
    issue = issue
    Store = {gateway, cli}
    Token = {old, new}
    Stored = {old}
    Verify = {v1, v2, v3}
    Issue = {issue}
    Revoke = {own, ext}
    At <- MCAt
    Of <- MCOf
    Interval = 1
    MaxWaiters = 1
    MayFail = {"refresh", "lock", "reload", "persist", "release"}
    Prompt = TRUE
    MaxTime = 3
    Nobody = Nobody
SPECIFICATION Spec
SYMMETRY Calls
INVARIANTS
    CacheHonest
    AckedStays
    
    OwnRevocationHolds
    WaitersBounded
CHECK_DEADLOCK FALSE
