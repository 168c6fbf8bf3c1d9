CONSTANTS
    r1 = r1
    r2 = r2
    s1 = s1
    Request = {r1, r2}
    Verified = {r2}
    Service = {s1}
    ServiceOf <- MCServiceOf
    MaxSlots = 1
    MaxBody = 1
SPECIFICATION FairSpec
INVARIANTS
    LoadBounded
    OversizeNeverPasses
    SlotsCounted
    SlotsInUse
    
PROPERTIES
    EveryoneAnswered
    CancellationArrives
    CloseEnds
CHECK_DEADLOCK FALSE
