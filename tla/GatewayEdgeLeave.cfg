CONSTANTS
    r1 = r1
    r2 = r2
    s1 = s1
    Request = {r1, r2}
    Verified = {r1, r2}
    Service = {s1}
    ServiceOf <- MCServiceOf
    MaxSlots = 1
    MaxBody = 1
SPECIFICATION FairSpec
PROPERTY SlotsReturned
CHECK_DEADLOCK FALSE
