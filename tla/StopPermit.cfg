CONSTANTS
    i1 = i1
    i2 = i2
    c1 = c1
    c2 = c2
    p = p
    Issuer <- MCIssuer
    Consumer <- MCConsumer
    Permit = {p}
    PermitOf <- OnePermit
    NoFile = NoFile
    Expires = 1
    MaxTime = 1
SPECIFICATION Spec
INVARIANTS
    OneAuthorization
    IssuedStays
PROPERTY NoStaleAuthorization
CHECK_DEADLOCK FALSE
