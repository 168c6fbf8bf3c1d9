CONSTANTS
    h1 = h1
    h2 = h2
    script = script
    A = A
    B = B
    Helper = {h1, h2}
    Script = {script}
    Digest = {A, B}
    Rendered <- MCRendered
    Boot <- MCBoot
    MaxEvents = 3
    Nobody = Nobody
SPECIFICATION Spec
INVARIANTS
    OwnedOnce
PROPERTIES
    
    AllOrNone
    YesIsTrue
    NoIsTrue
CHECK_DEADLOCK FALSE
