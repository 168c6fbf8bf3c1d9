CONSTANTS
    p1 = p1
    d1 = d1
    Proc = {p1, p2, p3}
    NoProc = NoProc
    Inode = {d1, d2, d3}
    NoDir = NoDir
    Mortal = {p2}
    Flaky = {}
    Prompt = TRUE
    Reuse = FALSE
    Steady = FALSE
    Patient = TRUE
SPECIFICATION AbandonedSpec
PROPERTIES
    NobodyIsLockedOut
CHECK_DEADLOCK FALSE
