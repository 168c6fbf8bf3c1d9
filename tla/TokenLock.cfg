CONSTANTS
    p1 = p1
    d1 = d1
    Proc = {p1, p2, p3}
    NoProc = NoProc
    Inode = {d1, d2, d3}
    NoDir = NoDir
    Mortal = {p1, p2, p3}
    Flaky = {p1}
    Prompt = TRUE
    Reuse = FALSE
    Steady = FALSE
    Patient = FALSE
SPECIFICATION Spec
SYMMETRY Alike
INVARIANTS
    HolderBacked
PROPERTIES
    
    MutationsAreSerial
CHECK_DEADLOCK FALSE
