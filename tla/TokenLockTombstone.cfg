CONSTANTS
    p1 = p1
    d1 = d1
    Proc = {p1, p2, p3, p4}
    NoProc = NoProc
    Inode = {d1, d2}
    NoDir = NoDir
    Mortal = {p2}
    Flaky = {p2}
    Prompt = TRUE
    Reuse = FALSE
    Steady = FALSE
    Patient = TRUE
SPECIFICATION OrphanedSpec
PROPERTIES
    TombstonesStay
CHECK_DEADLOCK FALSE
