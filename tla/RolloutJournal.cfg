\* Three process instances that use the journal one after the other, with two
\* plans, on shortened phase ladders.
CONSTANTS
    Proc = {p1, p2, p3}
    NoProc = NoProc
    Authority = {a1, a2}
    NoRecord = NoRecord
    LastActivation = 3
    LastRollback = 2
SPECIFICATION Spec
SYMMETRY Interchangeable
INVARIANTS
    JournalTypeOK
    ReplacesExpected
    HandleReadable
    AckedSurvives
PROPERTY KeepsPromise
CHECK_DEADLOCK FALSE
