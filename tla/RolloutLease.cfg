SPECIFICATION FairSpec
CONSTANTS
    a = a
    b = b
    c = c
    e = e
    Proc <- MCProc
    NoProc = NoProc
    Pid <- MCProc
    PidOf <- ReusedPid
    Contender = {a, b, c}
    Mortal = {a, b}
    Flaky = {a}
    Inode = {d1, d2}
    NoDir = NoDir
    VerifierAnswers = {TRUE}
    MaxAttempts = 2
    MaxAcquire = 2
INVARIANTS
    HandleBacked
PROPERTIES
    LiveNeverReclaimed
    FailClosed
    KeepsPromise
    StaleLeaseReclaimed
CHECK_DEADLOCK FALSE
