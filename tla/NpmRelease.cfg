SPECIFICATION Spec
CONSTANTS
    c1 = c1
    c2 = c2
    Clone <- MCClone
    MaxVersion = 3
    MaxRuns = 3
    MaxChanges = 2
    Nobody = Nobody
SYMMETRY CloneSymmetry
INVARIANTS
    PublishedIsTagged
    PushedIsInstallable
    PushedOnMain
    RetryIsEnough
    
CHECK_DEADLOCK FALSE
