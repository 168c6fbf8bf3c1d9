CONSTANTS
    Content <- MCContent
    Valid <- MCValid
    MaxRuns = 1
SPECIFICATION Spec
INVARIANT RefusedStays
CHECK_DEADLOCK FALSE
