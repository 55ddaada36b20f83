CONSTANTS
    tab1 = tab1
    tab2 = tab2
    Tab <- OneTab
    MaxJobs = 1
    MaxAttempts = 2
    MaxCrashes = 0
    MaxFaults = 0
SPECIFICATION Spec
INVARIANT CompletedSessionEnds
CHECK_DEADLOCK FALSE
