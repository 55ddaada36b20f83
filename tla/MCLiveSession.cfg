CONSTANTS
    tab1 = tab1
    tab2 = tab2
    Tab <- MCTab
    MaxJobs = 2
    MaxAttempts = 2
    MaxCrashes = 1
    MaxFaults = 1
SPECIFICATION Spec
INVARIANTS OneLiveJob OnceWhenAlone NoLiveQuestionLost
PROPERTY AnswersStand
CONSTRAINTS OneMishap NotTold
VIEW View
SYMMETRY Symmetry
CHECK_DEADLOCK FALSE
