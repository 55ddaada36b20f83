CONSTANTS
    j1 = j1
    j2 = j2
    Job <- MCJob
    Kind = {"counted", "embedding", "import"}
    MaxUnits = 2
    MaxCrashes = 1
    MaxFaults = 1
SPECIFICATION FairSpec
INVARIANTS CountTrailsByOne  StrandedOnlyByFault
PROPERTIES EveryJobEnds ImplementsContract
CONSTRAINT Ordered
CHECK_DEADLOCK FALSE
