CONSTANTS
    j1 = j1
    j2 = j2
    j3 = j3
    h1 = h1
    h2 = h2
    f1 = f1
    g1 = g1
    g2 = g2
    g3 = g3
    NoJob = NoJob
    NoFill = NoFill
    small = small
    large = large
    other = other
    None = None
    Admin <- MCHandler
    Model <- MCModel
    EnvModel = small
    Chunk <- MCChunk
    Shelf <- MCShelf
    Job <- MCJob
    Handler <- MCHandler
    Request = {f1}
    Gap <- MCGap
    TopicOf <- MCTopicOf
    Plans <- MCPlans
    Kind = {"counted", "embedding"}
    SheetSize = 3
    MaxUnits = 3
    MaxSheets = 1
    MaxFills = 2
    MaxCrashes = 1
    MaxFaults = 1
SPECIFICATION AnySpec
INVARIANTS SheetMadeOnce  NoTargetForgotten SwitchIsAllOrNothing
CONSTRAINTS FewMishaps TwoSwitches
VIEW View
SYMMETRY Symmetry
CHECK_DEADLOCK FALSE
