CONSTANTS
    r1 = r1
    r2 = r2
    medium = medium
    v1 = v1
    v2 = v2
    x1 = x1
    x2 = x2
    Review <- MCReview
    Type = {"output"}
    LessonRun <- MCLessonRun
    MaxGuidelines = 3
    MaxEdits = 1
    MaxBreaks = 1
    Round <- MCRound
    Cell <- MCCell
    CellTargets <- MCCellTargets
    MaxSetups = 2
    RoundSize = 2
    LowStock = 1
    UnseenTarget = 3
    MaxElsewhere = 1
    MaxCrashes = 1
    MaxFaults = 1
SPECIFICATION AnySpec
INVARIANTS OneActiveRound CountersMatch  BlockedOnlyByFault GuidelinesEarned
PROPERTY ImplementsContract
CONSTRAINTS OneMishap Revised TwoDrafted
SYMMETRY Symmetry
CHECK_DEADLOCK FALSE
