CONSTANTS
    Served <- MCServed
    NoQuestion = NoQuestion
    MaxIndent = 1
    MaxEdits = 4
SPECIFICATION ParsonsSpec
PROPERTY AlwaysSyncs
CHECK_DEADLOCK FALSE
