CONSTANTS
    t1 = t1
    t2 = t2
    Tabs = {t1, t2}
    LearnerNames = {"ada", "bob"}
    MaxLearners = 2
    Flows = {"flow"}
    MaxRuns = 1
    MaxQuestion = 2
    MaxActs = 1
    Audits = {2}
    NotRead = NotRead
    AskedQueue = AskedQueue
    NoData = NoData
    NoFetch = NoFetch
    Unanswered = Unanswered
    A = A
    B = B
    Versions = {A, B}
    New = New
    MaxWork = 2
    MaxClicks = 2
    MaxSaves = 1
    MaxRows = 3
    UndoDepth = 2
    MaxSteps = 2
    Style <- MCStyle
    QType <- MCQType
    TypeOf <- MCTypeOf
    Subtopic <- MCSubtopic
    Fits <- MCFits
    CourseTypes = {"output"}
    Bank <- MCBank
    StyleOf <- MCStyleOf
    TagsOf <- MCTagsOf
    CellTarget <- MCCellTarget
    MaxSwitches = 2
    Course = Course
    NoSetup = NoSetup
    NoToggle = NoToggle
    NoType = NoType
    NoFit = NoFit
    y1 = y1
    y2 = y2
    NoText = NoText
    Texts = {y1, y2}
    Valid = {y1, y2}
    MaxShows = 1
    MaxBlocks = 1
    Files = {"book"}
    Videos = {"video"}
    NoSource = NoSource
    MaxRequests = 2
    MaxAtOnce = 2
    MaxUploaders = 2
    Pages = 3
    Chunks <- MCChunks
    MaxQuestions = 2
    MaxReads = 3
    Served <- MCServed
    NoQuestion = NoQuestion
    MaxIndent = 1
    MaxEdits = 4
SPECIFICATION Spec
INVARIANTS  StaleIdentityGivesWay SentAsConfirmed ProducedIsOffered  UnsavedWorkSurvives UndoRestores LastSwitchDecides ToldWhatItCosts ExamplesKeptRight  VideoHeldOnce  ArrangementKept
CHECK_DEADLOCK FALSE
