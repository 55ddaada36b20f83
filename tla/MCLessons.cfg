CONSTANTS
    v1 = v1
    v2 = v2
    x1 = x1
    x2 = x2
    Review <- MCReview
    Type = {"output"}
    LessonRun <- MCLessonRun
    MaxGuidelines = 2
    MaxEdits = 1
    MaxBreaks = 0
SPECIFICATION LessonSpec
INVARIANT DeletedNeverSent
CHECK_DEADLOCK FALSE
