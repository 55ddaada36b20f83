CONSTANTS
    j1 = j1
    j2 = j2
    Jobs = {j1, j2}
    NoJobs = NoJobs
    Asked = Asked
    MaxVisits = 2
    MaxPresses = 1
    p1 = p1
    Presses = {p1}
    MaxAttempts = 2
SPECIFICATION Spec
INVARIANTS  AnswersTheOffered
PROPERTIES  ResultGivesWay
CHECK_DEADLOCK FALSE
