CONSTANTS
    j1 = j1
    Jobs = {j1}
    NoJobs = NoJobs
    Asked = Asked
    MaxVisits = 1
    MaxPresses = 0
SPECIFICATION PanelSpec
INVARIANT PageLoadIsQuiet
CHECK_DEADLOCK FALSE
