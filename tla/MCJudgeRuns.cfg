CONSTANTS
    collector = collector
    professor = professor
    accuracy = accuracy
    clarity = clarity
    r1 = r1
    Run = {r1}
    Question <- MCQuestion
    Metric <- MCMetric
    Plan <- MCPlan
    Poller <- MCPoller
    Collector = collector
    Generated = {1}
    MaxBad = 1
    MaxFaults = 1
SPECIFICATION FairSpec
INVARIANTS CountsMatchHistory JudgedForGood
PROPERTY RunsSettle
CHECK_DEADLOCK FALSE
