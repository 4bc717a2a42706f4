SPECIFICATION FairSpec
CONSTANTS
    Requests = {q1, q2}
    Runs = {r1, r2}
    NoRun = NoRun
    StaleAfter = 1
    MaxNow = 2
    Faults = {"stage", "degrade"}
PROPERTIES
    EveryRunEnds
    AnalyzingEnds
CHECK_DEADLOCK FALSE
