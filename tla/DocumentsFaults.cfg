\* A contract, a supplement and a re-analysis; anything may fail or die.
CONSTANTS
    d1 = d1
    d2 = d2
    a1 = a1
    Documents = {d1, d2}
    First = d1
    Analysts = {a1}
    NoRun = NoRun
    MaxSeq = 1
    Faults = {"parse", "milvus", "db", "stage", "stale", "crash"}
SPECIFICATION Spec
INVARIANTS SuccessIsAnalysed FailedLeavesNothing
CHECK_DEADLOCK FALSE
