\* A contract, a supplement and a re-analysis; no process dies and MySQL
\* answers, an administrator may roll the knowledge base back.
CONSTANTS
    d1 = d1
    d2 = d2
    a1 = a1
    Documents = {d1, d2}
    First = d1
    Analysts = {a1}
    NoRun = NoRun
    MaxSeq = 2
    Faults = {"parse", "milvus", "stage", "stale", "rollback"}
SPECIFICATION Spec
SYMMETRY Symmetry
INVARIANTS BusyMeansAtWork
CHECK_DEADLOCK FALSE
