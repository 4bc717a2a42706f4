SPECIFICATION Spec
CONSTANTS
    Requests = {q1, q2}
    Runs = {r1, r2, r3}
    NoRun = NoRun
    StaleAfter = 1
    MaxNow = 2
    Faults = {"stage", "db", "crash"}
SYMMETRY Symmetry
INVARIANTS
    TypeOK
    AtMostOneRunning
    ReadersSeeLastPublished
    ContractStatusTruthful
PROPERTIES
    EndedRunsAreFrozen
    LateFailureKeepsStatus
    ImplementsLedger
CHECK_DEADLOCK FALSE
