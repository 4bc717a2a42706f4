\* One process, two requests, two versions, every fault.
CONSTANTS
    p1 = p1
    r1 = r1
    r2 = r2
    v1 = v1
    v2 = v2
    None = None
    Procs = {p1}
    Requests = {r1, r2}
    Versions = {v1, v2}
    MaxEpoch = 3
    MaxGen = 1
    MaxColl = 1
    Faults = {"crash", "redis"}
SPECIFICATION Spec
SYMMETRY Symmetry
INVARIANTS CachedIsOfItsEpoch StaleOnlyThroughL1 SearchesLiveCollection
CHECK_DEADLOCK FALSE
