\* A cycle that died and left its lock, and two starters that find it too old.
CONSTANTS
    None = None
    Cycles = {c1, c2, c3}
    LockStale = 1
    MaxClock = 1
SPECIFICATION CycleSpec
PROPERTY OnlyStaleLocksAreRemoved
CHECK_DEADLOCK FALSE
