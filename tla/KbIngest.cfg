\* One file with two texts or none, one question, all practices.
CONSTANTS
    f1 = f1
    A = A
    B = B
    E = E
    q = q
    None = None
    Files = {f1}
    Contents = {A, B, E}
    Empty = E
    Questions = {q}
    MaxSeq = 3
    Modes = {"incremental", "full", "rerun"}
    Practices = {"crash", "gate", "cleanup", "edit", "branch"}
SPECIFICATION Spec
INVARIANTS ViewsAreExact NewestViewIsIndexed
PROPERTY BuildKeepsOlderViews
CHECK_DEADLOCK FALSE
