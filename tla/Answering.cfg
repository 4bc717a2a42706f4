\* One connection in detail, three turns with the others, every fault.
CONSTANTS
    MaxAsks = 3
    MaxTokens = 2
    Recent = 1
    After = 2
    Faults = {"error", "leave", "clear", "llm"}
SPECIFICATION Spec
INVARIANTS  SummaryIsOfOlderTurns
CHECK_DEADLOCK FALSE
