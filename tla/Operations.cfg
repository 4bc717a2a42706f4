\* Every component has its own bounds.
CONSTANTS
    None = None
    Operators = {o1}
    Versions = {v1, v2, v3}
    NoVersion = NoVersion
    Configured = NoVersion
    MaxEpoch = 3
    MaxIngests = 1
    MaxSeq = 3
    ScenarioOrder <- TwoScenarios
    DataStates = {"x", "y"}
    MaxReleases = 2
    Cycles = {c1, c2}
    LockStale = 1
    MaxClock = 1
    PageTexts <- FourPages
    Shapes <- ElevenShapes
    Rows <- SixRows
    MaxFiles = 2
    MaxRows = 2
    LongWords = {"w1"}
    TopRelated = 2
    ConflictLimit = 1
    Thresholds = {0, 2}
    Scans <- TwoScans
    OutputDirs <- TwoDirs
    MaxOcrRuns = 2
    MaxPromotions = 2
    Contracts = {k1, k2, k3}
    Uploaded = {k3}
    MaxCalls = 4
    MaxAsked = 1
    Labels = {"faq", "follow"}
    DatasetContents <- FiveContents
    MaxTrainings = 2
    MaxEdits = 1
    NameOrder <- ThreeNames
    EntityId <- IdOfName
    Texts <- FiveTexts
    Questions <- FourQuestions
    MaxTexts = 4
    FileLimit = 2
    PathLimit = 2
    Talks <- ThreeTalks
    Replies <- SixReplies
    TurnLimit = 2
    MaxReplays = 2
    Timings <- ManyTimings
    MaxAverage = 3
    MaxP95 = 5
    MaxFirst = 2
    MaxFirstP95 = 4
SPECIFICATION OperationsSpec
INVARIANTS
    VersionsAgree
    
    CyclesKeepApart
    
    PageActsOnItsContract
    
    
PROPERTIES SeqIsStable 
CHECK_DEADLOCK FALSE
