\* Default settings and config/rules.toml; every component has its own bounds.
CONSTANTS
    None = None
    Settings <- DefaultSettings
    Strategy <- DefaultStrategy
    RuleScores <- DefaultScores
    Sources <- TwoSources
    NoSource = NoSource
    Lengths = {8, 20, 49}
    MatchScores = {0, 24}
    ModelScores = {54, 69, 82}
    FaqScores = {61, 72, 78, 86}
    Keys = {k1, k2}
    Sizes = {2, 9}
    MaxHits = 2
    TopN = 2
    MaxChars = 6
    MaxDocChars = 5
    Overlaps = {0, 100}
    MaxClaims = 2
    TopScores = {100}
    IntentScores = {68, 100}
    LengthSignals = {100}
    Callers = {c1, c2}
    TelemetryLimit = 2
    Obligations = {o1}
    Names = {n1, n2}
    Chunks = {k1, k2}
    Retrieved = {k1}
    Scores = {0, 9}
    MaxFound = 2
    Fits = {0, 70, 100}
    MaxGold = 3
    MaxPredicted = 2
    MaxQuestions = 2
    FaqGrid = {70, 72, 74, 75, 76, 78}
    IntentGrid = {50, 54, 55, 56, 58, 62}
    StartPolicy <- StartingPolicy
    SampleSets <- AllSamples
    MinPrecision = 9500
    MinRecall = 8000
    MaxFalseDirect = 500
    MinPositive = 2
    MinNegative = 2
    MinIntentCases = 6
    MaxChanges = 2
    Wordings <- EightWordings
    ModelRules <- SixRules
    EventDates <- TenDates
    RunDates <- TwoDays
    CaseIds = {"a", "b", "c", "d", "e"}
    Datasets <- ThreeDatasets
    Scenarios = {"t1", "t2"}
    Origins = {"o1"}
    Rated = {"f"}
    ScenarioOf <- ScenarioOfRated
    Observations <- FiveObservations
    Policies = {"replace", "skip", "error"}
    Limit = 5
    MaxRounds = 1
SPECIFICATION Spec
INVARIANTS
    QuestionsAreRoutedSafely
    GradesAreEarned
    CallsAreAccounted
    MergingIsCautious
    ScoresAreFair
    
  
CHECK_DEADLOCK FALSE
