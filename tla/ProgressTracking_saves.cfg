SPECIFICATION FairSpec
CONSTANTS
    Kinds = {"resource", "exercise", "practice", "exam"}
    Items = {1}
    Full = 3
    Threshold = 2
    TimeThreshold = 3
    MaxRetries = 2
    NumCalls = 4
    NumSessions = 2
    MaxRounded = 2
    MaxFailures = 1
INVARIANTS
    RecordedOnce
    ServerKnowsProgress
PROPERTIES
    StatesInOrder
    StopMeansSaved
    PromisesSettle
    LeftIsSaved
CHECK_DEADLOCK FALSE
