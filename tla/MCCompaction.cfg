SPECIFICATION Spec
CONSTANTS
    Pruner = {TRUE, FALSE}
    Threshold = 4
    RetainTokens = 1
    CompactionRetries = 1
    MaxOverflowRetries = 1
    PrunedTokens = 2
    CallCounts = {0, 2}
    ResultSizes = {3}
    SummarySizes = {1, 3}
    MaxActs = 3
INVARIANTS
    SurfaceIsPaired
    ProjectionIsExact
    LogIsBracketed
    SummariesLand
    ReportedIsTrue
    RetriesMakeProgress
CHECK_DEADLOCK FALSE
