SPECIFICATION FairSpec
CONSTANTS
    once = once
    twice = twice
    ever = ever
    bare = bare
    Routes = {once, twice, ever, bare}
    Mode <- MCMode
    MaxRetries <- MCMaxRetries
    MaxChunks = 1
    MaxAttempts = 4
    MaxReloads = 1
INVARIANTS
    BudgetHolds
    RetriesAreRecorded
    MessageIsOneAttempt
PROPERTIES
    AbortAndDisposalEnd
CHECK_DEADLOCK FALSE
