CONSTANTS
    Jobs = {j1, j2}
    Owners = {o1}
    Waits = {w1}
    Limit = 1
    Unowned = Unowned
    Outcomes = {"completed"}
    Budget = 1
    Wakes = TRUE
    MaxPrompts = 2
    LateNotices = FALSE
SPECIFICATION NFairSpec
INVARIANTS
    CompletionReported
    NoRedundantNotice
    GoneOwnsNothing
    TurnsWithinBudget
    HeldNoticeHasReason
PROPERTIES
    DisposalCompletes
CHECK_DEADLOCK FALSE
