SPECIFICATION FairSpec
CONSTANTS
    MaxChanges = 2
    MaxCap = 2
    MaxPrompts = 2
    MaxCancels = 1
    MaxLoops = 3
    OuterAwaits = FALSE
INVARIANTS
    RoundIsAdmissible
PROPERTIES
    PersonComesFirst
    CheckpointBeforeRound
    GoalComesToRest
CHECK_DEADLOCK FALSE
