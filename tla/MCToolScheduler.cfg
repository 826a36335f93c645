CONSTANTS
    NumCalls = 3
    MaxParallel = 2
SPECIFICATION FairSpec
INVARIANTS
    ModelOrder
    ExclusiveIsBarrier
    AnsweredOnce
    EffectsAreRecorded
PROPERTIES
    Settles
CHECK_DEADLOCK FALSE
