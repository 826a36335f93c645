CONSTANTS
    MaxMessages = 2
    MaxSteps = 0
    MaxCrashes = 1
    Overlooks = {"late send", "empty turn"}
SPECIFICATION FairSpec
INVARIANTS
    InboxIsReplayable
    DeliveredOnce
PROPERTIES
    DisposeQuiesces
CHECK_DEADLOCK FALSE
