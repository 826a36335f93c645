CONSTANTS
    MaxMessages = 2
    MaxSteps = 0
    MaxCrashes = 0
    Overlooks = {"late send"}
SPECIFICATION Spec
INVARIANTS
    NoWakeStranded
CHECK_DEADLOCK FALSE
