CONSTANTS
    MaxMessages = 3
    MaxSteps = 1
    MaxCrashes = 0
    Overlooks = {}
SPECIFICATION Spec
VIEW DriverView
INVARIANTS
    LogIsValid
    NoWakeStranded
PROPERTIES
    AbortIsFinal
CHECK_DEADLOCK FALSE
