SPECIFICATION Spec
CONSTANTS
    Callers = {c1}
    NumSlots = 1
    MaxInputs = 4
    MaxFaults = 0
    AppendWhileHeld = TRUE
VIEW SlotsView
INVARIANT FlushedIsDurable
CHECK_DEADLOCK FALSE
