SPECIFICATION Spec
CONSTANTS
    Callers = {c1, c2}
    NumSlots = 3
    MaxInputs = 3
    MaxFaults = 1
    AppendWhileHeld = FALSE
VIEW SlotsView
INVARIANTS HeldIsCurrent SoleHolder OwnerExtendsLog FlushedIsDurable
PROPERTY CallIsAnswered
CHECK_DEADLOCK FALSE
