SPECIFICATION Spec
CONSTANTS
    MaxChanges = 2
    MaxCap = 1
    MaxPrompts = 0
    MaxCancels = 0
    MaxLoops = 3
    OuterAwaits = TRUE
INVARIANT RoundIsAdmissible
CHECK_DEADLOCK FALSE
