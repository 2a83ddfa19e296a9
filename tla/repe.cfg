CONSTANTS
    c1 = c1
    c2 = c2
    Caller = {c1, c2}
    Initial = 1
    MaxSockets = 2
    MaxCalls = 2
    MaxDrops = 1
    MaxInits = 1
    NotifyThrows = FALSE
    CustomCall = FALSE
SPECIFICATION Spec
INVARIANTS OneUser NoneIsMissing ResponseIsOwn
PROPERTY CallsReturn
CHECK_DEADLOCK FALSE
