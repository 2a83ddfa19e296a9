CONSTANTS
    a1 = a1
    i1 = i1
    i2 = i2
    NoThread = NoThread
    App = {a1}
    Io = {i1, i2}
    Client = TRUE
    Ops = {"text", "force_close"}
    HandlerOps = {"close"}
    InFrames = {"ping", "flood"}
    MaxCalls = 2
    MaxIn = 1
    ExternalClose = TRUE
    Faults = FALSE
SYMMETRY IoSymmetry
SPECIFICATION Spec
INVARIANTS OneReader CloseHandlerExcluded
