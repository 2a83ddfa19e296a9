CONSTANTS
    a1 = a1
    i1 = i1
    i2 = i2
    NoThread = NoThread
    App = {a1}
    Io = {i1, i2}
    Client = FALSE
    Ops = {"text", "close"}
    HandlerOps = {"text"}
    InFrames = {"text", "close", "invalid"}
    MaxCalls = 2
    MaxIn = 2
    ExternalClose = FALSE
    Faults = TRUE
SYMMETRY IoSymmetry
SPECIFICATION Spec
INVARIANTS OneWriter QueueIsDrained OnCloseOnce OneCloseFrame
