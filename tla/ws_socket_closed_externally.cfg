CONSTANTS
    a1 = a1
    i1 = i1
    i2 = i2
    NoThread = NoThread
    App = {a1}
    Io = {i1}
    Client = TRUE
    Ops = {"text"}
    HandlerOps = {"text"}
    InFrames = {"close"}
    MaxCalls = 1
    MaxIn = 1
    ExternalClose = TRUE
    Faults = FALSE
SPECIFICATION Spec
INVARIANT SocketMutexIsReleased
