CONSTANTS
    a1 = a1
    i1 = i1
    i2 = i2
    NoThread = NoThread
    App = {a1}
    Io = {i1, i2}
    Client = FALSE
    Ops = {"close"}
    HandlerOps = {"text"}
    InFrames = {"text", "pong", "close", "bad", "invalid"}
    MaxCalls = 1
    MaxIn = 1
    ExternalClose = FALSE
    Faults = TRUE
SPECIFICATION FairSpec
PROPERTIES HangUpIsNoticed ClosingIsReported
