CONSTANTS
    sa = sa
    si = si
    si2 = si2
    ca = ca
    ci = ci
    ci2 = ci2
    NoThread = NoThread
    ServerApp = {sa}
    ServerIo = {si}
    ClientApp = {ca}
    ClientIo = {ci}
    ServerOps = {"close"}
    ServerCalls = 1
    ClientOps = {"text", "close"}
    ClientCalls = 2
SPECIFICATION FairSpec
INVARIANTS CloseCodeIsReported InitiatorWaits
PROPERTY BothEndsClose
