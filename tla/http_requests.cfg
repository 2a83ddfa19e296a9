CONSTANTS
    r1 = r1
    r2 = r2
    a = a
    b = b
    s1 = s1
    s2 = s2
    s3 = s3
    s4 = s4
    NoSocket = NoSocket
    Request = {r1, r2}
    Host = {a, b}
    Socket = {s1, s2, s3, s4}
    Home = {a}
    Redirected = {r1}
    Safe = {r1}
    Framings <- OneVaried
    MaxPerHost = 1
    MaxRedirects = 2
    ActiveCheck = TRUE
    IdleTimeout = TRUE
    MaxClear = 1
    MaxDrops = 1
SPECIFICATION Spec
INVARIANTS OneUser ResponseIsOwn CredentialsStayHome NoVainWait
PROPERTY NotRepeated
CHECK_DEADLOCK FALSE
