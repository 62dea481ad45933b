SPECIFICATION Spec
CONSTANTS
    MaxGeneration = 2
    MaxFaults = 1
    WebClients = {w1, w2}
    MaxHttp = 1
    MaxWebSockets = 1
    Ports = {p1, p2}
    MaxVersions = 1
    MaxInputs = 1
    TcpClients = {t1, t2}
    MaxTcp = 1
    Units = {u1, u2}
    MaxOutput = 1
    MaxAsked = 2
    FrameBytes = 3
    ReadBytes = 4
    MaxFrameBytes = 6
INVARIANT WholeFrames
CHECK_DEADLOCK FALSE
