SPECIFICATION FairSpec
CONSTANTS
    MaxGeneration = 2
    MaxFaults = 1
    WebClients = {w1, w2}
    MaxHttp = 1
    MaxWebSockets = 1
    Ports = {p1, p2}
    MaxVersions = 2
    MaxInputs = 1
    TcpClients = {t1}
    MaxTcp = 1
    Units = {u1, u2}
    MaxOutput = 2
    MaxAsked = 3
    FrameBytes = 3
    ReadBytes = 4
    MaxFrameBytes = 6
INVARIANTS SlotsExact AnswersInOrder RtuAnswered
PROPERTIES TelemetryDelivered EndpointsFollowed
CHECK_DEADLOCK FALSE
