SPECIFICATION Spec
CONSTANTS
    f1 = f1
    f2 = f2
    n1 = n1
    n2 = n2
    Icds = {f1, f2}
    Packaged = f1
    Names = {n1, n2}
    NameOf <- TwoNames
    Ports = {p1, p2}
    NoFile = NoFile
    NoServer = NoServer
    MaxRequests = 2
    MaxFailures = 2
    MaxCrashes = 1
INVARIANTS ConfigurationFollowed ServerSurvives RejectionUndone
CHECK_DEADLOCK FALSE
