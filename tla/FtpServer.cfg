SPECIFICATION FairSpec
CONSTANTS
    Clients = {c1, c2}
    Names = {n1, n2, n3}
    MaxConnections = 2
    MaxFiles = 2
    MaxFileBytes = 2
    MaxTotalBytes = 2
    PassLimit = 1
    MaxFaults = 1
    MaxCrashes = 1
    Nobody = Nobody
INVARIANTS WithinQuota NothingLeft
PROPERTIES UploadsServed StopReturns
