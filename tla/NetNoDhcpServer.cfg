SPECIFICATION FairSpec
CONSTANTS
    StaticConfigs = {s1}
    DhcpConfigs = {d1}
    Leases = {l1}
    NoConfig = NoConfig
    NoLease = NoLease
    NoFile = NoFile
    NoStage = NoStage
    Window = 1
    MaxNow = 2
    MaxBoot = 1
    MaxFaults = 0
    MaxCrashes = 0
PROPERTY PendingResolved
CHECK_DEADLOCK FALSE
