SPECIFICATION FairSpec
CONSTANTS
    StaticConfigs = {s1, s2}
    DhcpConfigs = {}
    Leases = {l1}
    NoConfig = NoConfig
    NoLease = NoLease
    NoFile = NoFile
    NoStage = NoStage
    Window = 1
    MaxNow = 2
    MaxBoot = 2
    MaxFaults = 1
    MaxCrashes = 1
PROPERTIES PendingResolved ServiceReturns AddressAfterPowerLoss
CHECK_DEADLOCK FALSE
