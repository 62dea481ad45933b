SPECIFICATION Spec
CONSTANTS
    StaticConfigs = {s1, s2}
    DhcpConfigs = {d1}
    Leases = {l1, l2}
    NoConfig = NoConfig
    NoLease = NoLease
    NoFile = NoFile
    NoStage = NoStage
    Window = 1
    MaxNow = 3
    MaxBoot = 2
    MaxFaults = 1
    MaxCrashes = 1
SYMMETRY Symmetry
INVARIANTS SettledConfig LeaseKept AddressMatches MakeBeforeBreak
PROPERTY ImplementsPromise
CHECK_DEADLOCK FALSE
