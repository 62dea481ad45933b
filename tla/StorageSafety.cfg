SPECIFICATION FairSpec
CONSTANTS
    MaxTime = 2
    Retention = 0
    Total = 20
    Others <- Usages
    MinFrees <- Frees
    LowPercent = 10
    RecoveryPercent = 15
    RecoveryExtra = 1
    MaxBundles = 1
    MaxFaults = 1
    MaxCrashes = 1
    NoFile = NoFile
INVARIANTS ReportedDurable BundlesAccounted
PROPERTIES RemovalsInOrder WritingResumes

