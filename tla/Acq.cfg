SPECIFICATION FairSpec
CONSTANTS
    Blocks = 2
    OptionSets <- TwoOptions
    CycleDeadline = 1
    Quarantine = 2
    MaxLate = 1
    Replies <- AllReplies
    None = None
    MaxCycles = 4
    MaxNow = 14
INVARIANTS SnapshotPure StatusTruthful CycleStartsQuiet
PROPERTY CyclesEnd
CHECK_DEADLOCK FALSE
