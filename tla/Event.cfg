SPECIFICATION FairSpec
CONSTANTS
    Peaks <- LevelPeaks
    OptionSets <- ReloadOptions
    NoPeak = NoPeak
    None = None
    PostTimeout = 1
    MaxPending = 4
    HistoryFrames = 1
    PostFrames = 1
    MaxNow = 4
    MaxGeneration = 3
INVARIANTS FramesContiguous PartialMarked NothingDropped TriggersExact
PROPERTY BundlesDelivered
