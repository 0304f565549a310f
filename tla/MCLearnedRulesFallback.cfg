CONSTANTS
    Gaps = {1}
    MaxTime = 7
    Models = {m1}
    NoModel = NoModel
    Serials = {s1}
    None = None
    Machines <- OneModel
    MaxFaults = 0
    MinSamples = 3
    BaselineWindow = 5
    SlowRun = 2
    SlowDivisor = 4
    ColdSlow = 2
    SelHold = 3
    PowerRun = 2
    ParseMisses = 2
    Tables <- RollupTables
    Width <- RollupWidth
    KeepRollup <- RollupKeep
    KeepRaw = 12
    PersistEvery = 2
    RollupEvery = 1
    PruneEvery = 3
    Ranges = {6, 18, 24}
    UsageBucket <- UsageBars
    TzOffsets = {0, 1}
    Requests = {r1}
    DownFor = {1, 14}
    NoCursor = NoCursor
    MaxPolls = 21
    MaxStoreFaults = 2
SPECIFICATION StoreSpec
PROPERTIES
    FallbackIsSustained
CHECK_DEADLOCK FALSE
