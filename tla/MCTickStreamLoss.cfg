CONSTANTS
    Sections = {"slots", "stats"}
    Contents = {0, 1}
    Absent = Absent
    Snapshots <- SnapshotsMade
    Pages = {p1}
    Sockets = {s1, s2}
    LivePoints = 3
    MaxTick = 3
    Gaps = {1}
    MaxTime = 2
    Conditions = {"gpu", "slow"}
    PushWorthy <- Pushed
    Ranks <- RanksShown
    RowLimit = 2
    DownTrip = 2
    StallAfter = 2
    AnnounceEvery = 3
SPECIFICATION ClientsSpec
INVARIANTS
    NoPointLost
CHECK_DEADLOCK FALSE
