CONSTANTS
    Targets <- Moved
    NoTarget = NoTarget
    NoStream = NoStream
    MaxPipe = 1
    Slots = {1}
    Replay = 4
    MaxRequests = 2
    MaxTask = 2
    MaxLog = 2
    MaxTails = 2
    Hosts <- AllHosts
    Nowhere = Nowhere
    DiscoveryTTL = 6
    DiscoveryRetry = 3
    GuestsTTL = 1
    RefreshWithin = 2
    Cards = {"g0", "g1"}
    MaxAge = 2
    Stall = 4
    Respawn = 2
    CollectWithin = 1
SPECIFICATION JournalSpec
PROPERTIES
    FollowsActive
