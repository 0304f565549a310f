CONSTANTS
    Gaps = {1, 2}
    MaxTime = 7
    Keys = {"llama", "gpu"}
    TransitionKeys = {"llama"}
    Hold <- Holds
    TransitionMax = 3
    TransitionTail = 1
    Cooldown = 4
    Grace = 3
    LevelsOf <- LevelsOfKeys
    PushSkip = {}
    WarningsPushed = {}
    FirstPollDelay = 1
    MaxFaults = 1
SPECIFICATION PipeSpec
INVARIANTS
    ClearedMeansGone
    ShownIsAnnounced
    ShownIsLogged
PROPERTIES
    NothingRepeated
    CooldownKept
CHECK_DEADLOCK FALSE
