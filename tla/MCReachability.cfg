CONSTANTS
    Gaps = {1, 2}
    MaxTime = 10
    Keys <- AllKeys
    TransitionKeys <- HeldBack
    Hold <- Holds
    TransitionMax = 4
    TransitionTail = 2
    Units = {"main", "second"}
    AgentEnabled = TRUE
    Observations <- Interesting
    Nothing = Nothing
    Replayable = 1
    MaxEvents = 3
    Modes = {"auto", "busy", "always"}
    SleepAfter = 3
    PollTicks = 2
    MaxWork = 2
    MaxRefusals = 1
    Recordings <- Sessions
    Spacing = 2
    DemoOffset = 4
    DemoRestarts = 1
    Refused = Refused
    Unread = Unread
    NoAnswer = NoAnswer
SPECIFICATION PollSpec
INVARIANTS
    BoundedSilence
    PlannedSwitchIsQuiet
    HeldConditionIsShown
    TokensAreOfTheInterval
    SignalsConserved
PROPERTIES
    FailedLoadAlertsAtOnce
    LeftAsleep
    AsleepAfterWork
    NothingGoesBackwards
CHECK_DEADLOCK FALSE
