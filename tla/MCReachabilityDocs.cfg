CONSTANTS
    Gaps = {1, 2}
    MaxTime = 10
    Keys <- AllKeys
    TransitionKeys <- HeldBack
    Hold <- Holds
    TransitionMax = 4
    TransitionTail = 2
    Units = {"main", "second"}
    AgentEnabled = TRUE
    Observations <- Interesting
    Nothing = Nothing
    Replayable = 1
    MaxEvents = 0
    Modes = {"auto"}
    SleepAfter = 3
    PollTicks = 2
    MaxWork = 0
    MaxRefusals = 0
    Recordings <- OneSession
    Spacing = 2
    DemoOffset = 0
    DemoRestarts = 0
    Refused = Refused
    Unread = Unread
    NoAnswer = NoAnswer
SPECIFICATION PollSpec
INVARIANTS
    DownOrUnhealthyAlerts
CHECK_DEADLOCK FALSE
