CONSTANTS
    Gaps = {1, 2}
    MaxTime = 5
    Keys = {"gpu"}
    Cooldown = 2
    Grace = 2
    RetryEvery = 2
    GiveUpAfter = 1
SPECIFICATION Spec
INVARIANTS
    HeardIsTold
    NothingVanishes
    KeptNoLonger
CHECK_DEADLOCK FALSE
