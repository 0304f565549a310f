CONSTANTS
    Gaps = {1, 2}
    MaxTime = 6
    Nothing = Nothing
    Replayable = 1
    MaxEvents = 3
SPECIFICATION TelemetrySpec
INVARIANTS
    DiskRateIsOfItsInterval
CHECK_DEADLOCK FALSE
