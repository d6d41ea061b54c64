SPECIFICATION FairSpec
CONSTANTS
    Data = {d1}
    NoReading = none
    BackoffStart = 5
    BackoffMax = 60
    ReloginAfter = 3
    StallTicks = 18
    KeepaliveTicks = 5
    MaxExpiries = 0
CHECK_DEADLOCK FALSE
PROPERTY
    SilentTelemetryIsNoticed
