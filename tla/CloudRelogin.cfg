SPECIFICATION Spec
CONSTANTS
    Data = {d1}
    NoReading = none
    BackoffStart = 5
    BackoffMax = 60
    ReloginAfter = 3
    StallTicks = 3
    KeepaliveTicks = 1
    MaxExpiries = 0
CHECK_DEADLOCK FALSE
INVARIANT
    ReloginNeedsARow
