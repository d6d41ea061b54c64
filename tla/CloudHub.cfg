SPECIFICATION FairSpec
CONSTANTS
    Data = {d1, d2}
    NoReading = none
    BackoffStart = 5
    BackoffMax = 15
    ReloginAfter = 2
    StallTicks = 3
    KeepaliveTicks = 1
    MaxExpiries = 1
CHECK_DEADLOCK FALSE
INVARIANTS
    ShownIsTheHub
    KeepaliveHasItsSocket
PROPERTIES
    StopEndsLoop
    HalfOpenIsNoticed
    KeepsReconnecting
    ImplementsHub
