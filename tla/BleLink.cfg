SPECIFICATION FairSpec
CONSTANTS
    Data = {d1, d2}
    NoReading = none
    BackoffStart = 5
    BackoffMax = 15
CHECK_DEADLOCK FALSE
INVARIANTS
    TypeOK
    LinkIsOwned
    StoppedIsQuiet
PROPERTIES
    StopReturnsEventually
    KeepsReconnecting
    ImplementsHub
    KeepsTelling
