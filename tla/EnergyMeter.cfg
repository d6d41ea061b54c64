SPECIFICATION Spec
CONSTANTS
    Powers <- MCPowers
    NoPower = none
    StaleAfter = 2
    PollTicks = 3
    WattHour = 3
    MaxTicks = 10
    MaxCrashes = 1
INVARIANTS
    TypeOK
    EveryTickOnce
    OverrunBounded
    NothingHeldWhileDown
PROPERTY
    TotalNeverFalls
