SPECIFICATION Spec
CONSTANTS
    Platforms = {"sensor", "switch"}
    MaxHubs = 3
CHECK_DEADLOCK FALSE
INVARIANTS
    TypeOK
    EntitiesHaveTheirHub
    RunningIsReachable
    LinkIsFree
