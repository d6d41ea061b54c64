SPECIFICATION FairSpec
CONSTANTS
    Units = {u1, u2}
    Keys = {ac}
    NoData = NoData
    Calls = {c1, c2}
    MaxFrames = 2
    Budget <- Twice
CHECK_DEADLOCK FALSE
INVARIANTS
    TypeOK
    CommandsGoWhereDataIsFrom
    ShownWasSo
PROPERTIES
    SettlesOnTheUnit
