SPECIFICATION FairSpec
CONSTANTS
    Callers = {c1}
    RecvFields <- MCRecvFields
    SendFields <- MCSendFields
    RawFields = {"ac_frequency_hz"}
    InvertedFields = {"key_voice"}
    Switchable = {"ac", "dc"}
    Settings <- MCSettings
    ReportLengths = {4, 12}
    RawSettings = {50, 60}
    NoState = none
    MaxInFlight = 2
    MaxDrops = 1
    ForeignFields = {"ac", "ac_frequency_hz", "battery_health"}
    MaxForeign = 1
INVARIANTS
    TypeOK
    NoSettingInvented
    
    
PROPERTIES
    
    SettlesOnTheUnit
