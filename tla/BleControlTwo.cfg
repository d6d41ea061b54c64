SPECIFICATION Spec
CONSTANTS
    Callers = {c1, c2}
    RecvFields <- MCRecvFields
    SendFields <- MCSendFields
    RawFields = {"ac_frequency_hz"}
    InvertedFields = {"key_voice"}
    Switchable = {"ac", "dc"}
    Settings <- MCSettings
    ReportLengths = {12}
    RawSettings = {50, 60}
    NoState = none
    MaxInFlight = 2
    MaxDrops = 0
    ForeignFields = {"ac", "ac_frequency_hz", "battery_health"}
    MaxForeign = 0
PROPERTIES
    OnlyTheNamedSwitchMoves
