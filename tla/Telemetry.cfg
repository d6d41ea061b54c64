SPECIFICATION FairSpec
CONSTANTS
    Opcodes = {"light", "totals", "ports", "temps", "battery"}
    Blocks <- MCBlocks
    Sizes <- MCSizes
    Changes = 2
    None = none
INVARIANTS
    NoValueIsMadeUp
PROPERTIES
    SettlesOnTheUnit
