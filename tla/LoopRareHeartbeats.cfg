SPECIFICATION Spec
CONSTANTS
    Setups <- Rare
    HandlerCmds = {"FIN"}
    Faults = {}
    OverflowChecks = FALSE
    U32 = 8
    MaxMsgs = 1
    MaxBeats = 2
    MaxExtra = 0
    MaxCloses = 0
PROPERTY SettledTruthful
CHECK_DEADLOCK FALSE
