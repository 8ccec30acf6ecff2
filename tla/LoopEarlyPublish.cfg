SPECIFICATION Spec
CONSTANTS
    Setups <- Producers
    HandlerCmds = {"PUB"}
    Faults = {}
    OverflowChecks = FALSE
    U32 = 8
    MaxMsgs = 2
    MaxBeats = 1
    MaxExtra = 1
    MaxCloses = 1
INVARIANT IdentifyDecoded
CHECK_DEADLOCK FALSE
