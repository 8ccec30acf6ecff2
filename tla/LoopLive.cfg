SPECIFICATION FairSpec
CONSTANTS
    Setups <- Steady
    HandlerCmds = {"FIN", "PUB"}
    Faults = {"eof", "silent", "would_block"}
    OverflowChecks = FALSE
    U32 = 8
    MaxMsgs = 1
    MaxBeats = 1
    MaxExtra = 1
    MaxCloses = 1
PROPERTY HandshakeCompletes
PROPERTY HeartbeatAnswered
PROPERTY CommandsWritten
PROPERTY CloseHonoured
PROPERTY PlainLossReported
CHECK_DEADLOCK FALSE
