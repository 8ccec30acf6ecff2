SPECIFICATION FairSpec
CONSTANTS
    Setups <- TlsConsumers
    HandlerCmds = {"FIN"}
    Faults = {"eof", "tls_failure"}
    OverflowChecks = TRUE
    U32 = 8
    MaxMsgs = 1
    MaxBeats = 1
    MaxExtra = 1
    MaxCloses = 0
PROPERTY LostPeerReported
CHECK_DEADLOCK FALSE
