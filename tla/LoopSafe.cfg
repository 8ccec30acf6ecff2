SPECIFICATION Spec
CONSTANTS
    Setups <- All
    HandlerCmds = {"FIN", "TOUCH", "PUB"}
    Faults = {"eof", "reset", "silent", "short_read", "early_heartbeat", "late_command", "would_block", "tls_failure"}
    OverflowChecks = FALSE
    U32 = 8
    MaxMsgs = 1
    MaxBeats = 1
    MaxExtra = 1
    MaxCloses = 1
INVARIANT TypeOK
INVARIANT SessionOrder
INVARIANT HandshakeOrder
INVARIANT TlsProducerNeverSubscribes
 
INVARIANT InFlightBalance
 
PROPERTY ImplementsSession
CHECK_DEADLOCK FALSE
