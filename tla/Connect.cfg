SPECIFICATION FairSpec
CONSTANTS
    MaxAddrs = 9
    LookupTimes = {8000, 40000}
    Faults = {"lookup", "route", "recv_buffer"}
INVARIANT TypeOK
INVARIANT FirstReachable
INVARIANT FreshHeartbeat
PROPERTY Connects
CHECK_DEADLOCK FALSE
