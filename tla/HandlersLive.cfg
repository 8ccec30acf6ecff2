SPECIFICATION FairSpec
CONSTANTS
    Clients = {c1}
    Workers = {w1, w2}
    Producers = {}
    ClientOf <- MCClientOf
    NoThread = NoThread
    MaxMsgs = 2
    MaxSends = 1
    MaxConnMsgs = 1
    MaxLost = 1
    Panics = TRUE
PROPERTY CommandsFlushed
PROPERTY OnePillStopsAll
PROPERTY MessagesHandled
CHECK_DEADLOCK FALSE
