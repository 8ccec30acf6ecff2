SPECIFICATION FairSpec
CONSTANTS
    Clients = {c1, c2}
    Workers = {w1, w2}
    Producers = {}
    ClientOf <- MCClientOf
    NoThread = NoThread
    MaxMsgs = 1
    MaxSends = 1
    MaxConnMsgs = 0
    MaxLost = 0
    Panics = FALSE
PROPERTY MessagesHandled
CHECK_DEADLOCK FALSE
