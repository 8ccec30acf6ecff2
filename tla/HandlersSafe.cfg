SPECIFICATION Spec
CONSTANTS
    Clients = {c1}
    Workers = {w1, w2}
    Producers = {p1}
    ClientOf <- MCClientOf
    NoThread = NoThread
    MaxMsgs = 2
    MaxSends = 1
    MaxConnMsgs = 1
    MaxLost = 1
    Panics = TRUE
SYMMETRY MCSymmetry
INVARIANT TypeOK
INVARIANT CommandCovered
INVARIANT NoHandlingAfterClose
INVARIANT OnCloseOnce
INVARIANT HandledInOrder
INVARIANT CloseRequestBehindEvent
CHECK_DEADLOCK FALSE
