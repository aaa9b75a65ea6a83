SPECIFICATION Spec
CONSTANTS
    Streams = {1, 3}
    InitialStream = 2
    InitialConn = 3
    InitialTarget = 2
    MaxTarget = 3
    StreamThreshold = 1
    ConnThreshold = 2
    LedgerSize = 1
    MaxFrame = 2
    MaxBody = 5
INVARIANTS
    CreditConserved
    NoStall
PROPERTIES
    BodyArrives
CHECK_DEADLOCK FALSE
