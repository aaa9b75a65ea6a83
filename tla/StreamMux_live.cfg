SPECIFICATION Spec
CONSTANTS
    r1 = r1
    r2 = r2
    Requests <- TwoRequests
    Reader = Reader
    None = None
    NumSlots = 1
    MaxFrames = 2
CHECK_DEADLOCK FALSE
PROPERTIES
    EveryRequestEnds
