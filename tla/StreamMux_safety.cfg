SPECIFICATION Spec
CONSTANTS
    r1 = r1
    r2 = r2
    Requests <- TwoRequests
    Reader = Reader
    None = None
    NumSlots = 2
    MaxFrames = 3
INVARIANTS
    NoUseAfterFree
    NoLostWakeup
    EndedIsReported
CHECK_DEADLOCK FALSE
SYMMETRY RequestSymmetry
