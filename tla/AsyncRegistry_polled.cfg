SPECIFICATION Spec
CONSTANTS
    a = a
    b = b
    p = p
    q = q
    None = None
    Requests <- BothRequests
    Polls <- AllPolls
    Http11 <- OnlyB
    Truncates <- OnlyB
    NumSlots = 1
INVARIANTS
    PollsTouchLiveMemory
    FreedOnce
    NothingLeaks
PROPERTIES
    EveryHandleReclaimed
CHECK_DEADLOCK FALSE
