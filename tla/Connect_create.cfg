SPECIFICATION Spec
CONSTANTS
    Conns = {c1, c2}
    NoProxy = NoProxy
    h1 = h1
    h2 = h2
    p1 = p1
    Requests <- MCRequests
    MaxAddresses = 2
    MaxTickets = 1
    CacheSize = 1
INVARIANTS
    NothingLeaks
    ReadyToTransfer
    
    OffersOwnTicket
PROPERTIES
    AttemptEnds
