SPECIFICATION Spec
CONSTANTS
    Responses <- AllFramings
    NumExchanges = 3
    MayCloseEarly = TRUE
INVARIANTS
    NoCrossTalk
    CleanReuse
    DelimitedResponseWhole
PROPERTIES
    EveryExchangeEnds
CHECK_DEADLOCK FALSE
