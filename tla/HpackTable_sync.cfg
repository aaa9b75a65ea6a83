SPECIFICATION Spec
CONSTANTS
    Fields <- MCFields
    Size <- MCSize
    Streams = {1, 3}
    InitialMax = 2
    Advertised = 3
    MaxHeaders = 1
    MaxFields = 2
    MaxBlocks = 3
INVARIANTS
    HeadersRight
CHECK_DEADLOCK FALSE
