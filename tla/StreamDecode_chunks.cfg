SPECIFICATION DecodeSpec
CONSTANTS
    Bodies <- MCBodies
    OutSize = 2
    FirstSize = 2
    MaxUnits = 2
    MaxOut = 5
    MaxFrameUnits = 3
    FrameOuts = {0, 1, 3}
INVARIANTS
    StreamedBodyWhole
    NoGap
    BufferedBodyWhole
PROPERTIES
    DecodingEnds
