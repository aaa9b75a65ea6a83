SPECIFICATION BridgeSpec
CONSTANTS
    Requests = {r1, r2}
    Styles <- MCStyles
    Handles = {1, 2}
    MaxChunks = 1
INVARIANTS
    ContextLive
    FirstAttemptPosted
PROPERTIES
    CompletionReachesConsumer
    EveryContextReclaimed
