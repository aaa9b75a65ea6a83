SPECIFICATION Spec
CONSTANTS
    MaxPieces = 2
    Behaviours <- MCBehaviours
INVARIANTS
    SuccessSequence
    CancelledIsReset
    OutcomeReported
    RetryFromScratch
