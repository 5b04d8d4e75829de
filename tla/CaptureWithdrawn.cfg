CONSTANTS
    p1 = p1
    p2 = p2
    stale = stale
    Parts <- OnePart
    Stale = stale
    MaxAttempt = 2
    MaxInvocation = 2
    FinishRetries = 1
SPECIFICATION Spec
INVARIANTS NoCallbackAfterWithdrawn
