CONSTANTS
    p1 = p1
    p2 = p2
    stale = stale
    Parts <- OnePart
    Stale = stale
    MaxAttempt = 1
    MaxInvocation = 1
    FinishRetries = 1
SPECIFICATION FairSpec
PROPERTIES ProducerFailureIsLoud
