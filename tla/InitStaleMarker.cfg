CONSTANTS
    DefaultWait = 2
    MinWait = 2
    MaxWait = 3
    RequestMax = 2
    PollMax = 2
    Pause = 1
    Offers = {1, 3}
    MaxIdle = 3
    MaxRun = 2
SPECIFICATION PowerSpec
INVARIANT CompletedTaskPowers
CHECK_DEADLOCK FALSE
