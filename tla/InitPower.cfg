CONSTANTS
    DefaultWait = 3
    MinWait = 2
    MaxWait = 4
    RequestMax = 2
    PollMax = 2
    Pause = 1
    Offers = {1, 2, 4}
    MaxIdle = 4
    MaxRun = 2
SPECIFICATION PowerFairSpec
INVARIANTS PowerTypeOK NothingOutlastsDeadline ActionIsRecorded FailureActionHonoured RecoveryKeepsPower
PROPERTIES OneWindow RejectedIsFinal RetryIsClean QuietUndone WindowCloses FailureIsActedOn
CHECK_DEADLOCK FALSE
