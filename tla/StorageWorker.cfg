SPECIFICATION Spec
CONSTANTS
    Files = {f1, f2}
    Payload = {f2}
    MaxBoot = 2
    MaxLate = 2
INVARIANTS TypeOK HoldWhileStreaming StoppedIsTrue SequenceAgreement DoneMeansReleased
PROPERTIES ImplementsHold SessionEnds RecoveryReleases
CHECK_DEADLOCK FALSE
