SPECIFICATION Spec
CONSTANTS
    Timeout = 5
    Interval = 2
    RequestTimeout = 3
    MaxAttempts = 2
INVARIANTS
    TypeOK
    JobStartedOnce
    VerdictTruthful
    DeadlineHolds
PROPERTIES
    BrokenPollIsRetried
    InvocationEnds
