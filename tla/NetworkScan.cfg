\* Four checks on two threads, one token of burst, a token every three ticks.
SPECIFICATION ScanSpec
CONSTANTS
    RawLists <- MCRawLists
    WorkerCounts <- MCWorkerCounts
    MaxEndpoints = 2
    MaxPool = 16
    SlowUntil = 2
    Caller = {1, 2, 3, 4}
    Period = 3
    Burst = 1
    Timeouts = {1, 3}
    MaxTime = 24
INVARIANTS
    ScanTypeOK
    BucketIsExact
    ConnectionBound
    EveryCheckAnswered
PROPERTY
    ScanEnds
CHECK_DEADLOCK FALSE
