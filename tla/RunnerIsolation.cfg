\* Two providers on one worker: each uses a part of the shared deadline.
SPECIFICATION Spec
CONSTANTS
    Task = {"aws", "azure"}
    Tasks <- TwoTasks
    MaxWorkers = 1
    Timeout = 1
    MaxTime = 3
INVARIANT
    FailuresAreIsolated
CHECK_DEADLOCK FALSE
