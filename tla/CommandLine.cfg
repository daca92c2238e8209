\* Every combination of the guarded arguments, eleven processes with further
\* options, and notify with all choices of channels.
SPECIFICATION MainSpec
CONSTANTS
    MaxRetries = 3
    BaseDelay = 2
    BackoffFactor = 2
    MaxDelay = 30
    Invocations <- Started
    Supported = {"control"}
    CustomControls <- Customs
    Outcomes <- Returned
    WaiverFiles <- Waivers
INVARIANTS
    MainTypeOK
    RecordsComplete
    ExitIsWorst
    OnlyAcknowledged
    EveryChannelAnswered
    RepeatHasCause
    WaitIsBounded
PROPERTIES
    MainReturns
CHECK_DEADLOCK FALSE
