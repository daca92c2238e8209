\* The same, against what is said of waivers.
SPECIFICATION MainSpec
CONSTANTS
    MaxRetries = 3
    BaseDelay = 2
    BackoffFactor = 2
    MaxDelay = 30
    Invocations <- Started
    Supported = {"control"}
    CustomControls <- Customs
    Outcomes <- Returned
    WaiverFiles <- Waivers
INVARIANT WaiversApply
CHECK_DEADLOCK FALSE
