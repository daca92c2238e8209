\* The same, against the release notes.
SPECIFICATION WebhooksSpec
CONSTANTS
    MaxRetries = 3
    BaseDelay = 2
    BackoffFactor = 2
    MaxDelay = 30
INVARIANT TransientIsRetried
CHECK_DEADLOCK FALSE
