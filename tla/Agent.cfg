\* Two providers, two identities of which one hides the other when it is in error, one
\* fault, a history of one file.
SPECIFICATION Spec
CONSTANTS
    Provider = {"aws", "gcp"}
    Key = {"projects", "keys"}
    Gap = {"projects"}
    KeyOwner <- KeyOwnerDef
    Behind <- BehindDef
    Manual = {"keys"}
    NotifyConfigured = TRUE
    Interval = 1
    MaxHistory = 1
    MaxFaults = 1
INVARIANTS
    TypeOK
    RecordedMeansAnnounced
PROPERTIES
    AnnouncedOnce
    FailureIsAnnounced
    GracefulShutdown
CHECK_DEADLOCK FALSE
