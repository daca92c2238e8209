\* Three providers on two workers: one scope each, one item of each listing.
SPECIFICATION AllSpec
CONSTANTS
    Task = {"azure", "gcp", "k8s"}
    Tasks <- ThreeTasks
    MaxWorkers = 2
    Timeout = 0
    MaxTime = 1
    Provider = {"azure", "gcp", "k8s"}
    ScopesOf <- Scopes
    ItemsOf <- Items
    ExcludedItem = {"x1"}
    AuditMode = "plan"
    ControlArg = {"AZURE-STORAGE-001", "AZURE-LOG-002", "GCP-STORAGE-002", "GCP-SEC-001", "K8S-POD-001"}
INVARIANTS
    AllTypeOK
    ExitTellsAll
PROPERTIES
    RunsABatch
    Terminates
CHECK_DEADLOCK FALSE
