\* Analyzer and flow logs: apply, then roll back.
SPECIFICATION Spec
CONSTANTS
    Account = {"acc1"}
    Region = {"us"}
    Bucket = {"b1"}
    Owner <- OneOwner
    InitialClouds <- Before
    Contested <- Uncontested
    Main = "main"
    Modes = {"apply"}
    ControlArg = {"AWS-IAM-002", "AWS-VPC-001"}
    Base = "acc1"
    Visits <- Accounts1
    OrgRole = FALSE
    Regions <- Regions1
    Excluded = {}
    Destination = TRUE
    Workers = 1
    ManifestAsked = TRUE
    Home = "acc1"
    HomeRegion = "us"
    InitialManifests <- NoFiles
    MaxAttempts = 1
INVARIANT
    ExitZeroMeansUndone
CHECK_DEADLOCK FALSE
