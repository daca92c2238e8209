\* Apply on the two accounts of an organization; the second owns two buckets,
\* which a pool of two workers audits.
SPECIFICATION RunSpec
CONSTANTS
    Account = {"acc1", "acc2"}
    Region = {"us"}
    Bucket = {"b1", "b2"}
    Owner <- PoolOwners
    InitialClouds <- AllWeak
    Contested <- ContestedBucket
    Main = "main"
    Modes = {"apply"}
    ControlArg = {"AWS-ORG-CT-001", "AWS-S3-001", "AWS-S3-004"}
    Base = "acc1"
    Visits <- Accounts2
    OrgRole = TRUE
    Regions <- Regions1
    Excluded = {}
    Destination = FALSE
    Workers = 2
    ManifestAsked = TRUE
INVARIANTS
    RunTypeOK
    CleanExitIsComplete
    EveryChangeWasPut
    BeforeIsWhatWasOverwritten
    NothingSkipped
PROPERTIES
    RunTerminates
CHECK_DEADLOCK FALSE
