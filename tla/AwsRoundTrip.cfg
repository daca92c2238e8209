\* Every mode, then rollback: one account visited twice (two profiles), two regions,
\* two buckets of which the policy excludes one.
SPECIFICATION Spec
CONSTANTS
    Account = {"acc1"}
    Region = {"us", "eu"}
    Bucket = {"b1", "b2"}
    Owner <- OneOwner
    InitialClouds <- OffOrOnInUs
    Contested <- ContestedBucket
    Main = "main"
    Modes = {"audit", "plan", "apply"}
    ControlArg = {"AWS-S3-004", "AWS-EBS-001"}
    Base = "acc1"
    Visits <- Twice
    OrgRole = FALSE
    Regions <- Regions2
    Excluded = {"b2"}
    Destination = FALSE
    Workers = 1
    ManifestAsked = TRUE
    Home = "acc1"
    HomeRegion = "us"
    InitialManifests <- NoFiles
    MaxAttempts = 2
INVARIANTS
    PassMeansRestored
    NoCollateral
    CleanRoundTripRestores
CHECK_DEADLOCK FALSE
