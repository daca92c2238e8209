\* Files of every kind, in one account and region; two attempts.
SPECIFICATION RollbackSpec
CONSTANTS
    Account = {"acc1", "acc2"}
    Region = {"us"}
    Bucket = {"b1"}
    Owner <- OneOwner
    InitialClouds <- AfterApply
    Contested <- ContestedBucket
    Home = "acc1"
    HomeRegion = "us"
    InitialManifests <- Files
    MaxAttempts = 2
INVARIANTS
    RollbackTypeOK
    EveryChangeAnswered
PROPERTIES
    RollbackTerminates
CHECK_DEADLOCK FALSE
