\* Three files, every combination of tools, and runs in the same and in different seconds.
SPECIFICATION LinuxSpec
CONSTANTS
    OwnConfigs <- Files
    Firewalls <- Found
    Managers = {"apt", "dnf"}
    MaxTime = 1
INVARIANTS
    LinuxTypeOK
    NothingUnrecoverable
    CutOffOnlyIfStopped
PROPERTIES
    AppliedMeansHardened
    PlanChangesNothing
    ScriptEnds
CHECK_DEADLOCK FALSE
