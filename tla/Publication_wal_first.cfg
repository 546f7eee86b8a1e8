SPECIFICATION Spec
CONSTANTS
    WalFirst = TRUE
    SyncModes = {FALSE}
    Bound = 4
    ReclaimLen = 3
    CrashKinds = {"process", "power"}
    CloseSyncFails = FALSE
    DrainFirst = TRUE
    WrittenBack = TRUE
    MaxBatch = 2
    MaxMut = 3
    MaxMaint = 1
    MaxCrash = 2
    MaxFault = 1
INVARIANTS RecoveryAccepts HandleAgreesWithDisk
PROPERTIES StoreSpec
CHECK_DEADLOCK FALSE
