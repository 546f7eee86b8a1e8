SPECIFICATION Spec
CONSTANTS
    WalFirst = FALSE
    SyncModes = {FALSE, TRUE}
    Bound = 0
    ReclaimLen = 3
    CrashKinds = {"process", "power"}
    CloseSyncFails = TRUE
    DrainFirst = FALSE
    WrittenBack = TRUE
    MaxBatch = 2
    MaxMut = 3
    MaxMaint = 1
    MaxCrash = 2
    MaxFault = 1
INVARIANTS AckedSurvives RecoveryAccepts CommitBoundary HandleAgreesWithDisk RefusedGroupRestored
PROPERTIES StoreSpec ReopenConverges
CHECK_DEADLOCK FALSE
