SPECIFICATION Spec
CONSTANTS
    Pages = {1, 2}
    Capacity = 5
    Pins = {i1}
    LateRetain = TRUE
    Outlive = FALSE
    WrittenBack = TRUE
    MaxTick = 4
    MaxGc = 0
    MaxVacuum = 0
    MaxPin = 1
    MaxCrash = 1
INVARIANTS LateRootIntact
CHECK_DEADLOCK FALSE
