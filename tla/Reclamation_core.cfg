SPECIFICATION Spec
CONSTANTS
    Pages = {1, 2}
    Capacity = 5
    Pins = {i1}
    LateRetain = FALSE
    Outlive = TRUE
    WrittenBack = TRUE
    MaxTick = 3
    MaxGc = 1
    MaxVacuum = 1
    MaxPin = 1
    MaxCrash = 1
INVARIANTS GenerationFits AuthorityIntact PinsIntact SlotsDisjoint
CHECK_DEADLOCK FALSE
