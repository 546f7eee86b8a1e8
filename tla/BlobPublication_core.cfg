SPECIFICATION Spec
CONSTANTS
    NKeys = 2
    Layouts = {"whole", "segmented"}
    SegLen = 2
    MaxDeltas = 2
    Known = {}
    MaxVal = 3
    MaxMaint = 1
    MaxCrash = 2
INVARIANTS BlobsSurvive LiveNotDead ViewReads FrontierAgrees
CHECK_DEADLOCK FALSE
