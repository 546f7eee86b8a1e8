SPECIFICATION Spec
CONSTANTS
    NKeys = 2
    Layouts = {"whole"}
    SegLen = 2
    MaxDeltas = 2
    Known = {"lagging_image"}
    MaxVal = 3
    MaxMaint = 1
    MaxCrash = 2
INVARIANT BlobsSurvive
CHECK_DEADLOCK FALSE
