SPECIFICATION Spec
CONSTANTS
    MaxChain = 2
    NPages = 2
    Known = {}
    MaxPub = 4
    MaxPrune = 2
    MaxRoot = 1
    MaxCrash = 2
    MaxFault = 1
INVARIANTS AckedKept GenerationsResolve FrontierAgrees FallbackOpens VersionsUnique
CHECK_DEADLOCK FALSE
