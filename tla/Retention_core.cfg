SPECIFICATION Spec
CONSTANTS
    Layouts = {"whole", "segmented"}
    Modes = {"default", "wal_first"}
    Leases = {l1}
    Known = {}
    MaxCommit = 2
    MaxMaint = 2
    MaxRoot = 2
    MaxOpen = 1
    MaxFault = 1
INVARIANTS OpenAccepts RootsStay RootsReadable TxReadsBase SidecarsOwned
CHECK_DEADLOCK FALSE
