SPECIFICATION Spec
CONSTANTS
    b1 = b1
    b2 = b2
    r = r
    Jobs = {b1, b2}
    Batches = {b1, b2}
    Window <- Windows
    Threads = {t1, t2}
    Conns = {c1, c2}
    MaxRetries = 1
    MaxFaults = 1
    MaxCrashes = 1
    MaxDuplicates = 1
    NoJob = NoJob
    NoMsg = NoMsg
    NoConn = NoConn
SYMMETRY PoolSymmetry
INVARIANTS
    IInv
    CompletedIsPublished
PROPERTIES
    FactsNeverLost
    ImplementsContract
CHECK_DEADLOCK FALSE
