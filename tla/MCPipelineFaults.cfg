SPECIFICATION Spec
CONSTANTS
    Batches = {b1}
    Workers = {w1, w2}
    k1 = k1
    k2 = k2
    Keys = {k1, k2}
    File <- RepeatedRowFile
    Chunk = 2
    FinalAttempt = 2
    MaxRetries = 2
    Verdicts = {"clean", "blocking"}
    FaultySteps = {"acquire", "parse", "validate", "map", "normalize", "load", "finalize"}
    BrokerFails = TRUE
    MaxFaults = 1
    MaxCrashes = 0
    MaxDuplicates = 1
    NoFile = NoFile
    NoMsg = NoMsg
SYMMETRY WorkerSymmetry
INVARIANTS
    QualityBeforeLoad
    CompletedIsWhole
PROPERTIES
    TerminalNotReopened
    ImplementsContract
CHECK_DEADLOCK FALSE
