SPECIFICATION FairSpec
CONSTANTS
    Batches = {b1}
    Workers = {w1, w2}
    k1 = k1
    k2 = k2
    Keys = {k1}
    File <- OneRowFile
    Chunk = 1
    FinalAttempt = 2
    MaxRetries = 2
    Verdicts = {"clean", "blocking"}
    FaultySteps = {"acquire", "parse", "validate", "map", "normalize", "load"}
    BrokerFails = FALSE
    MaxFaults = 1
    MaxCrashes = 0
    MaxDuplicates = 1
    NoFile = NoFile
    NoMsg = NoMsg
INVARIANTS
    RetryIsScheduled
PROPERTIES
    CompletedReachesAnalytics
    Settles
CHECK_DEADLOCK FALSE
