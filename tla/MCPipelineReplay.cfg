SPECIFICATION Spec
CONSTANTS
    Batches = {b1, b2}
    Workers = {w1}
    k1 = k1
    k2 = k2
    Keys = {k1}
    File <- OneRowFile
    Chunk = 1
    FinalAttempt = 2
    MaxRetries = 2
    Verdicts = {"clean", "blocking"}
    FaultySteps = {}
    BrokerFails = FALSE
    MaxFaults = 1
    MaxCrashes = 0
    MaxDuplicates = 0
    NoFile = NoFile
    NoMsg = NoMsg
INVARIANTS
    AnalyticsOnlyForCompleted
CHECK_DEADLOCK FALSE
