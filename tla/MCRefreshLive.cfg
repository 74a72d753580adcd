SPECIFICATION FairSpec
CONSTANTS
    b1 = b1
    b2 = b2
    r = r
    Jobs = {b1, r}
    Batches = {b1}
    Window <- WholeWindow
    Threads = {t1, t2}
    Conns = {c1, c2}
    MaxRetries = 1
    MaxFaults = 0
    MaxCrashes = 1
    MaxDuplicates = 0
    NoJob = NoJob
    NoMsg = NoMsg
    NoConn = NoConn
PROPERTIES
    JobSettles
CHECK_DEADLOCK FALSE
