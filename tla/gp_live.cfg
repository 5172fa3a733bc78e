SPECIFICATION FairSpec
CONSTANTS
    s1 = s1
    s2 = s2
    r1 = r1
    r2 = r2
    r3 = r3
    p = p
    b1 = b1
    b2 = b2
    NoFile = NoFile
    NoOne = NoOne
    Paths = {p}
    Bodies = {b1}
    Servers = {s1}
    Requests = {r1,r2}
    ServerOf <- OneServerOf
    OpsOf <- LiveOps
    MaxRetries = 1
    LockWrites = TRUE
    Faults = {"netFail","lostReply","leftOpen"}
    Ticking = {s1}
PROPERTIES EveryCallReturns CleanupRuns
CHECK_DEADLOCK FALSE
