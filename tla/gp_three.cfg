SPECIFICATION Spec
CONSTANTS
    s1 = s1
    s2 = s2
    r1 = r1
    r2 = r2
    r3 = r3
    p = p
    b1 = b1
    b2 = b2
    NoFile = NoFile
    NoOne = NoOne
    Paths = {p}
    Bodies = {b1,b2}
    Servers = {s1,s2}
    Requests = {r1,r2,r3}
    ServerOf <- ThreeServerOf
    OpsOf <- ThreeOps
    MaxRetries = 2
    LockWrites = TRUE
    Faults = {"crash"}
    Ticking = {}
INVARIANTS LinearHistory LockKeepsBaseFresh
PROPERTY ImplementsRestStore
CHECK_DEADLOCK FALSE
