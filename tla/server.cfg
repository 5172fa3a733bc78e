SPECIFICATION Spec
CONSTANTS
    t1 = t1
    t2 = t2
    m = m
    w = w
    x = x
    y = y
    b1 = b1
    b2 = b2
    NoFile = NoFile
    Paths = {m, w, x, y}
    Bodies = {b1, b2}
    Clients = {t1, t2}
    ScriptOf <- Scripts
    NamesFor <- Names
    MaxActions <- Actions
    Backends = {"memory", "remote"}
    Found <- FoundTrees
    MaxRetries = 2
    MaxTimeouts = 1
    MetricsPath = m
INVARIANTS IInv TypeOK CountersAgree RetriesAreOfSuccesses
PROPERTIES FailsForAReason SuccessLeavesItsWrites
CHECK_DEADLOCK FALSE
