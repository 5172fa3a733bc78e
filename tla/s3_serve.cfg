SPECIFICATION Spec
CONSTANTS
    r1 = r1
    r2 = r2
    p = p
    q = q
    b1 = b1
    b2 = b2
    NoFile = NoFile
    Cleaner = Cleaner
    Paths = {p, q}
    Bodies = {b1, b2}
    Requests = {r1, r2}
    OpsOf <- RaceOps
    MaxAttempts = 2
    HeadFailing = {"PUT", "DELETE"}
    PageSize = 2
INVARIANTS IInv TypeOK TookAsAnswered
PROPERTIES AloneIsSequential CleanupEmpties
CHECK_DEADLOCK FALSE
