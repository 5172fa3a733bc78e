SPECIFICATION Spec
CONSTANTS
    A = A
    B = B
    r1 = r1
    r2 = r2
    r3 = r3
    p = p
    q = q
    d = d
    b1 = b1
    b2 = b2
    NoFile = NoFile
    Torn = Torn
    Paths = {p, q, d}
    Bodies = {b1, b2, Torn}
    Clones = {A, B}
    Requests = {r1, r2, r3}
    Directories = {d}
    CloneOf <- SharedClone
    OpsOf <- SharedOps
INVARIANTS IInv TypeOK SuccessIsPublished BodyIsPublished LinearUnlessMuddled DivergedServesErrors
PROPERTIES MainGrows AnswersFresh
CHECK_DEADLOCK FALSE
