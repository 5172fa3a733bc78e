SPECIFICATION Spec
CONSTANTS
    d = d
    f = f
    g = g
    b1 = b1
    b2 = b2
    NoFile = NoFile
    Names = {d, f, g}
    Bodies = {b1, b2}
    Paths <- FlatPaths
    OutsideNames = {d, f, g}
    Between = {}
    OutsideDirs <- Nested
    Depth = 2
INVARIANTS IInv TypeOK AnswersAsDocumented
PROPERTY OnlyAtPath
