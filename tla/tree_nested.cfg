SPECIFICATION Spec
CONSTANTS
    d = d
    f = f
    g = g
    b1 = b1
    b2 = b2
    NoFile = NoFile
    Names = {d, f}
    Bodies = {b1, b2}
    Paths <- NestedPaths
    OutsideNames = {}
    Between = {}
    OutsideDirs <- NoDirs
    Depth = 1
INVARIANT AnswersAsDocumented
