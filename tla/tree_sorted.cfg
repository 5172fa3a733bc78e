SPECIFICATION Spec
CONSTANTS
    d = d
    f = f
    g = g
    b1 = b1
    b2 = b2
    NoFile = NoFile
    Names = {d, f, g}
    Bodies = {b1, b2}
    Paths <- DAndG
    OutsideNames = {d}
    Between <- DBeginsG
    OutsideDirs <- OneDir
    Depth = 1
INVARIANT AnswersAsDocumented
