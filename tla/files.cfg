SPECIFICATION Spec
CONSTANTS
    w1 = w1
    w2 = w2
    w3 = w3
    Calls = {w1, w2, w3}
    Works = {"replace", "write", "upload", "read"}
    MaxDrops = 1
    Orig = Orig
    None = None
SYMMETRY CallSymmetry
INVARIANTS TextSurvives NoOverwrite ReadsAreWhole IInv
PROPERTY ReplaceTakesEffect
CHECK_DEADLOCK FALSE
