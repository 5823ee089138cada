SPECIFICATION Spec
CONSTANTS
    w1 = w1
    w2 = w2
    Calls = {w1, w2}
    Works = {"replace", "read"}
    MaxDrops = 0
    Orig = Orig
    None = None
INVARIANT ReplaceIsAtomic
CHECK_DEADLOCK FALSE
